------------------------- MODULE RawRetention_proofs -------------------------
(***************************************************************************)
(* Proofs about RawRetention, for any jobs, bodies, processes, parser      *)
(* versions and combinations of faults.                                    *)
(*                                                                         *)
(* Every step but a claim, a new result and a fetched page leaves alone    *)
(* what the invariant reads of attempts, results and raw rows (RawKept,    *)
(* TriesKept, Grown).  The lemmas KeepsTables, KeepsWorkers and            *)
(* KeepsCleanup say what follows from that; WorkKeeps, WorldKeeps and      *)
(* CleanKeeps combine them for the steps of a worker, of the rest of the   *)
(* world and of the cleanup; then there is one lemma per action.           *)
(***************************************************************************)
EXTENDS RawRetention, FiniteSetTheorems, SequenceTheorems, TLAPS

-----------------------------------------------------------------------------
(* The inductive invariant.                                                *)

\* A worker that has claimed an attempt.
Busy == {"read", "parse", "save", "saved", "raw_missing", "size_mismatch", "hash_mismatch",
         "parse_error", "validation_error"}

\* The tables and the bucket have the values their code gives them.
Tables ==
  /\ raw \in [Jobs -> RawRow]
  /\ tries \in [Jobs -> Seq(TryRow)]
  /\ results \in [Jobs -> SUBSET Result]
  /\ current \in [Jobs -> Result \cup {None}]
  /\ \A j \in Jobs : current[j] \in results[j] \cup {None}
  /\ object \in [Jobs -> Body]

\* So have the processes and the environment.
Processes ==
  /\ worker \in [Workers -> Process]
  /\ holder \in Workers \cup {Cleaner, None} /\ slip \subseteq Workers
  /\ release \in Version
  /\ weather \in Weathers /\ spent \subseteq weather
  /\ listing \in [Jobs -> {"live", "old"}]
  /\ journal \subseteq JournalRow /\ clean \in CleanProcess

\* What the status of a raw row says about its page.
StatusFits(r) ==
  /\ r.status = "none" => r.sha = None
  /\ r.status = "pending" => (r.sha = None \/ r.purged) /\ r.gen < MaxRaws
  /\ r.status \notin {"none", "pending"} => r.sha # None

\* A page is counted by generation, is purged only once it is parsed, and its attempts
\* belong to it or to an earlier one; a success has its result.
RowsHold ==
  \A j \in Jobs :
    /\ StatusFits(raw[j]) /\ (raw[j].sha = None <=> raw[j].gen = 0)
    /\ raw[j].purged => \E v \in Version : Found(j, raw[j].sha, v)
    /\ \A i \in DOMAIN tries[j] :
         /\ tries[j][i].gen <= raw[j].gen
         /\ tries[j][i].gen = raw[j].gen /\ tries[j][i].status = "success"
              => Found(j, raw[j].sha, tries[j][i].version)

\* AttemptBudget, with "at most one" as a fact about two.
BudgetHolds ==
  \A j \in Jobs, v \in Version :
    /\ IsFiniteSet(Attempts(j, v)) /\ Cardinality(Attempts(j, v)) <= MaxAttempts
    /\ \A i, k \in Attempts(j, v) :
         tries[j][i].status = "parsing" /\ tries[j][k].status = "parsing" => i = k

\* What a worker remembers of its claim.  The attempt may have been recovered as stale
\* and the page replaced meanwhile.
Claim(w) ==
  LET p == worker[w]
      t == tries[p.job][p.try]
  IN  /\ p.job \in Jobs /\ p.try \in DOMAIN tries[p.job] /\ p.sha \in Contents
      /\ t.run = w /\ t.version = p.version
      /\ t.gen = raw[p.job].gen => p.sha = raw[p.job].sha
      /\ p.pc \in {"parse", "save"} => p.body = p.sha
      /\ p.pc = "saved" => Found(p.job, p.sha, p.version)

ClaimsHold == \A w \in Workers : worker[w].pc \in Busy => Claim(w)

\* Unless somebody else writes to the bucket, an object is the page of its row.
ObjectsHold == "object_changed" \notin spent => \A j \in Jobs : object[j] \in {raw[j].sha, None}

Verifying == {"verify", "delete", "record"}

\* The jobs the cleanup has selected and not yet recorded.
Held == clean.rows \cup {j \in Jobs : clean.pc \in Verifying /\ j = clean.job}

\* What the cleanup has selected stays parsed and unpurged; the job it is at has an intent.
CleaningHolds ==
  /\ clean.pc = "off" => clean.rows = {}
  /\ clean.pc \in Verifying => clean.job \in Jobs \ clean.rows /\ Intent(clean.job) \in journal
  /\ clean.pc = "delete" => clean.state = "deleted"
  /\ clean.pc = "record" => clean.state # "none"
  /\ clean.pc = "record" /\ clean.state = "changed" /\ "object_lost" \notin weather
       => object[clean.job] # None
  /\ \A j \in Held :
       ~raw[j].purged /\ raw[j].sha # None /\ \E v \in Version : Found(j, raw[j].sha, v)

\* As long as no session was lost, only the holder of the lock is at work, and what the
\* cleanup has selected nobody parses or replaces.
Serial ==
  "session_lost" \notin spent =>
    /\ slip = {}
    /\ \A w \in Workers : worker[w].pc # "off" => holder = w
    /\ clean.pc # "off" => holder = Cleaner
    /\ \A j \in Held :
         /\ current[j] # None /\ current[j].sha = raw[j].sha
         /\ \A i \in DOMAIN tries[j] : tries[j][i].status # "parsing"

\* Nothing is of a version that is not released.
Releases ==
  /\ \A j \in Jobs : \A r \in results[j] : r.version <= release
  /\ \A w \in Workers : worker[w].version <= release
  /\ "release" \notin weather => release = 1

\* The environments CurrentMatchesRaw is about.
Promised == "page_reverts" \notin weather /\ ~({"session_lost", "release"} \subseteq weather)

\* The current result is the newest of the page, a worker is about to save one of the
\* present page or one that is there, and of no older version than any other.
NewestIsCurrent ==
  Promised =>
    /\ \A j \in Jobs : \A r \in results[j] : r.sha = raw[j].sha =>
         current[j] \in results[j] /\ current[j].sha = raw[j].sha /\ r.version <= current[j].version
    /\ \A w \in Workers : worker[w].pc \in Busy =>
         \/ worker[w].sha = raw[worker[w].job].sha
         \/ Found(worker[w].job, worker[w].sha, worker[w].version)
    /\ \A w \in Workers : worker[w].pc # "off" =>
         \A j \in Jobs : \A r \in results[j] : r.version <= worker[w].version

Inv ==
  /\ Tables /\ Processes
  /\ RowsHold /\ BudgetHolds /\ ClaimsHold /\ ResultIsGenuine
  /\ ObjectsHold /\ CleaningHolds /\ MissingIsExplained
  /\ Serial /\ Releases /\ NewestIsCurrent

-----------------------------------------------------------------------------
(* What most steps leave alone.                                            *)

Grown == \A j \in Jobs : results[j] \subseteq results'[j]

\* A raw row keeps its page and generation.
RawKept ==
  \A j \in Jobs :
    /\ raw'[j].gen = raw[j].gen /\ raw'[j].sha = raw[j].sha
    /\ StatusFits(raw'[j])
    /\ raw'[j].purged => raw[j].purged \/ \E v \in Version : Found(j, raw[j].sha, v)

PurgesKept == \A j \in Jobs : raw'[j].purged = raw[j].purged

\* Attempts may be closed, and then for good.
TriesKept ==
  \A j \in Jobs :
    /\ DOMAIN tries'[j] = DOMAIN tries[j]
    /\ \A i \in DOMAIN tries[j] :
         /\ tries'[j][i].gen = tries[j][i].gen /\ tries'[j][i].version = tries[j][i].version
         /\ tries[j][i].status # "parsing" => tries'[j][i].status = tries[j][i].status
         /\ tries'[j][i].status = "success" /\ tries[j][i].status # "success"
              /\ tries[j][i].gen = raw[j].gen => Found(j, raw[j].sha, tries[j][i].version)

\* No attempt is reopened, nor its outcome changed.
ClosedKept ==
  \A j \in Jobs : \A i \in DOMAIN tries[j] :
    tries[j][i].status # "parsing" => tries'[j][i].status = tries[j][i].status

\* No run but w loses its attempts.
RunsKept(w) ==
  \A j \in Jobs : \A i \in DOMAIN tries[j] :
    tries[j][i].run # w => tries'[j][i].run = tries[j][i].run

AllRunsKept == \A j \in Jobs : \A i \in DOMAIN tries[j] : tries'[j][i].run = tries[j][i].run

Moves(w) == \A x \in Workers : x # w => worker'[x] = worker[x]

SameClaim(w) ==
  /\ worker'[w].job = worker[w].job /\ worker'[w].try = worker[w].try
  /\ worker'[w].sha = worker[w].sha /\ worker'[w].version = worker[w].version

LEMMA FoundGrows ==
  ASSUME Grown, NEW j \in Jobs, NEW s, NEW v, Found(j, s, v)
  PROVE  Found(j, s, v)'
BY DEF Grown, Found

LEMMA KeepsTables ==
  ASSUME Inv, Tables', RawKept, TriesKept, Grown
  PROVE  RowsHold' /\ BudgetHolds'
<1>1. RowsHold'
  <2> SUFFICES ASSUME NEW j \in Jobs
               PROVE  /\ StatusFits(raw'[j]) /\ (raw'[j].sha = None <=> raw'[j].gen = 0)
                      /\ raw'[j].purged => \E v \in Version : Found(j, raw[j].sha, v)'
                      /\ \A i \in DOMAIN tries'[j] :
                           /\ tries'[j][i].gen <= raw'[j].gen
                           /\ tries'[j][i].gen = raw'[j].gen /\ tries'[j][i].status = "success"
                                => Found(j, raw[j].sha, tries[j][i].version)'
    BY DEF RowsHold
  <2>1. /\ raw'[j].gen = raw[j].gen /\ raw'[j].sha = raw[j].sha /\ StatusFits(raw'[j])
        /\ (raw[j].sha = None <=> raw[j].gen = 0)
        /\ raw'[j].purged => \E v \in Version : Found(j, raw[j].sha, v)
    BY DEF Inv, RowsHold, RawKept
  <2>2. raw'[j].purged => \E v \in Version : Found(j, raw[j].sha, v)'
    BY <2>1 DEF Grown, Found
  <2>3. ASSUME NEW i \in DOMAIN tries'[j]
        PROVE  /\ tries'[j][i].gen <= raw'[j].gen
               /\ tries'[j][i].gen = raw'[j].gen /\ tries'[j][i].status = "success"
                    => Found(j, raw[j].sha, tries[j][i].version)'
    <3>1. /\ i \in DOMAIN tries[j]
          /\ tries'[j][i].gen = tries[j][i].gen /\ tries'[j][i].version = tries[j][i].version
          /\ tries'[j][i].status = "success" /\ tries[j][i].status # "success"
               /\ tries[j][i].gen = raw[j].gen => Found(j, raw[j].sha, tries[j][i].version)
      BY <2>3 DEF TriesKept
    <3>2. /\ tries[j][i].gen <= raw[j].gen
          /\ tries[j][i].gen = raw[j].gen /\ tries[j][i].status = "success"
               => Found(j, raw[j].sha, tries[j][i].version)
      BY <3>1 DEF Inv, RowsHold
    <3>3. tries'[j][i].gen = raw'[j].gen /\ tries'[j][i].status = "success"
            => Found(j, raw[j].sha, tries[j][i].version)
      BY <2>1, <3>1, <3>2
    <3>4. QED BY <2>1, <3>1, <3>2, <3>3 DEF Grown, Found
  <2>4. QED BY <2>1, <2>2, <2>3 DEF Found
<1>2. BudgetHolds'
  <2> SUFFICES ASSUME NEW j \in Jobs, NEW v \in Version
               PROVE  /\ IsFiniteSet(Attempts(j, v)') /\ Cardinality(Attempts(j, v)') <= MaxAttempts
                      /\ \A i, k \in Attempts(j, v)' :
                           tries'[j][i].status = "parsing" /\ tries'[j][k].status = "parsing" => i = k
    BY DEF BudgetHolds
  <2>1. Attempts(j, v)' = Attempts(j, v)
    BY DEF Attempts, TriesKept, RawKept
  <2>2. \A i \in Attempts(j, v) : tries'[j][i].status = "parsing" => tries[j][i].status = "parsing"
    BY DEF Attempts, TriesKept
  <2>3. QED BY <2>1, <2>2 DEF Inv, BudgetHolds
<1>3. QED BY <1>1, <1>2

\* A worker that moves on with its claim, or stays where it is.
LEMMA ClaimMoves ==
  ASSUME RawKept, TriesKept, Grown, NEW w \in Workers, Claim(w), SameClaim(w),
         tries'[worker[w].job][worker[w].try].run = w,
         worker'[w].pc \in {"parse", "save"} => worker'[w].body = worker'[w].sha,
         worker'[w].pc = "saved" => Found(worker[w].job, worker[w].sha, worker[w].version)'
  PROVE  Claim(w)'
<1>1. /\ worker[w].job \in Jobs /\ worker[w].try \in DOMAIN tries[worker[w].job]
      /\ worker[w].sha \in Contents
      /\ tries[worker[w].job][worker[w].try].version = worker[w].version
      /\ tries[worker[w].job][worker[w].try].gen = raw[worker[w].job].gen
           => worker[w].sha = raw[worker[w].job].sha
  BY DEF Claim
<1>2. /\ worker[w].try \in DOMAIN tries'[worker[w].job]
      /\ tries'[worker[w].job][worker[w].try].version = worker[w].version
      /\ tries'[worker[w].job][worker[w].try].gen = raw'[worker[w].job].gen
           => worker[w].sha = raw'[worker[w].job].sha
  BY <1>1 DEF TriesKept, RawKept
<1>3. /\ worker'[w].job = worker[w].job /\ worker'[w].try = worker[w].try
      /\ worker'[w].sha = worker[w].sha /\ worker'[w].version = worker[w].version
  BY DEF SameClaim
<1>4. QED BY <1>1, <1>2, <1>3 DEF Claim, Found

LEMMA KeepsWorkers ==
  ASSUME Inv, RawKept, TriesKept, Grown, NEW w \in Workers, Moves(w), RunsKept(w),
         worker'[w].pc \in Busy => Claim(w)'
  PROVE  ClaimsHold'
<1> SUFFICES ASSUME NEW x \in Workers, x # w, worker'[x].pc \in Busy PROVE Claim(x)'
  BY DEF ClaimsHold
<1>1. worker'[x] = worker[x] /\ SameClaim(x)
  BY DEF Moves, SameClaim
<1>2. Claim(x)
  BY <1>1 DEF Inv, ClaimsHold
<1>3. tries'[worker[x].job][worker[x].try].run = x
  BY <1>2 DEF Claim, RunsKept
<1>4. worker[x].pc \in {"parse", "save"} => worker[x].body = worker[x].sha
  BY <1>2 DEF Claim
<1>5. ASSUME worker[x].pc = "saved"
      PROVE  Found(worker[x].job, worker[x].sha, worker[x].version)'
  <2>1. worker[x].job \in Jobs /\ Found(worker[x].job, worker[x].sha, worker[x].version)
    BY <1>2, <1>5 DEF Claim
  <2>2. QED BY <1>1, <2>1, FoundGrows
<1>6. QED BY <1>1, <1>2, <1>3, <1>4, <1>5, ClaimMoves

LEMMA KeepsAllWorkers ==
  ASSUME Inv, RawKept, TriesKept, Grown, UNCHANGED worker, AllRunsKept
  PROVE  ClaimsHold'
<1> SUFFICES ASSUME NEW x \in Workers, worker[x].pc \in Busy PROVE Claim(x)'
  BY DEF ClaimsHold
<1>1. Claim(x) /\ SameClaim(x)
  BY DEF Inv, ClaimsHold, SameClaim
<1>2. tries'[worker[x].job][worker[x].try].run = x
  BY <1>1 DEF Claim, AllRunsKept
<1>3. worker[x].pc = "saved" => Found(worker[x].job, worker[x].sha, worker[x].version)'
  BY <1>1 DEF Claim, Found, Grown
<1>4. worker[x].pc \in {"parse", "save"} => worker[x].body = worker[x].sha
  BY <1>1 DEF Claim
<1>5. QED BY <1>1, <1>2, <1>3, <1>4, ClaimMoves

\* A step that is not the cleanup's, nor purges anything.
LEMMA KeepsCleanup ==
  ASSUME Inv, UNCHANGED <<clean, journal, weather>>, RawKept, PurgesKept, Grown,
         \A j \in Jobs : object'[j] = None => object[j] = None \/ "object_lost" \in weather
  PROVE  CleaningHolds' /\ MissingIsExplained'
<1>1. Held' = Held /\ \A j \in Jobs : Intent(j)' = Intent(j)
  BY DEF Held, Intent, RawKept
<1>2. Held \subseteq Jobs
  BY DEF Inv, CleaningHolds, Held, Processes, CleanProcess
<1>3. \A j \in Held :
        ~raw'[j].purged /\ raw'[j].sha # None /\ \E v \in Version : Found(j, raw[j].sha, v)'
  BY <1>2 DEF Inv, CleaningHolds, RawKept, PurgesKept, Grown, Found
<1>4. CleaningHolds'
  BY <1>1, <1>3 DEF Inv, CleaningHolds, Verifying, Found
<1>5. MissingIsExplained'
  BY <1>1 DEF Inv, MissingIsExplained, RawKept, PurgesKept
<1>6. QED BY <1>4, <1>5

\* A step that saves no result.
LEMMA KeepsNewest ==
  ASSUME Inv, UNCHANGED <<results, current, weather>>, RawKept, NEW w \in Workers, Moves(w),
         worker'[w].pc # "off" => worker[w].pc # "off" /\ worker'[w].version = worker[w].version,
         worker'[w].pc \in Busy =>
            \/ worker[w].pc \in Busy /\ SameClaim(w) /\ worker[w].job \in Jobs
            \/ worker'[w].sha = raw'[worker'[w].job].sha
  PROVE  NewestIsCurrent'
<1> SUFFICES ASSUME Promised PROVE NewestIsCurrent'
  BY DEF NewestIsCurrent, Promised
<1>1. /\ \A j \in Jobs : \A r \in results[j] : r.sha = raw[j].sha =>
           current[j] \in results[j] /\ current[j].sha = raw[j].sha /\ r.version <= current[j].version
      /\ \A x \in Workers : worker[x].pc \in Busy =>
           \/ worker[x].sha = raw[worker[x].job].sha
           \/ Found(worker[x].job, worker[x].sha, worker[x].version)
      /\ \A x \in Workers : worker[x].pc # "off" =>
           \A j \in Jobs : \A r \in results[j] : r.version <= worker[x].version
  BY DEF Inv, NewestIsCurrent
<1>2. \A j \in Jobs : raw'[j].sha = raw[j].sha
  BY DEF RawKept
<1>3. \A x \in Workers : worker[x].pc \in Busy => worker[x].job \in Jobs
  BY DEF Inv, ClaimsHold, Claim
<1>4. ASSUME NEW x \in Workers, worker'[x].pc \in Busy
      PROVE  \/ worker'[x].sha = raw'[worker'[x].job].sha
             \/ Found(worker[x].job, worker[x].sha, worker[x].version)'
                /\ SameClaim(x)
  <2>1. CASE x = w
    BY <1>1, <1>2, <1>4, <2>1 DEF SameClaim, Found
  <2>2. CASE x # w
    BY <1>1, <1>2, <1>3, <1>4, <2>2 DEF Moves, SameClaim, Found
  <2>3. QED BY <2>1, <2>2
<1>5. \A x \in Workers : worker'[x].pc \in Busy =>
        \/ worker'[x].sha = raw'[worker'[x].job].sha
        \/ Found(worker[x].job, worker[x].sha, worker[x].version)'
  BY <1>4 DEF SameClaim, Found
<1>6. \A x \in Workers : worker'[x].pc # "off" =>
        \A j \in Jobs : \A r \in results[j] : r.version <= worker'[x].version
  BY <1>1 DEF Moves
<1>7. \A j \in Jobs : \A r \in results'[j] : r.sha = raw'[j].sha =>
        current'[j] \in results'[j] /\ current'[j].sha = raw'[j].sha /\ r.version <= current'[j].version
  BY <1>1, <1>2
<1>8. QED BY <1>5, <1>6, <1>7 DEF NewestIsCurrent, Found

\* A worker's step under the lock: nobody else is at work.
LEMMA KeepsSerial ==
  ASSUME Inv, NEW w \in Workers, worker[w].pc # "off", Moves(w), UNCHANGED clean,
         spent \subseteq spent', slip' \subseteq slip, worker'[w].pc # "off" => holder' = holder
  PROVE  Serial'
<1> SUFFICES ASSUME "session_lost" \notin spent
             PROVE  /\ slip' = {}
                    /\ \A x \in Workers : worker'[x].pc # "off" => holder' = x
                    /\ clean.pc = "off" /\ Held' = {}
  BY DEF Serial
<1>1. slip = {} /\ holder = w /\ clean.pc = "off" /\ \A x \in Workers : x # w => worker[x].pc = "off"
  BY ProcessesAssumption DEF Inv, Serial
<1>2. clean.rows = {}
  BY <1>1 DEF Inv, CleaningHolds
<1>3. Held' = {}
  BY <1>1, <1>2 DEF Held, Verifying
<1>4. QED BY <1>1, <1>3 DEF Moves

-----------------------------------------------------------------------------
(* The steps of a worker.                                                  *)

\* All steps of a worker but a claim, a saved result and its start.
LEMMA WorkKeeps ==
  ASSUME Inv, NEW w \in Workers, Tables', Processes', Moves(w), RawKept, PurgesKept, TriesKept,
         RunsKept(w), UNCHANGED <<results, current, object, release, weather, retention>>,
         spent \subseteq spent',
         \/ worker[w].pc # "off" /\ slip' \subseteq slip /\ (worker'[w].pc # "off" => holder' = holder)
         \/ "session_lost" \in spent',
         worker'[w].version <= release,
         worker'[w].pc # "off" => worker[w].pc # "off" /\ worker'[w].version = worker[w].version,
         worker'[w].pc \in Busy => worker[w].pc \in Busy /\ SameClaim(w) /\ Claim(w)'
  PROVE  Inv'
<1>1. Grown
  BY DEF Grown
<1>2. RowsHold' /\ BudgetHolds'
  BY <1>1, KeepsTables
<1>3. ClaimsHold'
  BY <1>1, KeepsWorkers
<1>4. ResultIsGenuine' /\ Releases' /\ ObjectsHold'
  <2>1. ResultIsGenuine'
    BY DEF Inv, ResultIsGenuine
  <2>2. Releases'
    BY DEF Inv, Releases, Moves
  <2>3. ObjectsHold'
    BY DEF Inv, ObjectsHold, RawKept
  <2>4. QED BY <2>1, <2>2, <2>3
<1>5. CleaningHolds' /\ MissingIsExplained'
  BY <1>1, KeepsCleanup DEF retention
<1>6. NewestIsCurrent'
  <2>1. worker[w].pc \in Busy => worker[w].job \in Jobs
    BY DEF Inv, ClaimsHold, Claim
  <2>2. QED BY <2>1, KeepsNewest
<1>7. Serial'
  <2>1. CASE "session_lost" \in spent'
    BY <2>1 DEF Serial
  <2>2. CASE worker[w].pc # "off" /\ slip' \subseteq slip /\ (worker'[w].pc # "off" => holder' = holder)
    BY <2>2, KeepsSerial DEF retention
  <2>3. QED BY <2>1, <2>2
<1>8. QED BY <1>2, <1>3, <1>4, <1>5, <1>6, <1>7 DEF Inv

\* A table of attempts with the same rows, some of them rewritten.
LEMMA Rewritten ==
  ASSUME NEW S, NEW s \in Seq(S), NEW f, f = [i \in DOMAIN s |-> f[i]], \A i \in DOMAIN s : f[i] \in S
  PROVE  f \in Seq(S) /\ Len(f) = Len(s) /\ DOMAIN f = DOMAIN s
<1>1. DOMAIN s = 1 .. Len(s) /\ Len(s) \in Nat
  BY LenProperties
<1>2. f \in [1 .. Len(s) -> S]
  BY <1>1
<1>3. f \in Seq(S)
  BY <1>1, <1>2, SeqDef
<1>4. DOMAIN f = 1 .. Len(f) /\ Len(f) \in Nat
  BY <1>3, LenProperties
<1>5. QED BY <1>1, <1>2, <1>3, <1>4

LEMMA Unmoved ==
  ASSUME Inv, UNCHANGED <<raw, tries, results>>
  PROVE  /\ RawKept /\ PurgesKept /\ TriesKept /\ AllRunsKept /\ Grown
         /\ \A w \in Workers : RunsKept(w)
BY DEF Inv, RowsHold, RawKept, PurgesKept, TriesKept, AllRunsKept, RunsKept, Grown

LEMMA RawUnmoved ==
  ASSUME Inv, UNCHANGED <<raw, results>>
  PROVE  RawKept /\ PurgesKept /\ Grown
BY DEF Inv, RowsHold, RawKept, PurgesKept, Grown

LEMMA TablesTyped ==
  ASSUME Inv, UNCHANGED <<raw, results, current, object>>, tries' \in [Jobs -> Seq(TryRow)]
  PROVE  Tables'
BY DEF Inv, Tables

LEMMA WorkerTyped ==
  ASSUME Inv, NEW w \in Workers, NEW p \in Process, worker' = [worker EXCEPT ![w] = p],
         holder' \in {holder, None, w}, slip' \subseteq slip,
         UNCHANGED <<release, weather, retention>>, spent' \subseteq weather
  PROVE  Processes' /\ Moves(w) /\ worker'[w] = p
BY DEF Inv, Processes, Moves, retention

LEMMA ForgetKeeps ==
  ASSUME Inv, NEW w \in Workers, tries' = Forget(w, tries)
  PROVE  tries' \in [Jobs -> Seq(TryRow)] /\ TriesKept /\ RunsKept(w)
<1>1. ASSUME NEW j \in Jobs
      PROVE  /\ tries'[j] \in Seq(TryRow) /\ DOMAIN tries'[j] = DOMAIN tries[j]
             /\ \A i \in DOMAIN tries[j] :
                  /\ tries[j][i] \in TryRow
                  /\ tries'[j][i] = IF tries[j][i].run = w THEN [tries[j][i] EXCEPT !.run = None]
                                    ELSE tries[j][i]
  <2>1. tries[j] \in Seq(TryRow)
    BY DEF Inv, Tables
  <2>2. \A i \in DOMAIN tries[j] : tries[j][i] \in TryRow
    BY <2>1, LenProperties
  <2>3. tries'[j] = [i \in DOMAIN tries[j] |->
           IF tries[j][i].run = w THEN [tries[j][i] EXCEPT !.run = None] ELSE tries[j][i]]
    BY DEF Forget
  <2>4. \A i \in DOMAIN tries[j] : tries'[j][i] \in TryRow
    BY <2>2, <2>3 DEF TryRow
  <2>5. tries'[j] = [i \in DOMAIN tries[j] |-> tries'[j][i]]
    BY <2>3
  <2>6. tries'[j] \in Seq(TryRow) /\ DOMAIN tries'[j] = DOMAIN tries[j]
    BY <2>1, <2>4, <2>5, Rewritten
  <2>7. QED BY <2>2, <2>3, <2>6
<1>2. tries' \in [Jobs -> Seq(TryRow)]
  BY <1>1 DEF Forget
<1>3. TriesKept /\ RunsKept(w)
  BY <1>1 DEF TriesKept, RunsKept, TryRow
<1>4. QED BY <1>2, <1>3

LEMMA IdleType == Idle \in Process /\ Idle.pc = "off" /\ Idle.version = 1
BY LimitsAssumption DEF Idle, Process, Version, Body

\* A process ends, whatever it was doing.
LEMMA LeaveKeeps ==
  ASSUME Inv, NEW w \in Workers, worker[w].pc # "off", Leave(w), tries' = Forget(w, tries),
         UNCHANGED <<raw, results, current, object, release, weather, retention>>,
         spent \subseteq spent', spent' \subseteq weather
  PROVE  Inv' /\ ClosedKept
<1>1. tries' \in [Jobs -> Seq(TryRow)] /\ TriesKept /\ RunsKept(w)
  BY ForgetKeeps
<1>2. Tables'
  BY <1>1, TablesTyped
<1>3. /\ worker' = [worker EXCEPT ![w] = Idle] /\ holder' \in {holder, None, w} /\ slip' \subseteq slip
  BY DEF Leave
<1>4. Processes' /\ Moves(w) /\ worker'[w] = Idle
  BY <1>3, IdleType, WorkerTyped
<1>5. RawKept /\ PurgesKept
  BY RawUnmoved
<1>6. /\ worker'[w].pc = "off" /\ worker'[w].version <= release
  BY <1>4, IdleType DEF Inv, Processes, Version
<1>7. Inv'
  BY <1>1, <1>2, <1>3, <1>4, <1>5, <1>6, WorkKeeps DEF Busy
<1>8. QED BY <1>7, <1>1 DEF ClosedKept, TriesKept

LEMMA EndParseKeeps ==
  ASSUME Inv, NEW w \in Workers, EndParse(w), UNCHANGED retention
  PROVE  Inv' /\ ClosedKept
<1>1. /\ worker[w].pc # "off" /\ Leave(w) /\ tries' = Forget(w, tries)
      /\ UNCHANGED <<raw, results, current, object, release, weather, spent>>
  BY DEF EndParse, faultVars
<1>2. QED BY <1>1, LeaveKeeps DEF Inv, Processes

LEMMA GiveUpKeeps ==
  ASSUME Inv, NEW w \in Workers, GiveUp(w), UNCHANGED retention
  PROVE  Inv' /\ ClosedKept
<1>1. /\ worker[w].pc # "off" /\ Leave(w) /\ tries' = Forget(w, tries)
      /\ UNCHANGED <<raw, results, current, object, release, weather, spent>>
  BY DEF GiveUp, faultVars
<1>2. QED BY <1>1, LeaveKeeps DEF Inv, Processes

LEMMA KillKeeps ==
  ASSUME Inv, NEW w \in Workers, Kill(w), UNCHANGED retention
  PROVE  Inv' /\ ClosedKept
<1>1. /\ worker[w].pc # "off" /\ Leave(w) /\ tries' = Forget(w, tries)
      /\ UNCHANGED <<raw, results, current, object, release, weather>>
      /\ spent \subseteq spent' /\ spent' \subseteq weather
  BY DEF Kill, Fault, Inv, Processes
<1>2. QED BY <1>1, LeaveKeeps

LEMMA LoseSessionKeeps ==
  ASSUME Inv, NEW w \in Workers, LoseSession(w), UNCHANGED retention
  PROVE  Inv'
<1>1. /\ UNCHANGED <<store, object, worker, release, weather>>
      /\ holder' = None /\ slip' \subseteq Workers /\ "session_lost" \in spent'
      /\ spent \subseteq spent' /\ spent' \subseteq weather
  BY DEF LoseSession, Fault, Inv, Processes
<1>2. RawKept /\ PurgesKept /\ TriesKept /\ RunsKept(w)
  BY <1>1, Unmoved DEF store
<1>3. Tables' /\ Processes' /\ Moves(w)
  BY <1>1 DEF Inv, Tables, Processes, store, retention, Moves
<1>4. worker'[w].version <= release
  BY <1>1 DEF Inv, Releases
<1>5. worker'[w].pc \in Busy => worker[w].pc \in Busy /\ SameClaim(w) /\ Claim(w)'
  BY <1>1 DEF Inv, ClaimsHold, Claim, SameClaim, store, Found
<1>6. QED BY <1>1, <1>2, <1>3, <1>4, <1>5, WorkKeeps DEF store

\* Stale claims are recovered, also those of a process that is alive.
LEMMA RecoverKeeps ==
  ASSUME Inv, NEW w \in Workers, Recover(w), UNCHANGED retention
  PROVE  Inv' /\ ClosedKept
<1> DEFINE p == [worker[w] EXCEPT !.pc = "claim"]
<1>1. /\ worker[w].pc = "recover" /\ worker' = [worker EXCEPT ![w] = p] /\ slip' \subseteq slip
      /\ UNCHANGED <<raw, results, current, object, holder, release, weather, spent>>
  BY DEF Recover, Step, faultVars
<1>2. worker[w] \in Process
  BY DEF Inv, Processes
<1>3. p \in Process /\ p.pc = "claim" /\ p.version = worker[w].version
  BY <1>2 DEF Process
<1> HIDE DEF p
<1>4. ASSUME NEW j \in Jobs
      PROVE  /\ tries'[j] \in Seq(TryRow) /\ DOMAIN tries'[j] = DOMAIN tries[j]
             /\ \A i \in DOMAIN tries[j] :
                  /\ tries[j][i] \in TryRow
                  /\ tries'[j][i] =
                       IF tries[j][i].status = "parsing" /\ tries[j][i].old
                         THEN [tries[j][i] EXCEPT !.status = "parse_error", !.old = FALSE]
                         ELSE tries[j][i]
  <2>1. tries[j] \in Seq(TryRow)
    BY DEF Inv, Tables
  <2>2. \A i \in DOMAIN tries[j] : tries[j][i] \in TryRow
    BY <2>1, LenProperties
  <2>3. tries'[j] = [i \in DOMAIN tries[j] |->
           IF tries[j][i].status = "parsing" /\ tries[j][i].old
             THEN [tries[j][i] EXCEPT !.status = "parse_error", !.old = FALSE] ELSE tries[j][i]]
    BY DEF Recover, RecoverStaleParses
  <2>4. \A i \in DOMAIN tries[j] : tries'[j][i] \in TryRow
    BY <2>2, <2>3 DEF TryRow, TryStatus
  <2>5. tries'[j] = [i \in DOMAIN tries[j] |-> tries'[j][i]]
    BY <2>3
  <2>6. tries'[j] \in Seq(TryRow) /\ DOMAIN tries'[j] = DOMAIN tries[j]
    BY <2>1, <2>4, <2>5, Rewritten
  <2>7. QED BY <2>2, <2>3, <2>6
<1>5. tries' \in [Jobs -> Seq(TryRow)]
  BY <1>4 DEF Recover, RecoverStaleParses
<1>6. TriesKept /\ RunsKept(w)
  BY <1>4 DEF TriesKept, RunsKept, TryRow
<1>7. Tables'
  BY <1>1, <1>5, TablesTyped
<1>8. Processes' /\ Moves(w) /\ worker'[w] = p
  BY <1>1, <1>3, WorkerTyped DEF Inv, Processes
<1>9. RawKept /\ PurgesKept
  BY <1>1, RawUnmoved
<1>10. worker'[w].version <= release /\ worker'[w].pc \notin Busy
  BY <1>3, <1>8 DEF Inv, Releases, Busy
<1>11. Inv'
  BY <1>1, <1>3, <1>6, <1>7, <1>8, <1>9, <1>10, WorkKeeps
<1>12. QED BY <1>11, <1>6 DEF ClosedKept, TriesKept

\* A worker keeps its claim and goes on to the next of its steps.
LEMMA MoveKeeps ==
  ASSUME Inv, NEW w \in Workers, NEW p \in Process, worker' = [worker EXCEPT ![w] = p],
         worker[w].pc \in Busy, p.pc \in Busy,
         p.job = worker[w].job, p.try = worker[w].try, p.sha = worker[w].sha,
         p.version = worker[w].version,
         p.pc \in {"parse", "save"} => p.body = p.sha,
         p.pc = "saved" => Found(worker[w].job, worker[w].sha, worker[w].version),
         UNCHANGED <<store, object, holder, slip, release, weather, retention>>,
         spent \subseteq spent', spent' \subseteq weather
  PROVE  Inv'
<1>1. RawKept /\ PurgesKept /\ TriesKept /\ RunsKept(w) /\ Grown
  BY Unmoved DEF store
<1>2. Tables'
  BY DEF Inv, Tables, store
<1>3. Processes' /\ Moves(w) /\ worker'[w] = p
  BY WorkerTyped
<1>4. Claim(w) /\ SameClaim(w)
  BY <1>3 DEF Inv, ClaimsHold, SameClaim
<1>5. tries'[worker[w].job][worker[w].try].run = w
  BY <1>4 DEF Claim, store
<1>6. p.pc = "saved" => Found(worker[w].job, worker[w].sha, worker[w].version)'
  BY <1>4 DEF Claim, Found, Grown, store
<1>7. Claim(w)'
  BY <1>1, <1>3, <1>4, <1>5, <1>6, ClaimMoves
<1>8. worker'[w].version <= release
  BY <1>3 DEF Inv, Releases
<1>9. worker[w].pc # "off"
  BY DEF Busy
<1>10. QED BY <1>1, <1>2, <1>3, <1>4, <1>7, <1>8, <1>9, WorkKeeps DEF store

LEMMA ReadObjectKeeps ==
  ASSUME Inv, NEW w \in Workers, ReadObject(w), UNCHANGED retention
  PROVE  Inv'
<1>1. worker[w].pc \in Busy /\ worker[w] \in Process /\ worker[w].job \in Jobs
  BY DEF ReadObject, Busy, Inv, Processes, ClaimsHold, Claim
<1>2. UNCHANGED <<store, object, holder, slip, release, weather, retention>>
  BY DEF ReadObject, faultVars, Fault
<1> DEFINE body == object[worker[w].job]
           v == ReadVerdict(w, body)
<1>3. CASE UNCHANGED faultVars /\ worker' = [worker EXCEPT ![w].pc = v, ![w].body = body]
  <2> DEFINE p == [worker[w] EXCEPT !.pc = v, !.body = body]
  <2>1. body \in Body
    BY <1>1 DEF Inv, Tables
  <2>2. v \in {"raw_missing", "size_mismatch", "hash_mismatch", "parse"} /\ (v = "parse" => body = worker[w].sha)
    BY DEF ReadVerdict
  <2>3. worker' = [worker EXCEPT ![w] = p]
    BY <1>3
  <2>4. p \in Process /\ p.pc = v /\ p.body = body /\ p.job = worker[w].job
        /\ p.try = worker[w].try /\ p.sha = worker[w].sha /\ p.version = worker[w].version
    <3> HIDE DEF v, body
    <3>1. QED BY <1>1, <2>1, <2>2 DEF Process
  <2>5. spent \subseteq spent' /\ spent' \subseteq weather
    BY <1>3 DEF faultVars, Inv, Processes
  <2> HIDE DEF p, v, body
  <2>6. QED BY <1>1, <1>2, <2>2, <2>3, <2>4, <2>5, MoveKeeps DEF Busy
<1>4. CASE Fault("read_error") /\ worker' = [worker EXCEPT ![w].pc = "parse_error"]
  <2> DEFINE p == [worker[w] EXCEPT !.pc = "parse_error"]
  <2>1. worker' = [worker EXCEPT ![w] = p]
    BY <1>4
  <2>2. p \in Process /\ p.pc = "parse_error" /\ p.job = worker[w].job
        /\ p.try = worker[w].try /\ p.sha = worker[w].sha /\ p.version = worker[w].version
    BY <1>1 DEF Process
  <2>3. spent \subseteq spent' /\ spent' \subseteq weather
    BY <1>4 DEF Fault, Inv, Processes
  <2> HIDE DEF p
  <2>4. QED BY <1>1, <1>2, <2>1, <2>2, <2>3, MoveKeeps DEF Busy
<1>5. QED BY <1>3, <1>4 DEF ReadObject

LEMMA ParseKeeps ==
  ASSUME Inv, NEW w \in Workers, Parse(w), UNCHANGED retention
  PROVE  Inv'
<1>1. worker[w].pc = "parse" /\ worker[w] \in Process
      /\ UNCHANGED <<store, object, holder, slip, release, weather, spent, retention>>
  BY DEF Parse, faultVars, Inv, Processes
<1>2. worker[w].body = worker[w].sha
  BY <1>1 DEF Inv, ClaimsHold, Claim, Busy
<1>3. PICK outcome \in {"save", "parse_error", "validation_error"} :
         worker' = [worker EXCEPT ![w].pc = outcome]
  BY DEF Parse
<1> DEFINE p == [worker[w] EXCEPT !.pc = outcome]
<1>4. worker' = [worker EXCEPT ![w] = p]
  BY <1>3
<1>5. p \in Process /\ p.pc = outcome /\ p.body = worker[w].body /\ p.job = worker[w].job
      /\ p.try = worker[w].try /\ p.sha = worker[w].sha /\ p.version = worker[w].version
  BY <1>1 DEF Process
<1>6. spent \subseteq spent' /\ spent' \subseteq weather
  BY <1>1 DEF Inv, Processes
<1> HIDE DEF p
<1>7. QED BY <1>1, <1>2, <1>4, <1>5, <1>6, MoveKeeps DEF Busy

\* A new result becomes the current one.
LEMMA SaveNewKeeps ==
  ASSUME Inv, NEW w \in Workers, worker[w].pc = "save", NEW p \in Process,
         worker' = [worker EXCEPT ![w] = p], p = [worker[w] EXCEPT !.pc = "saved"],
         ~Found(worker[w].job, worker[w].sha, worker[w].version),
         NEW r, r = [sha |-> worker[w].sha, of |-> worker[w].body, version |-> worker[w].version],
         results' = [results EXCEPT ![worker[w].job] = @ \cup {r}],
         current' = [current EXCEPT ![worker[w].job] = r],
         UNCHANGED <<raw, tries, object, holder, slip, release, weather, spent, retention>>
  PROVE  Inv'
<1> DEFINE j == worker[w].job
<1>1. /\ worker[w].pc \in Busy /\ worker[w].pc # "off" /\ Claim(w) /\ j \in Jobs
      /\ worker[w].sha \in Contents /\ worker[w].body = worker[w].sha
      /\ worker[w].version \in Version
  BY DEF Busy, Inv, ClaimsHold, Claim, Processes, Process
<1>2. /\ r \in Result /\ r.sha = worker[w].sha /\ r.version = worker[w].version /\ r.of = r.sha
  BY <1>1 DEF Result
<1>3. /\ p.pc = "saved" /\ p.job = j /\ p.try = worker[w].try /\ p.sha = worker[w].sha
      /\ p.version = worker[w].version
  BY DEF Inv, Processes, Process
<1>4. Processes' /\ Moves(w) /\ worker'[w] = p
  BY WorkerTyped DEF Inv, Processes
<1>5. /\ \A k \in Jobs : results'[k] = IF k = j THEN results[k] \cup {r} ELSE results[k]
      /\ \A k \in Jobs : current'[k] = IF k = j THEN r ELSE current[k]
      /\ results' \in [Jobs -> SUBSET Result] /\ current' \in [Jobs -> Result \cup {None}]
  BY <1>1, <1>2 DEF Inv, Tables
<1> HIDE DEF j
<1>6. Grown
  BY <1>5 DEF Grown
<1>7. Tables'
  BY <1>5 DEF Inv, Tables
<1>8. RawKept /\ PurgesKept /\ TriesKept /\ RunsKept(w)
  BY DEF Inv, RowsHold, RawKept, PurgesKept, TriesKept, RunsKept
<1>9. Found(j, worker[w].sha, worker[w].version)'
  <2>1. r \in results'[j]
    BY <1>1, <1>5
  <2>2. QED BY <1>2, <1>3, <1>4, <2>1 DEF Found, j
<1>10. RowsHold' /\ BudgetHolds'
  BY <1>6, <1>7, <1>8, KeepsTables
<1>11. ClaimsHold'
  <2>1. SameClaim(w) /\ tries'[worker[w].job][worker[w].try].run = w
    BY <1>1, <1>3, <1>4 DEF SameClaim, Claim, j
  <2>2. Found(worker[w].job, worker[w].sha, worker[w].version)'
    BY <1>9 DEF j
  <2>3. Claim(w)'
    BY <1>1, <1>3, <1>4, <1>6, <1>8, <2>1, <2>2, ClaimMoves
  <2>4. QED BY <1>4, <1>6, <1>8, <2>3, KeepsWorkers
<1>12. ResultIsGenuine'
  BY <1>2, <1>5 DEF Inv, ResultIsGenuine
<1>13. Releases'
  <2>1. worker[w].version <= release
    BY DEF Inv, Releases
  <2>2. QED BY <1>2, <1>3, <1>4, <1>5, <2>1 DEF Inv, Releases, Moves
<1>14. ObjectsHold'
  BY DEF Inv, ObjectsHold
<1>15. CleaningHolds' /\ MissingIsExplained'
  BY <1>6, <1>8, KeepsCleanup DEF retention
<1>16. Serial'
  BY <1>1, <1>4, KeepsSerial DEF retention
<1>17. NewestIsCurrent'
  <2> SUFFICES ASSUME Promised PROVE NewestIsCurrent'
    BY DEF NewestIsCurrent, Promised
  <2>1. /\ \A k \in Jobs : \A x \in results[k] : x.sha = raw[k].sha =>
             current[k] \in results[k] /\ current[k].sha = raw[k].sha /\ x.version <= current[k].version
        /\ \A x \in Workers : worker[x].pc \in Busy =>
             \/ worker[x].sha = raw[worker[x].job].sha
             \/ Found(worker[x].job, worker[x].sha, worker[x].version)
        /\ \A x \in Workers : worker[x].pc # "off" =>
             \A k \in Jobs : \A y \in results[k] : y.version <= worker[x].version
    BY DEF Inv, NewestIsCurrent
  <2>2. worker[w].sha = raw[j].sha
    BY <1>1, <2>1 DEF j
  <2>3. /\ \A y \in results[j] : y.version <= r.version
        /\ r.version <= r.version
    BY <1>1, <1>2, <2>1 DEF Version
  <2>4. \A k \in Jobs : \A x \in results'[k] : x.sha = raw'[k].sha =>
          current'[k] \in results'[k] /\ current'[k].sha = raw'[k].sha /\ x.version <= current'[k].version
    BY <1>2, <1>5, <2>1, <2>2, <2>3
  <2>5. ASSUME NEW x \in Workers, worker'[x].pc \in Busy
        PROVE  \/ worker'[x].sha = raw'[worker'[x].job].sha
               \/ Found(worker[x].job, worker[x].sha, worker[x].version)' /\ SameClaim(x)
    <3>1. CASE x = w
      BY <1>3, <1>4, <2>2, <3>1 DEF j
    <3>2. CASE x # w
      <4>1. worker'[x] = worker[x] /\ worker[x].job \in Jobs
        BY <1>4, <2>5, <3>2 DEF Moves, Inv, ClaimsHold, Claim
      <4>2. SameClaim(x) /\ raw' = raw /\ worker[x].pc \in Busy
        BY <2>5, <4>1 DEF SameClaim
      <4>3. CASE worker[x].sha = raw[worker[x].job].sha
        BY <4>1, <4>2, <4>3
      <4>4. CASE Found(worker[x].job, worker[x].sha, worker[x].version)
        BY <1>6, <4>1, <4>2, <4>4, FoundGrows
      <4>5. QED BY <2>1, <4>2, <4>3, <4>4
    <3>3. QED BY <3>1, <3>2
  <2>6. \A x \in Workers : worker'[x].pc \in Busy =>
          \/ worker'[x].sha = raw'[worker'[x].job].sha
          \/ Found(worker[x].job, worker[x].sha, worker[x].version)'
    BY <2>5 DEF SameClaim, Found
  <2>7. ASSUME NEW x \in Workers, worker'[x].pc # "off"
        PROVE  \A k \in Jobs : \A y \in results'[k] : y.version <= worker'[x].version
    <3>1. worker[x].pc # "off" /\ worker'[x].version = worker[x].version
      BY <1>1, <1>3, <1>4, <2>7 DEF Moves
    <3>2. r.version <= worker[x].version
      <4>1. CASE "session_lost" \notin weather
        <5>1. worker[x].pc # "off" => x = w
          BY <1>1, <4>1 DEF Inv, Processes, Serial
        <5>2. QED BY <1>2, <2>3, <3>1, <5>1
      <4>2. CASE "release" \notin weather
        <5>1. release = 1 /\ worker[w].version <= release /\ worker[x].version \in Version
          BY <4>2 DEF Inv, Releases, Processes, Process
        <5>2. QED BY <1>1, <1>2, <5>1 DEF Version
      <4>3. QED BY <4>1, <4>2 DEF Promised
    <3>3. QED BY <1>5, <2>1, <3>1, <3>2
  <2>8. QED BY <2>4, <2>6, <2>7 DEF NewestIsCurrent, Found
<1>18. QED BY <1>4, <1>7, <1>10, <1>11, <1>12, <1>13, <1>14, <1>15, <1>16, <1>17 DEF Inv

LEMMA SaveKeeps ==
  ASSUME Inv, NEW w \in Workers, Save(w), UNCHANGED retention
  PROVE  Inv'
<1>1. /\ worker[w].pc = "save" /\ worker[w] \in Process
      /\ UNCHANGED <<raw, tries, object, holder, slip, release, weather, retention>>
  BY DEF Save, Fault, faultVars, Inv, Processes
<1> DEFINE r == [sha |-> worker[w].sha, of |-> worker[w].body, version |-> worker[w].version]
           saved == [worker[w] EXCEPT !.pc = "saved"]
           failed == [worker[w] EXCEPT !.pc = "parse_error"]
<1>2. /\ saved \in Process /\ saved.pc = "saved" /\ saved.job = worker[w].job
      /\ saved.try = worker[w].try /\ saved.sha = worker[w].sha /\ saved.version = worker[w].version
      /\ failed \in Process /\ failed.pc = "parse_error" /\ failed.job = worker[w].job
      /\ failed.try = worker[w].try /\ failed.sha = worker[w].sha
      /\ failed.version = worker[w].version
  BY <1>1 DEF Process
<1>3. CASE /\ SaveParseResult(worker[w].job, r) /\ UNCHANGED faultVars
           /\ worker' = [worker EXCEPT ![w].pc = "saved"]
  <2>1. worker' = [worker EXCEPT ![w] = saved]
    BY <1>3
  <2>2. UNCHANGED spent /\ spent \subseteq spent' /\ spent' \subseteq weather
    BY <1>3 DEF faultVars, Inv, Processes
  <2>3. CASE Found(worker[w].job, worker[w].sha, worker[w].version)
    <3>1. UNCHANGED <<results, current>>
      BY <1>3, <2>3 DEF SaveParseResult
    <3> HIDE DEF saved
    <3>2. QED BY <1>1, <1>2, <2>1, <2>2, <2>3, <3>1, MoveKeeps DEF Busy, store
  <2>4. CASE ~Found(worker[w].job, worker[w].sha, worker[w].version)
    <3>1. /\ results' = [results EXCEPT ![worker[w].job] = @ \cup {r}]
          /\ current' = [current EXCEPT ![worker[w].job] = r]
      BY <1>3, <2>4 DEF SaveParseResult
    <3>2. r = [sha |-> worker[w].sha, of |-> worker[w].body, version |-> worker[w].version]
          /\ saved = [worker[w] EXCEPT !.pc = "saved"]
      OBVIOUS
    <3> HIDE DEF r, saved
    <3>3. QED BY <1>1, <1>2, <2>1, <2>2, <2>4, <3>1, <3>2, SaveNewKeeps
  <2>5. QED BY <2>3, <2>4
<1>4. CASE /\ Fault("save_error") /\ UNCHANGED <<results, current>>
           /\ worker' = [worker EXCEPT ![w].pc = "parse_error"]
  <2>1. worker' = [worker EXCEPT ![w] = failed]
    BY <1>4
  <2>2. spent \subseteq spent' /\ spent' \subseteq weather
    BY <1>4 DEF Fault, Inv, Processes
  <2> HIDE DEF failed
  <2>3. QED BY <1>1, <1>2, <1>4, <2>1, <2>2, MoveKeeps DEF Busy, store
<1>5. QED BY <1>3, <1>4 DEF Save

\* What closing an attempt does to the table.
LEMMA CloseEffect ==
  ASSUME Inv, NEW w \in Workers, worker[w].pc \in Busy,
         NEW s \in TryStatus, s # "parsing", Owned(w), tries' = Close(w, s),
         s = "success" => Found(worker[w].job, worker[w].sha, worker[w].version)
  PROVE  tries' \in [Jobs -> Seq(TryRow)] /\ TriesKept /\ RunsKept(w)
<1>1. PICK j, i : j = worker[w].job /\ i = worker[w].try
  OBVIOUS
<1> DEFINE old == tries[j][i]
<1>2. /\ j \in Jobs /\ i \in DOMAIN tries[j] /\ old.run = w /\ old.version = worker[w].version
      /\ old.gen = raw[j].gen => worker[w].sha = raw[j].sha
      /\ old.status = "parsing"
  BY <1>1 DEF Inv, ClaimsHold, Claim, Owned
<1>3. tries[j] \in Seq(TryRow) /\ Tables
  BY <1>2 DEF Inv, Tables
<1>4. old \in TryRow
  BY <1>2, <1>3, LenProperties
<1>5. PICK row : row = [old EXCEPT !.status = s, !.old = FALSE]
  OBVIOUS
<1>6. row \in TryRow /\ row.gen = old.gen /\ row.version = old.version /\ row.status = s
  BY <1>4, <1>5 DEF TryRow
<1>7. PICK t : t = [tries[j] EXCEPT ![i] = row] /\ tries' = [tries EXCEPT ![j] = t]
  <2>1. tries' = [tries EXCEPT ![worker[w].job] =
                    [tries[worker[w].job] EXCEPT ![worker[w].try] =
                       [tries[worker[w].job][worker[w].try] EXCEPT !.status = s, !.old = FALSE]]]
    BY DEF Close
  <2>2. tries' = [tries EXCEPT ![j] = [tries[j] EXCEPT ![i] = row]]
    BY <1>1, <1>5, <2>1
  <2>3. QED BY <2>2
<1>8. /\ tries' \in [Jobs -> Seq(TryRow)]
      /\ \A k \in Jobs :
           /\ DOMAIN tries'[k] = DOMAIN tries[k]
           /\ \A n \in DOMAIN tries[k] :
                tries'[k][n] = IF k = j /\ n = i THEN row ELSE tries[k][n]
  BY <1>2, <1>3, <1>6, <1>7, ExceptSeq DEF Tables
<1>9. s = "success" /\ old.gen = raw[j].gen => Found(j, raw[j].sha, old.version)
  BY <1>1, <1>2
<1>10. TriesKept
  BY <1>2, <1>6, <1>8, <1>9 DEF TriesKept
<1>11. RunsKept(w)
  BY <1>2, <1>8 DEF RunsKept
<1>12. QED BY <1>8, <1>10, <1>11

\* After an attempt is closed the worker looks for the next job.
LEMMA CloseKeeps ==
  ASSUME Inv, NEW w \in Workers, worker[w].pc \in Busy, Tables', RawKept, PurgesKept,
         TriesKept, RunsKept(w), worker' = [worker EXCEPT ![w] = NextClaim(w)],
         slip' \subseteq slip,
         UNCHANGED <<results, current, object, holder, release, faultVars, retention>>
  PROVE  Inv' /\ ClosedKept
<1>1. worker[w] \in Process /\ worker[w].pc # "off"
  BY DEF Inv, Processes, Busy
<1>2. /\ NextClaim(w) \in Process /\ NextClaim(w).pc = "claim"
      /\ NextClaim(w).version = worker[w].version
  BY <1>1 DEF NextClaim, Process, Body
<1>3. UNCHANGED <<weather, spent>> /\ spent \subseteq spent' /\ spent' \subseteq weather
  BY DEF faultVars, Inv, Processes
<1>4. Processes' /\ Moves(w) /\ worker'[w] = NextClaim(w)
  BY <1>2, <1>3, WorkerTyped
<1>5. worker'[w].version <= release
  BY <1>2, <1>4 DEF Inv, Releases
<1>6. Inv'
  BY <1>1, <1>2, <1>3, <1>4, <1>5, WorkKeeps DEF Busy
<1>7. QED BY <1>6 DEF ClosedKept, TriesKept

LEMMA CompleteParseKeeps ==
  ASSUME Inv, NEW w \in Workers, CompleteParse(w), UNCHANGED retention
  PROVE  Inv' /\ ClosedKept
<1>1. /\ worker[w].pc = "saved" /\ Owned(w) /\ tries' = Close(w, "success")
      /\ worker' = [worker EXCEPT ![w] = NextClaim(w)] /\ slip' \subseteq slip
      /\ UNCHANGED <<raw, results, current, object, holder, release, faultVars>>
  BY DEF CompleteParse, Step
<1>2. worker[w].pc \in Busy /\ Found(worker[w].job, worker[w].sha, worker[w].version)
  BY <1>1 DEF Busy, Inv, ClaimsHold, Claim
<1>3. tries' \in [Jobs -> Seq(TryRow)] /\ TriesKept /\ RunsKept(w)
  BY <1>1, <1>2, CloseEffect DEF TryStatus, Terminal
<1>4. Tables'
  BY <1>1, <1>3, TablesTyped
<1>5. RawKept /\ PurgesKept
  BY <1>1, RawUnmoved
<1>6. QED BY <1>1, <1>2, <1>3, <1>4, <1>5, CloseKeeps

\* A row whose page is marked as present, missing or damaged.
LEMMA MarkKeeps ==
  ASSUME Inv, NEW j \in Jobs, raw[j].sha # None, NEW row \in RawRow,
         row.gen = raw[j].gen, row.sha = raw[j].sha, row.purged = raw[j].purged,
         row.status \notin {"none", "pending"}, UNCHANGED results,
         raw' = [raw EXCEPT ![j] = row]
  PROVE  raw' \in [Jobs -> RawRow] /\ RawKept /\ PurgesKept
<1>1. raw \in [Jobs -> RawRow]
  BY DEF Inv, Tables
<1>2. raw' \in [Jobs -> RawRow] /\ \A k \in Jobs : raw'[k] = IF k = j THEN row ELSE raw[k]
  BY <1>1
<1>3. \A k \in Jobs : raw'[k].gen = raw[k].gen /\ raw'[k].sha = raw[k].sha /\ raw'[k].purged = raw[k].purged
  BY <1>2
<1>4. \A k \in Jobs : StatusFits(raw[k])
  BY DEF Inv, RowsHold
<1>5. StatusFits(row)
  BY DEF StatusFits
<1>6. \A k \in Jobs : StatusFits(raw'[k])
  BY <1>2, <1>4, <1>5
<1>7. QED BY <1>2, <1>3, <1>6 DEF RawKept, PurgesKept

LEMMA FailParseKeeps ==
  ASSUME Inv, NEW w \in Workers, FailParse(w), UNCHANGED retention
  PROVE  Inv' /\ ClosedKept
<1> DEFINE pc == worker[w].pc
           j == worker[w].job
<1>1. /\ pc \in {"raw_missing", "parse_error", "validation_error"} \cup Mismatch
      /\ Owned(w) /\ tries' = Close(w, FailStatus(pc))
      /\ worker' = [worker EXCEPT ![w] = NextClaim(w)] /\ slip' \subseteq slip
      /\ UNCHANGED <<results, current, object, holder, release, faultVars>>
  BY DEF FailParse, Step
<1>2. /\ FailStatus(pc) \in TryStatus /\ FailStatus(pc) \notin {"parsing", "success"}
  BY <1>1 DEF FailStatus, Mismatch, TryStatus, Terminal
<1>3. pc \in Busy /\ j \in Jobs
  BY <1>1 DEF Busy, Mismatch, Inv, ClaimsHold, Claim
<1>4. tries' \in [Jobs -> Seq(TryRow)] /\ TriesKept /\ RunsKept(w)
  <2> HIDE DEF j
  <2>1. QED BY <1>1, <1>2, <1>3, CloseEffect
<1>5. raw[j].sha # None
  <2>1. tries[j] \in Seq(TryRow) /\ worker[w].try \in DOMAIN tries[j] /\ raw[j] \in RawRow
    BY <1>3 DEF Inv, ClaimsHold, Claim, Tables
  <2>2. tries[j][worker[w].try] \in TryRow
    BY <2>1, LenProperties
  <2>3. tries[j][worker[w].try].gen <= raw[j].gen /\ (raw[j].sha = None <=> raw[j].gen = 0)
    BY <1>3, <2>1 DEF Inv, RowsHold
  <2>4. QED BY <2>1, <2>2, <2>3, LimitsAssumption DEF TryRow, RawRow
<1>6. raw' \in [Jobs -> RawRow] /\ RawKept /\ PurgesKept
  <2>1. ASSUME NEW v \in Integrity, NEW status \in {"storage_missing", "storage_corrupt"},
               raw' = [raw EXCEPT ![j].integrity = v, ![j].status = status]
        PROVE  raw' \in [Jobs -> RawRow] /\ RawKept /\ PurgesKept
    <3>1. raw[j] \in RawRow /\ status \in RawStatus \ {"none", "pending"}
      BY <1>3 DEF Inv, Tables, RawStatus
    <3>2. PICK row : row = [raw[j] EXCEPT !.integrity = v, !.status = status]
      OBVIOUS
    <3>3. /\ row \in RawRow /\ row.gen = raw[j].gen /\ row.sha = raw[j].sha
          /\ row.purged = raw[j].purged /\ row.status = status
      BY <3>1, <3>2 DEF RawRow
    <3>4. raw' = [raw EXCEPT ![j] = row] /\ UNCHANGED results
      BY <1>1, <2>1, <3>2
    <3>5. QED BY <1>3, <1>5, <3>1, <3>3, <3>4, MarkKeeps
  <2>2. CASE pc = "raw_missing"
    <3>1. raw' = [raw EXCEPT ![j].integrity = "missing", ![j].status = "storage_missing"]
      BY <2>2 DEF FailParse, Mismatch
    <3>2. QED BY <2>1, <3>1 DEF Integrity
  <2>3. CASE pc \in Mismatch
    <3>1. raw' = [raw EXCEPT ![j].integrity = pc, ![j].status = "storage_corrupt"]
      BY <2>3 DEF FailParse, Mismatch
    <3>2. pc \in Integrity
      BY <2>3 DEF Mismatch, Integrity
    <3>3. QED BY <2>1, <3>1, <3>2
  <2>4. CASE pc \in {"parse_error", "validation_error"}
    <3>1. raw' = raw
      BY <2>4 DEF FailParse, Mismatch
    <3>2. QED BY <1>1, <3>1, RawUnmoved DEF Inv, Tables
  <2>5. QED BY <1>1, <2>2, <2>3, <2>4
<1>7. Tables'
  BY <1>1, <1>4, <1>6 DEF Inv, Tables
<1>8. QED BY <1>1, <1>3, <1>4, <1>6, <1>7, CloseKeeps

\* A job is claimed: an attempt is added, within the budget.
LEMMA ClaimKeeps ==
  ASSUME Inv, NEW w \in Workers, ClaimNextRaw(w), UNCHANGED retention
  PROVE  Inv' /\ ClosedKept
<1>1. /\ worker[w].pc = "claim" /\ worker[w].processed < MaxJobs /\ worker[w] \in Process
      /\ slip' \subseteq slip
      /\ UNCHANGED <<raw, results, current, object, holder, release, weather, spent, retention>>
  BY DEF ClaimNextRaw, Step, faultVars, Inv, Processes
<1>2. PICK j \in Jobs :
        /\ Claimable(w, j)
        /\ tries' = [tries EXCEPT ![j] = Append(@,
                       [gen |-> raw[j].gen, version |-> worker[w].version, run |-> w,
                        status |-> "parsing", old |-> FALSE])]
        /\ Step(w, [worker[w] EXCEPT !.pc = "read", !.job = j, !.sha = raw[j].sha,
                                      !.try = Len(tries[j]) + 1,
                                      !.processed = @ + 1])
  BY DEF ClaimNextRaw
<1>3. PICK n, row, p : /\ n = Len(tries[j]) + 1
                       /\ row = [gen |-> raw[j].gen, version |-> worker[w].version, run |-> w,
                                 status |-> "parsing", old |-> FALSE]
                       /\ p = [worker[w] EXCEPT !.pc = "read", !.job = j, !.sha = raw[j].sha,
                                                !.try = n, !.processed = @ + 1]
  OBVIOUS
<1>4. /\ raw[j].status = "raw_ready"
      /\ \A i \in TriesOf(j, worker[w].version) : tries[j][i].status # "parsing"
      /\ Cardinality(TriesOf(j, worker[w].version)) < MaxAttempts
  BY <1>2 DEF Claimable
<1>5. raw[j] \in RawRow /\ raw[j].sha \in Contents /\ raw[j].gen \in 1 .. MaxRaws
  <2>1. raw[j] \in RawRow /\ raw[j].sha # None /\ raw[j].gen # 0
    BY <1>4 DEF Inv, Tables, RowsHold, StatusFits
  <2>2. QED BY <2>1 DEF RawRow, Body
<1>6. /\ tries[j] \in Seq(TryRow) /\ Len(tries[j]) \in Nat /\ n \in Nat
      /\ DOMAIN tries[j] = 1 .. Len(tries[j])
  BY <1>3, LenProperties DEF Inv, Tables
<1>7. /\ row \in TryRow /\ row.gen = raw[j].gen /\ row.version = worker[w].version
      /\ row.run = w /\ row.status = "parsing"
  BY <1>1, <1>3, <1>5 DEF TryRow, TryStatus, Process
<1>8. /\ p \in Process /\ p.pc = "read" /\ p.job = j /\ p.sha = raw[j].sha /\ p.try = n
      /\ p.version = worker[w].version
  <2>1. worker[w].processed + 1 \in 0 .. MaxJobs
    BY <1>1, LimitsAssumption DEF Process
  <2>2. QED BY <1>1, <1>3, <1>5, <1>6, <2>1 DEF Process, Body
<1>9. worker' = [worker EXCEPT ![w] = p]
  BY <1>2, <1>3 DEF Step
<1>10. /\ Append(tries[j], row) \in Seq(TryRow) /\ DOMAIN Append(tries[j], row) = 1 .. n
       /\ Append(tries[j], row)[n] = row
       /\ \A i \in DOMAIN tries[j] : Append(tries[j], row)[i] = tries[j][i]
  BY <1>3, <1>6, <1>7, AppendProperties
<1>11. /\ tries' \in [Jobs -> Seq(TryRow)]
       /\ tries'[j] = Append(tries[j], row) /\ \A k \in Jobs : k # j => tries'[k] = tries[k]
  <2>1. tries' = [tries EXCEPT ![j] = Append(tries[j], row)]
    BY <1>2, <1>3
  <2>2. QED BY <1>10, <2>1 DEF Inv, Tables
<1>12. /\ DOMAIN tries'[j] = DOMAIN tries[j] \cup {n} /\ n \notin DOMAIN tries[j]
       /\ tries'[j][n] = row
       /\ \A k \in Jobs : \A i \in DOMAIN tries[k] : i \in DOMAIN tries'[k] /\ tries'[k][i] = tries[k][i]
       /\ \A k \in Jobs : k # j => tries'[k] = tries[k]
  <2>1. n \notin DOMAIN tries[j] /\ 1 .. n = DOMAIN tries[j] \cup {n}
    BY <1>3, <1>6
  <2>2. /\ DOMAIN tries'[j] = DOMAIN tries[j] \cup {n} /\ tries'[j][n] = row
        /\ \A i \in DOMAIN tries[j] : tries'[j][i] = tries[j][i]
    BY <1>10, <1>11, <2>1
  <2>3. QED BY <1>11, <2>1, <2>2
<1>13. Tables'
  BY <1>1, <1>11, TablesTyped
<1>14. Processes' /\ Moves(w) /\ worker'[w] = p
  BY <1>1, <1>8, <1>9, WorkerTyped DEF Inv, Processes
<1>15. RawKept /\ PurgesKept /\ Grown
  BY <1>1, RawUnmoved
<1>16. RowsHold'
  <2> SUFFICES ASSUME NEW k \in Jobs, NEW i \in DOMAIN tries'[k]
               PROVE  /\ tries'[k][i].gen <= raw[k].gen
                      /\ tries'[k][i].gen = raw[k].gen /\ tries'[k][i].status = "success"
                           => Found(k, raw[k].sha, tries'[k][i].version)
    BY <1>1 DEF Inv, RowsHold, Found
  <2>1. CASE k = j /\ i = n
    BY <1>5, <1>7, <1>12, <2>1
  <2>2. CASE ~(k = j /\ i = n)
    <3>1. i \in DOMAIN tries[k] /\ tries'[k][i] = tries[k][i]
      BY <1>12, <2>2
    <3>2. QED BY <3>1 DEF Inv, RowsHold
  <2>3. QED BY <2>1, <2>2
<1>17. BudgetHolds'
  <2> SUFFICES ASSUME NEW k \in Jobs, NEW v \in Version
               PROVE  /\ IsFiniteSet(Attempts(k, v)') /\ Cardinality(Attempts(k, v)') <= MaxAttempts
                      /\ \A i, m \in Attempts(k, v)' :
                           tries'[k][i].status = "parsing" /\ tries'[k][m].status = "parsing" => i = m
    BY DEF BudgetHolds
  <2>1. /\ IsFiniteSet(Attempts(k, v)) /\ Cardinality(Attempts(k, v)) <= MaxAttempts
        /\ \A i, m \in Attempts(k, v) :
             tries[k][i].status = "parsing" /\ tries[k][m].status = "parsing" => i = m
    BY DEF Inv, BudgetHolds
  <2>2. CASE k = j /\ v = worker[w].version
    <3>1. Attempts(k, v)' = Attempts(k, v) \cup {n}
      BY <1>1, <1>7, <1>12, <2>2 DEF Attempts
    <3>2. Attempts(k, v) = TriesOf(j, worker[w].version) /\ n \notin Attempts(k, v)
      BY <1>12, <2>2 DEF Attempts, TriesOf
    <3>3. /\ IsFiniteSet(Attempts(k, v) \cup {n})
          /\ Cardinality(Attempts(k, v) \cup {n}) = Cardinality(Attempts(k, v)) + 1
      BY <2>1, <3>2, FS_AddElement
    <3>4. Cardinality(Attempts(k, v)) \in Nat /\ MaxAttempts \in Nat
      BY <2>1, FS_CardinalityType, LimitsAssumption
    <3>5. Cardinality(Attempts(k, v)) + 1 <= MaxAttempts
      BY <1>4, <3>2, <3>4
    <3>6. \A i \in Attempts(k, v) : tries'[k][i].status # "parsing"
      BY <1>4, <1>12, <2>2, <3>2 DEF Attempts
    <3>7. QED BY <3>1, <3>3, <3>5, <3>6
  <2>3. CASE ~(k = j /\ v = worker[w].version)
    <3>1. Attempts(k, v)' = Attempts(k, v)
      BY <1>1, <1>7, <1>12, <2>3 DEF Attempts
    <3>2. \A i \in Attempts(k, v) : tries'[k][i] = tries[k][i]
      BY <1>12 DEF Attempts
    <3>3. QED BY <2>1, <3>1, <3>2
  <2>4. QED BY <2>2, <2>3
<1>18. ClaimsHold'
  <2> SUFFICES ASSUME NEW x \in Workers, worker'[x].pc \in Busy PROVE Claim(x)'
    BY DEF ClaimsHold
  <2>1. CASE x = w
    BY <1>1, <1>5, <1>7, <1>8, <1>12, <1>14, <2>1 DEF Claim
  <2>2. CASE x # w
    <3>1. worker'[x] = worker[x] /\ Claim(x)
      BY <1>14, <2>2 DEF Moves, Inv, ClaimsHold
    <3>2. QED BY <1>1, <1>12, <3>1 DEF Claim, Found
  <2>3. QED BY <2>1, <2>2
<1>19. ResultIsGenuine' /\ ObjectsHold'
  BY <1>1 DEF Inv, ResultIsGenuine, ObjectsHold
<1>20. Releases'
  BY <1>1, <1>8, <1>14 DEF Inv, Releases, Moves
<1>21. CleaningHolds' /\ MissingIsExplained'
  BY <1>1, <1>15, KeepsCleanup DEF retention
<1>22. NewestIsCurrent'
  BY <1>1, <1>8, <1>14, <1>15, KeepsNewest
<1>23. Serial'
  BY <1>1, <1>14, KeepsSerial DEF retention
<1>24. Inv'
  BY <1>13, <1>14, <1>16, <1>17, <1>18, <1>19, <1>20, <1>21, <1>22, <1>23 DEF Inv
<1>25. QED BY <1>24, <1>12 DEF ClosedKept

\* A run takes the free lock and uses the newest parser.
LEMMA StartParseKeeps ==
  ASSUME Inv, NEW w \in Workers, StartParse(w), UNCHANGED retention
  PROVE  Inv'
<1>1. /\ worker[w].pc = "off" /\ holder = None /\ holder' = w
      /\ UNCHANGED <<store, object, slip, release, weather, spent, retention>>
  BY DEF StartParse, faultVars
<1>2. PICK p : p = [Idle EXCEPT !.pc = "recover", !.version = release]
  OBVIOUS
<1>3. worker' = [worker EXCEPT ![w] = p]
  BY <1>2 DEF StartParse
<1>4. p \in Process /\ p.pc = "recover" /\ p.version = release
  <2>1. Idle \in Process /\ release \in Version
    BY IdleType DEF Inv, Processes
  <2>2. QED BY <1>2, <2>1 DEF Process
<1>5. Processes' /\ Moves(w) /\ worker'[w] = p
  BY <1>1, <1>3, <1>4, WorkerTyped DEF Inv, Processes
<1>6. RawKept /\ PurgesKept /\ TriesKept /\ RunsKept(w) /\ Grown
  BY <1>1, Unmoved DEF store
<1>7. Tables'
  BY <1>1 DEF Inv, Tables, store
<1>8. RowsHold' /\ BudgetHolds'
  BY <1>6, <1>7, KeepsTables
<1>9. ClaimsHold'
  BY <1>4, <1>5, <1>6, KeepsWorkers DEF Busy
<1>10. ResultIsGenuine' /\ ObjectsHold'
  BY <1>1 DEF Inv, ResultIsGenuine, ObjectsHold, store
<1>11. Releases'
  BY <1>1, <1>4, <1>5 DEF Inv, Releases, Moves, store, Processes, Version
<1>12. CleaningHolds' /\ MissingIsExplained'
  BY <1>1, <1>6, KeepsCleanup DEF retention
<1>13. Serial'
  <2> SUFFICES ASSUME "session_lost" \notin spent
               PROVE  /\ slip' = {} /\ clean.pc = "off" /\ Held' = {}
                      /\ \A x \in Workers : worker'[x].pc # "off" => holder' = x
    BY <1>1 DEF Serial, retention
  <2>1. slip = {} /\ clean.pc = "off" /\ \A x \in Workers : worker[x].pc = "off"
    BY <1>1, ProcessesAssumption DEF Inv, Serial
  <2>2. Held' = {}
    BY <1>1, <2>1 DEF Held, Verifying, retention, Inv, CleaningHolds
  <2>3. QED BY <1>1, <1>5, <2>1, <2>2 DEF Moves
<1>14. NewestIsCurrent'
  <2> SUFFICES ASSUME Promised PROVE NewestIsCurrent'
    BY <1>1 DEF NewestIsCurrent, Promised
  <2>1. /\ \A j \in Jobs : \A r \in results[j] : r.sha = raw[j].sha =>
             current[j] \in results[j] /\ current[j].sha = raw[j].sha /\ r.version <= current[j].version
        /\ \A x \in Workers : worker[x].pc \in Busy =>
             \/ worker[x].sha = raw[worker[x].job].sha
             \/ Found(worker[x].job, worker[x].sha, worker[x].version)
        /\ \A x \in Workers : worker[x].pc # "off" =>
             \A j \in Jobs : \A r \in results[j] : r.version <= worker[x].version
    BY DEF Inv, NewestIsCurrent
  <2>2. \A x \in Workers : worker'[x].pc \in Busy => worker'[x] = worker[x]
    BY <1>4, <1>5 DEF Moves, Busy
  <2>3. \A j \in Jobs : \A r \in results[j] : r.version <= release
    BY DEF Inv, Releases
  <2>4. \A x \in Workers : worker'[x].pc # "off" =>
          \A j \in Jobs : \A r \in results[j] : r.version <= worker'[x].version
    BY <1>4, <1>5, <2>1, <2>3 DEF Moves
  <2>5. QED BY <1>1, <2>1, <2>2, <2>4 DEF NewestIsCurrent, Found, store
<1>15. QED BY <1>5, <1>7, <1>8, <1>9, <1>10, <1>11, <1>12, <1>13, <1>14 DEF Inv

-----------------------------------------------------------------------------
(* The steps of the rest of the world.                                     *)

\* A step that neither moves a worker nor saves a result.
LEMMA KeepsNewestStill ==
  ASSUME Inv, UNCHANGED <<results, current, weather, worker>>, RawKept
  PROVE  NewestIsCurrent'
<1> SUFFICES ASSUME Promised PROVE NewestIsCurrent'
  BY DEF NewestIsCurrent, Promised
<1>1. \A j \in Jobs : raw'[j].sha = raw[j].sha
  BY DEF RawKept
<1>2. \A x \in Workers : worker[x].pc \in Busy => worker[x].job \in Jobs
  BY DEF Inv, ClaimsHold, Claim
<1>3. QED BY <1>1, <1>2 DEF Inv, NewestIsCurrent, Found

LEMMA WorldKeeps ==
  ASSUME Inv, Tables', RawKept, PurgesKept, TriesKept, AllRunsKept,
         UNCHANGED <<results, current, worker, slip, holder, weather, clean, journal>>,
         release' \in Version, release <= release', "release" \notin weather => release' = release,
         listing' \in [Jobs -> {"live", "old"}], spent \subseteq spent', spent' \subseteq weather,
         ObjectsHold',
         \A j \in Jobs : object'[j] = None => object[j] = None \/ "object_lost" \in weather
  PROVE  Inv'
<1>1. Grown
  BY DEF Grown
<1>2. Processes'
  BY DEF Inv, Processes
<1>3. RowsHold' /\ BudgetHolds'
  BY <1>1, KeepsTables
<1>4. ClaimsHold'
  BY <1>1, KeepsAllWorkers
<1>5. ResultIsGenuine'
  BY DEF Inv, ResultIsGenuine
<1>6. CleaningHolds' /\ MissingIsExplained'
  BY <1>1, KeepsCleanup
<1>7. Serial'
  <2> SUFFICES ASSUME "session_lost" \notin spent
               PROVE  /\ slip = {}
                      /\ \A w \in Workers : worker[w].pc # "off" => holder = w
                      /\ clean.pc # "off" => holder = Cleaner
                      /\ \A j \in Held :
                           /\ current[j] # None /\ current[j].sha = raw'[j].sha
                           /\ \A i \in DOMAIN tries'[j] : tries'[j][i].status # "parsing"
    BY DEF Serial, Held
  <2>1. Held \subseteq Jobs
    BY DEF Inv, CleaningHolds, Held, Processes, CleanProcess
  <2>2. QED BY <2>1 DEF Inv, Serial, RawKept, TriesKept
<1>8. Releases'
  <2>1. \A w \in Workers : worker[w].version \in Version /\ release \in Version
    BY DEF Inv, Processes, Process
  <2>2. \A j \in Jobs : \A r \in results[j] : r.version \in Version
    BY DEF Inv, Tables, Result
  <2>3. \A w \in Workers : worker[w].version <= release'
    BY <2>1 DEF Inv, Releases, Version
  <2>4. ASSUME NEW j \in Jobs, NEW r \in results[j] PROVE r.version <= release'
    <3>1. r.version <= release /\ r.version \in Version /\ release \in Version
      BY <2>2 DEF Inv, Releases, Processes
    <3>2. QED BY <3>1 DEF Version
  <2>5. QED BY <2>3, <2>4 DEF Inv, Releases
<1>9. NewestIsCurrent'
  BY KeepsNewestStill
<1>10. QED BY <1>2, <1>3, <1>4, <1>5, <1>6, <1>7, <1>8, <1>9 DEF Inv

LEMMA GrowOldKeeps ==
  ASSUME Inv, NEW j \in Jobs, GrowOld(j), UNCHANGED retention
  PROVE  Inv' /\ ClosedKept
<1>1. UNCHANGED <<raw, results, current, object, worker, holder, slip, release, weather, spent>>
  BY DEF GrowOld, faultVars
<1>2. PICK i \in DOMAIN tries[j] : tries' = [tries EXCEPT ![j][i].old = TRUE]
  BY DEF GrowOld
<1>3. PICK row : row = [tries[j][i] EXCEPT !.old = TRUE]
  OBVIOUS
<1>4. tries[j] \in Seq(TryRow) /\ tries[j][i] \in TryRow
  BY LenProperties DEF Inv, Tables
<1>5. /\ row \in TryRow /\ row.gen = tries[j][i].gen /\ row.version = tries[j][i].version
      /\ row.status = tries[j][i].status /\ row.run = tries[j][i].run
  BY <1>3, <1>4 DEF TryRow
<1>6. PICK t : t = [tries[j] EXCEPT ![i] = row] /\ tries' = [tries EXCEPT ![j] = t]
  BY <1>2, <1>3
<1>7. /\ t \in Seq(TryRow) /\ DOMAIN t = DOMAIN tries[j]
      /\ \A n \in DOMAIN tries[j] : t[n] = IF n = i THEN row ELSE tries[j][n]
  BY <1>4, <1>5, <1>6, ExceptSeq
<1>8. /\ tries' \in [Jobs -> Seq(TryRow)]
      /\ \A k \in Jobs : tries'[k] = IF k = j THEN t ELSE tries[k]
  BY <1>6, <1>7 DEF Inv, Tables
<1>9. Tables'
  BY <1>1, <1>8, TablesTyped
<1>10. TriesKept /\ AllRunsKept
  BY <1>5, <1>7, <1>8 DEF TriesKept, AllRunsKept
<1>11. RawKept /\ PurgesKept
  BY <1>1, RawUnmoved
<1>12. release \in Version /\ listing' \in [Jobs -> {"live", "old"}] /\ spent \subseteq weather
       /\ release <= release
  BY DEF Inv, Processes, retention, Version
<1>13. ObjectsHold'
  BY <1>1 DEF Inv, ObjectsHold
<1>14. Inv'
  BY <1>1, <1>9, <1>10, <1>11, <1>12, <1>13, WorldKeeps DEF retention
<1>15. QED BY <1>14, <1>10 DEF ClosedKept, TriesKept

\* Steps that touch neither attempts nor raw rows.
LEMMA OutsideKeeps ==
  ASSUME Inv, UNCHANGED <<store, worker, slip, holder, weather, clean, journal>>,
         object' \in [Jobs -> Body],
         release' \in Version, release <= release', "release" \notin weather => release' = release,
         listing' \in [Jobs -> {"live", "old"}], spent \subseteq spent', spent' \subseteq weather,
         "object_changed" \notin spent' => \A j \in Jobs : object'[j] \in {object[j], None},
         \A j \in Jobs : object'[j] = None => object[j] = None \/ "object_lost" \in weather
  PROVE  Inv'
<1>1. RawKept /\ PurgesKept /\ TriesKept /\ AllRunsKept
  BY Unmoved DEF store
<1>2. Tables'
  BY DEF Inv, Tables, store
<1>3. ObjectsHold'
  BY DEF Inv, ObjectsHold, store
<1>4. QED BY <1>1, <1>2, <1>3, WorldKeeps DEF store

LEMMA LoseObjectKeeps ==
  ASSUME Inv, NEW j \in Jobs, LoseObject(j), UNCHANGED retention
  PROVE  Inv'
<1>1. /\ UNCHANGED <<store, worker, holder, slip, release, weather, listing, clean, journal>>
      /\ object' = [object EXCEPT ![j] = None] /\ "object_lost" \in weather
      /\ spent \subseteq spent' /\ spent' \subseteq weather
  BY DEF LoseObject, Fault, retention, Inv, Processes
<1>2. /\ object' \in [Jobs -> Body] /\ \A k \in Jobs : object'[k] \in {object[k], None}
      /\ release \in Version /\ release <= release /\ listing \in [Jobs -> {"live", "old"}]
  BY <1>1 DEF Inv, Tables, Processes, Body, Version
<1>3. QED BY <1>1, <1>2, OutsideKeeps

LEMMA ChangeObjectKeeps ==
  ASSUME Inv, NEW j \in Jobs, NEW c \in Contents, ChangeObject(j, c), UNCHANGED retention
  PROVE  Inv'
<1>1. /\ UNCHANGED <<store, worker, holder, slip, release, weather, listing, clean, journal>>
      /\ object' = [object EXCEPT ![j] = c] /\ "object_changed" \in spent'
      /\ spent \subseteq spent' /\ spent' \subseteq weather
  BY DEF ChangeObject, Fault, retention, Inv, Processes
<1>2. /\ object' \in [Jobs -> Body] /\ \A k \in Jobs : object'[k] = None => object[k] = None
      /\ release \in Version /\ release <= release /\ listing \in [Jobs -> {"live", "old"}]
  BY <1>1, ContentsAssumption DEF Inv, Tables, Processes, Body, Version
<1>3. QED BY <1>1, <1>2, OutsideKeeps

LEMMA ReleaseKeeps ==
  ASSUME Inv, Release, UNCHANGED retention
  PROVE  Inv'
<1>1. /\ UNCHANGED <<store, object, worker, holder, slip, weather, spent, listing, clean, journal>>
      /\ release < MaxVersion /\ release' = release + 1 /\ "release" \in weather
  BY DEF Release, faultVars, retention
<1>2. /\ release' \in Version /\ release <= release' /\ listing \in [Jobs -> {"live", "old"}]
      /\ object \in [Jobs -> Body] /\ spent \subseteq weather
  BY <1>1, LimitsAssumption DEF Inv, Tables, Processes, Version
<1>3. QED BY <1>1, <1>2, OutsideKeeps

LEMMA ExpireListingKeeps ==
  ASSUME Inv, NEW j \in Jobs, ExpireListing(j)
  PROVE  Inv'
<1>1. /\ UNCHANGED <<store, object, worker, holder, slip, release, weather, spent, clean, journal>>
      /\ listing' = [listing EXCEPT ![j] = "old"]
  BY DEF ExpireListing, vars, faultVars
<1>2. /\ listing' \in [Jobs -> {"live", "old"}] /\ release \in Version /\ release <= release
      /\ object \in [Jobs -> Body] /\ spent \subseteq weather
  BY <1>1 DEF Inv, Tables, Processes, Version
<1>3. QED BY <1>1, <1>2, OutsideKeeps

LEMMA AuditRawKeeps ==
  ASSUME Inv, NEW j \in Jobs, AuditRaw(j), UNCHANGED retention
  PROVE  Inv'
<1>1. /\ UNCHANGED <<tries, results, current, object, worker, holder, slip, release, weather, spent>>
      /\ UNCHANGED <<listing, clean, journal>> /\ raw[j].sha # None
  BY DEF AuditRaw, faultVars, retention
<1>2. PICK v \in Integrity, status \in RawStatus \ {"none", "pending"} :
        raw' = [raw EXCEPT ![j].integrity = v, ![j].status = status]
  <2>1. \/ raw' = [raw EXCEPT ![j].integrity = "missing", ![j].status = "storage_missing"]
        \/ raw' = [raw EXCEPT ![j].integrity = "size_mismatch", ![j].status = "storage_corrupt"]
        \/ raw' = [raw EXCEPT ![j].integrity = "valid", ![j].status = "raw_ready"]
    BY DEF AuditRaw
  <2>2. QED BY <2>1 DEF Integrity, RawStatus
<1>3. raw[j] \in RawRow
  BY DEF Inv, Tables
<1>4. PICK row : row = [raw[j] EXCEPT !.integrity = v, !.status = status]
  OBVIOUS
<1>5. /\ row \in RawRow /\ row.gen = raw[j].gen /\ row.sha = raw[j].sha
      /\ row.purged = raw[j].purged /\ row.status = status
  BY <1>3, <1>4 DEF RawRow
<1>6. raw' = [raw EXCEPT ![j] = row]
  BY <1>2, <1>4
<1>7. raw' \in [Jobs -> RawRow] /\ RawKept /\ PurgesKept
  BY <1>1, <1>5, <1>6, MarkKeeps
<1>8. TriesKept /\ AllRunsKept
  BY <1>1 DEF TriesKept, AllRunsKept
<1>9. Tables'
  BY <1>1, <1>7 DEF Inv, Tables
<1>10. ObjectsHold'
  BY <1>1, <1>7 DEF Inv, ObjectsHold, RawKept
<1>11. release \in Version /\ release <= release /\ listing' \in [Jobs -> {"live", "old"}]
       /\ spent \subseteq weather
  BY <1>1 DEF Inv, Processes, Version
<1>12. QED BY <1>1, <1>7, <1>8, <1>9, <1>10, <1>11, WorldKeeps

\* A listed job waits for its page if it has none, or none any more.
LEMMA RelistKeeps ==
  ASSUME Inv, NEW j \in Jobs, Relist(j)
  PROVE  Inv'
<1>1. /\ UNCHANGED <<tries, results, current, object, worker, holder, slip, release, weather, spent>>
      /\ UNCHANGED <<clean, journal>> /\ listing' = [listing EXCEPT ![j] = "live"]
  BY DEF Relist, ListJob, vars, store, faultVars
<1>2. /\ listing' \in [Jobs -> {"live", "old"}] /\ release \in Version /\ release <= release
      /\ object \in [Jobs -> Body] /\ spent \subseteq weather
  BY <1>1 DEF Inv, Tables, Processes, Version
<1>3. CASE UNCHANGED raw
  BY <1>1, <1>2, <1>3, OutsideKeeps DEF store
<1>4. CASE ListJob(j)
  <2>1. /\ raw[j].status = "none" \/ raw[j].purged
        /\ raw[j].gen < MaxRaws /\ raw' = [raw EXCEPT ![j].status = "pending"]
    BY <1>4 DEF ListJob
  <2>2. PICK row : row = [raw[j] EXCEPT !.status = "pending"]
    OBVIOUS
  <2>3. /\ row \in RawRow /\ row.gen = raw[j].gen /\ row.sha = raw[j].sha
        /\ row.purged = raw[j].purged /\ row.status = "pending"
    BY <2>2 DEF Inv, Tables, RawRow, RawStatus
  <2>4. /\ raw' \in [Jobs -> RawRow]
        /\ \A k \in Jobs : raw'[k] = IF k = j THEN row ELSE raw[k]
    BY <2>1, <2>2, <2>3 DEF Inv, Tables
  <2>5. \A k \in Jobs : raw'[k].gen = raw[k].gen /\ raw'[k].sha = raw[k].sha /\ raw'[k].purged = raw[k].purged
    BY <2>3, <2>4
  <2>6. \A k \in Jobs : StatusFits(raw[k])
    BY DEF Inv, RowsHold
  <2>7. StatusFits(row)
    BY <2>1, <2>3, <2>6 DEF StatusFits
  <2>8. \A k \in Jobs : StatusFits(raw'[k])
    BY <2>4, <2>6, <2>7
  <2>9. RawKept /\ PurgesKept
    BY <2>5, <2>8 DEF RawKept, PurgesKept
  <2>10. TriesKept /\ AllRunsKept
    BY <1>1 DEF TriesKept, AllRunsKept
  <2>11. Tables'
    BY <1>1, <2>4 DEF Inv, Tables
  <2>12. ObjectsHold'
    BY <1>1, <2>9 DEF Inv, ObjectsHold, RawKept
  <2>13. QED BY <1>1, <1>2, <2>9, <2>10, <2>11, <2>12, WorldKeeps
<1>5. QED BY <1>3, <1>4 DEF Relist, vars, store

\* A fetched page starts a generation: of its attempts there are none yet, and where a
\* page never returns to an earlier body there is no result of it.
LEMMA FetchRawKeeps ==
  ASSUME Inv, NEW j \in Jobs, NEW c \in Contents, FetchRaw(j, c), UNCHANGED retention
  PROVE  Inv'
<1>1. /\ UNCHANGED <<tries, results, current, worker, holder, slip, release, weather, spent>>
      /\ UNCHANGED <<listing, clean, journal>> /\ raw[j].status = "pending"
      /\ object' = [object EXCEPT ![j] = c]
  BY DEF FetchRaw, faultVars, retention
<1>2. PICK row : row = [status |-> "raw_ready", sha |-> c, integrity |-> "valid",
                        purged |-> FALSE, gen |-> raw[j].gen + 1]
  OBVIOUS
<1>3. raw[j] \in RawRow /\ (raw[j].sha = None \/ raw[j].purged) /\ raw[j].gen < MaxRaws
  BY <1>1 DEF Inv, Tables, RowsHold, StatusFits
<1>4. raw[j].gen \in Nat /\ raw[j].gen + 1 \in 0 .. MaxRaws /\ raw[j].gen + 1 # 0
  BY <1>3, LimitsAssumption DEF RawRow
<1>5. /\ row \in RawRow /\ row.sha = c /\ row.gen = raw[j].gen + 1 /\ ~row.purged
      /\ row.status = "raw_ready" /\ c # None
  BY <1>2, <1>4, ContentsAssumption DEF RawRow, RawStatus, Integrity, Body
<1>6. raw' = [raw EXCEPT ![j] = row]
  BY <1>2 DEF FetchRaw
<1>7. /\ raw' \in [Jobs -> RawRow] /\ \A k \in Jobs : raw'[k] = IF k = j THEN row ELSE raw[k]
      /\ object' \in [Jobs -> Body] /\ \A k \in Jobs : object'[k] = IF k = j THEN c ELSE object[k]
  BY <1>1, <1>5, <1>6 DEF Inv, Tables, Body
<1>8. Tables' /\ Processes'
  BY <1>1, <1>7 DEF Inv, Tables, Processes
<1>9. \A i \in DOMAIN tries[j] : tries[j][i].gen \in Nat /\ tries[j][i].gen <= raw[j].gen
  <2>1. tries[j] \in Seq(TryRow)
    BY DEF Inv, Tables
  <2>2. \A i \in DOMAIN tries[j] : tries[j][i] \in TryRow
    BY <2>1, LenProperties
  <2>3. QED BY <2>2, LimitsAssumption DEF TryRow, Inv, RowsHold
<1>10. \A i \in DOMAIN tries[j] : tries[j][i].gen < row.gen
  BY <1>4, <1>5, <1>9
<1>11. j \notin Held
  BY <1>3 DEF Inv, CleaningHolds
<1>12. RowsHold'
  <2> SUFFICES ASSUME NEW k \in Jobs
               PROVE  /\ StatusFits(raw'[k]) /\ (raw'[k].sha = None <=> raw'[k].gen = 0)
                      /\ raw'[k].purged => \E v \in Version : Found(k, raw[k].sha, v)'
                      /\ \A i \in DOMAIN tries[k] :
                           /\ tries[k][i].gen <= raw'[k].gen
                           /\ tries[k][i].gen = raw'[k].gen /\ tries[k][i].status = "success"
                                => Found(k, raw[k].sha, tries[k][i].version)'
    BY <1>1 DEF RowsHold
  <2>1. CASE k = j
    <3>1. raw'[k] = row
      BY <1>7, <2>1
    <3>2. StatusFits(row)
      BY <1>5 DEF StatusFits
    <3>3. \A i \in DOMAIN tries[k] : tries[k][i].gen <= row.gen /\ tries[k][i].gen # row.gen
      BY <1>4, <1>5, <1>9, <2>1
    <3>4. QED BY <1>4, <1>5, <3>1, <3>2, <3>3
  <2>2. CASE k # j
    <3>1. raw'[k] = raw[k]
      BY <1>7, <2>2
    <3>2. QED BY <1>1, <3>1 DEF Inv, RowsHold, Found
  <2>3. QED BY <2>1, <2>2
<1>13. BudgetHolds'
  <2> SUFFICES ASSUME NEW k \in Jobs, NEW v \in Version
               PROVE  /\ IsFiniteSet(Attempts(k, v)') /\ Cardinality(Attempts(k, v)') <= MaxAttempts
                      /\ \A i, m \in Attempts(k, v)' :
                           tries[k][i].status = "parsing" /\ tries[k][m].status = "parsing" => i = m
    BY <1>1 DEF BudgetHolds
  <2>1. CASE k = j
    <3>1. Attempts(k, v)' = {}
      BY <1>1, <1>5, <1>7, <1>9, <1>10, <2>1 DEF Attempts
    <3>2. IsFiniteSet(Attempts(k, v)') /\ Cardinality(Attempts(k, v)') = 0
      BY <3>1, FS_EmptySet
    <3>3. QED BY <3>1, <3>2, LimitsAssumption
  <2>2. CASE k # j
    <3>1. Attempts(k, v)' = Attempts(k, v)
      BY <1>1, <1>7, <2>2 DEF Attempts
    <3>2. QED BY <3>1 DEF Inv, BudgetHolds
  <2>3. QED BY <2>1, <2>2
<1>14. ClaimsHold'
  <2> SUFFICES ASSUME NEW x \in Workers, worker[x].pc \in Busy PROVE Claim(x)'
    BY <1>1 DEF ClaimsHold
  <2>1. Claim(x) /\ worker[x].job \in Jobs /\ worker[x].try \in DOMAIN tries[worker[x].job]
    BY DEF Inv, ClaimsHold, Claim
  <2>2. tries[worker[x].job][worker[x].try].gen = raw'[worker[x].job].gen
          => worker[x].sha = raw'[worker[x].job].sha
    <3>1. CASE worker[x].job = j
      BY <1>4, <1>5, <1>7, <1>9, <2>1, <3>1
    <3>2. CASE worker[x].job # j
      BY <1>7, <2>1, <3>2 DEF Claim
    <3>3. QED BY <3>1, <3>2
  <2>3. QED BY <1>1, <2>1, <2>2 DEF Claim, Found
<1>15. ResultIsGenuine'
  BY <1>1 DEF Inv, ResultIsGenuine
<1>16. ObjectsHold'
  BY <1>1, <1>5, <1>7 DEF Inv, ObjectsHold
<1>17. Held' = Held /\ Held \subseteq Jobs \ {j} /\ \A k \in Held : raw'[k] = raw[k]
  BY <1>1, <1>7, <1>11 DEF Held, Inv, CleaningHolds, Processes, CleanProcess
<1>18. CleaningHolds'
  <2>1. \A k \in Held :
          ~raw'[k].purged /\ raw'[k].sha # None /\ \E v \in Version : Found(k, raw[k].sha, v)'
    BY <1>1, <1>17 DEF Inv, CleaningHolds, Found
  <2>2. clean.pc \in Verifying => clean.job \in Held
    BY DEF Inv, CleaningHolds, Held
  <2>3. clean.pc \in Verifying => Intent(clean.job)' = Intent(clean.job)
    BY <1>1, <1>17, <2>2 DEF Intent
  <2>4. clean.pc = "record" => object'[clean.job] = object[clean.job]
    BY <1>7, <1>17, <2>2 DEF Verifying
  <2>5. QED BY <1>1, <1>17, <2>1, <2>3, <2>4 DEF Inv, CleaningHolds, Verifying, Found
<1>19. MissingIsExplained'
  <2>1. \A k \in Jobs : k # j => raw'[k] = raw[k] /\ object'[k] = object[k] /\ Intent(k)' = Intent(k)
    BY <1>7 DEF Intent
  <2>2. object'[j] # None
    BY <1>5, <1>7
  <2>3. QED BY <1>1, <2>1, <2>2 DEF Inv, MissingIsExplained
<1>20. Serial'
  BY <1>1, <1>17 DEF Inv, Serial
<1>21. Releases'
  BY <1>1 DEF Inv, Releases
<1>22. NewestIsCurrent'
  <2> SUFFICES ASSUME Promised PROVE NewestIsCurrent'
    BY <1>1 DEF NewestIsCurrent, Promised
  <2>1. /\ \A k \in Jobs : \A r \in results[k] : r.sha = raw[k].sha =>
             current[k] \in results[k] /\ current[k].sha = raw[k].sha /\ r.version <= current[k].version
        /\ \A x \in Workers : worker[x].pc \in Busy =>
             \/ worker[x].sha = raw[worker[x].job].sha
             \/ Found(worker[x].job, worker[x].sha, worker[x].version)
        /\ \A x \in Workers : worker[x].pc # "off" =>
             \A k \in Jobs : \A r \in results[k] : r.version <= worker[x].version
    BY DEF Inv, NewestIsCurrent
  <2>2. \A r \in results[j] : r.sha # c
    BY DEF FetchRaw, Promised
  <2>3. \A k \in Jobs : \A r \in results[k] : r.sha = raw'[k].sha =>
          current[k] \in results[k] /\ current[k].sha = raw'[k].sha /\ r.version <= current[k].version
    BY <1>5, <1>7, <2>1, <2>2
  <2>4. ASSUME NEW x \in Workers, worker[x].pc \in Busy
        PROVE  \/ worker[x].sha = raw'[worker[x].job].sha
               \/ Found(worker[x].job, worker[x].sha, worker[x].version)
    <3>1. CASE worker[x].job = j
      <4>1. worker[x].sha \in Contents /\ worker[x].version \in Version
        BY <2>4 DEF Inv, ClaimsHold, Claim, Processes, Process
      <4>2. "session_lost" \in weather
        BY <2>4, ProcessesAssumption DEF FetchRaw, Inv, Serial, Processes, Busy
      <4>3. release = 1 /\ worker[x].version <= release /\ \A r \in results[j] : r.version <= release
        BY <4>2 DEF Promised, Inv, Releases
      <4>4. worker[x].sha # None
        BY <4>1, ContentsAssumption
      <4>5. CASE worker[x].sha = raw[j].sha
        <5>1. PICK v \in Version : Found(j, raw[j].sha, v)
          BY <1>3, <4>4, <4>5 DEF Inv, RowsHold
        <5>2. v = 1 /\ worker[x].version = 1
          BY <4>1, <4>3, <5>1 DEF Found, Version
        <5>3. QED BY <3>1, <4>5, <5>1, <5>2
      <4>6. QED BY <2>1, <2>4, <3>1, <4>5
    <3>2. CASE worker[x].job # j
      BY <1>7, <2>1, <2>4, <3>2 DEF Inv, ClaimsHold, Claim
    <3>3. QED BY <3>1, <3>2
  <2>5. QED BY <1>1, <2>1, <2>3, <2>4 DEF NewestIsCurrent, Found
<1>23. QED BY <1>8, <1>12, <1>13, <1>14, <1>15, <1>16, <1>18, <1>19, <1>20, <1>21, <1>22 DEF Inv

-----------------------------------------------------------------------------
(* The cleanup.                                                            *)

LEMMA CleanKeeps ==
  ASSUME Inv, Tables', RawKept,
         UNCHANGED <<tries, results, current, worker, slip, release, weather, listing>>,
         holder' \in {holder, Cleaner, None}, spent \subseteq spent', spent' \subseteq weather,
         journal' \subseteq JournalRow, clean' \in CleanProcess,
         ObjectsHold', CleaningHolds', MissingIsExplained', Serial'
  PROVE  Inv'
<1>1. TriesKept /\ AllRunsKept /\ Grown
  BY DEF TriesKept, AllRunsKept, Grown
<1>2. Processes'
  BY DEF Inv, Processes
<1>3. RowsHold' /\ BudgetHolds'
  BY <1>1, KeepsTables
<1>4. ClaimsHold'
  BY <1>1, KeepsAllWorkers
<1>5. ResultIsGenuine' /\ Releases'
  BY DEF Inv, ResultIsGenuine, Releases
<1>6. NewestIsCurrent'
  BY KeepsNewestStill
<1>7. QED BY <1>2, <1>3, <1>4, <1>5, <1>6 DEF Inv

\* What is held stays parsed, and as long as the lock is held nobody touches it.
LEMMA HeldKept ==
  ASSUME Inv, UNCHANGED <<raw, tries, results, current, worker, slip, spent>>,
         Held' \subseteq Held, UNCHANGED holder, clean'.pc # "off" => clean.pc # "off"
  PROVE  Serial' /\ \A j \in Held' :
           ~raw[j].purged /\ raw[j].sha # None /\ \E v \in Version : Found(j, raw[j].sha, v)
<1>1. Serial'
  BY DEF Inv, Serial
<1>2. QED BY <1>1 DEF Inv, CleaningHolds

LEMMA StartCleanupKeeps ==
  ASSUME Inv, StartCleanup
  PROVE  Inv'
<1>1. /\ UNCHANGED <<store, object, worker, slip, release, weather, spent, listing, journal>>
      /\ clean.pc = "off" /\ holder = None /\ holder' = Cleaner
  BY DEF StartCleanup, faultVars
<1>2. PICK rows \in SUBSET {j \in Jobs : Candidate(j)} :
         clean' = [NoClean EXCEPT !.pc = "next", !.rows = rows]
  BY DEF StartCleanup
<1>3. clean' \in CleanProcess /\ clean'.pc = "next" /\ clean'.rows = rows
  BY <1>2 DEF NoClean, CleanProcess
<1>4. Held' = rows
  BY <1>3 DEF Held, Verifying
<1>5. RawKept /\ Tables'
  BY <1>1, Unmoved DEF store, Inv, Tables
<1>6. \A j \in rows :
        /\ j \in Jobs /\ raw[j].sha # None /\ ~raw[j].purged
        /\ current[j] # None /\ current[j].sha = raw[j].sha
        /\ \A i \in DOMAIN tries[j] : tries[j][i].status # "parsing"
  BY DEF Candidate
<1>7. \A j \in rows : \E v \in Version : Found(j, raw[j].sha, v)
  <2> SUFFICES ASSUME NEW j \in rows PROVE \E v \in Version : Found(j, raw[j].sha, v)
    OBVIOUS
  <2>1. current[j] \in results[j] /\ current[j] \in Result
    BY <1>6 DEF Inv, Tables
  <2>2. current[j].version \in Version
    BY <2>1 DEF Result
  <2>3. QED BY <1>6, <2>1, <2>2 DEF Found
<1>8. CleaningHolds'
  BY <1>1, <1>3, <1>4, <1>6, <1>7 DEF CleaningHolds, Verifying, store, Found
<1>9. Serial'
  <2> SUFFICES ASSUME "session_lost" \notin spent
               PROVE  slip = {} /\ \A w \in Workers : worker[w].pc = "off"
    BY <1>1, <1>4, <1>6 DEF Serial, store
  <2>1. QED BY <1>1, ProcessesAssumption DEF Inv, Serial
<1>10. ObjectsHold' /\ MissingIsExplained'
  BY <1>1 DEF Inv, ObjectsHold, MissingIsExplained, Intent, store
<1>11. journal \subseteq JournalRow /\ spent \subseteq weather
  BY DEF Inv, Processes
<1>12. QED BY <1>1, <1>3, <1>5, <1>8, <1>9, <1>10, <1>11, CleanKeeps DEF store

LEMMA WriteIntentKeeps ==
  ASSUME Inv, WriteIntent
  PROVE  Inv'
<1>1. /\ UNCHANGED <<store, object, worker, holder, slip, release, weather, spent, listing>>
      /\ clean.pc = "next"
  BY DEF WriteIntent, faultVars
<1>2. PICK j \in clean.rows :
         /\ clean' = [clean EXCEPT !.pc = "verify", !.rows = @ \ {j}, !.job = j,
                                   !.again = Intent(j) \in journal]
         /\ journal' = journal \cup {Intent(j)}
  BY DEF WriteIntent
<1>3. clean \in CleanProcess /\ clean.rows \subseteq Jobs /\ j \in Jobs
  BY DEF Inv, Processes, CleanProcess
<1>4. /\ clean' \in CleanProcess /\ clean'.pc = "verify" /\ clean'.rows = clean.rows \ {j}
      /\ clean'.job = j
  <2>1. PICK again : again = (Intent(j) \in journal)
    OBVIOUS
  <2>2. again \in BOOLEAN
    BY <2>1
  <2>3. clean' = [clean EXCEPT !.pc = "verify", !.rows = @ \ {j}, !.job = j, !.again = again]
    BY <1>2, <2>1
  <2>4. QED BY <1>3, <2>2, <2>3 DEF CleanProcess
<1>5. Held' = Held /\ j \in Held
  BY <1>1, <1>3, <1>4 DEF Held, Verifying
<1>6. RawKept /\ Tables'
  BY <1>1, Unmoved DEF store, Inv, Tables
<1>7. Intent(j) \in JournalRow
  <2>1. raw[j] \in RawRow /\ raw[j].gen # 0
    BY <1>3, <1>5 DEF Inv, Tables, RowsHold, CleaningHolds
  <2>2. QED BY <1>3, <2>1 DEF Intent, JournalRow, RawRow
<1>8. journal' \subseteq JournalRow
  BY <1>2, <1>7 DEF Inv, Processes
<1>9. Serial' /\ \A k \in Held' :
         ~raw[k].purged /\ raw[k].sha # None /\ \E v \in Version : Found(k, raw[k].sha, v)
  BY <1>1, <1>5, HeldKept DEF store
<1>10. \A k \in Jobs : Intent(k)' = Intent(k)
  BY <1>1 DEF Intent, store
<1>11. CleaningHolds'
  BY <1>1, <1>2, <1>3, <1>4, <1>9, <1>10 DEF CleaningHolds, Verifying, store, Found
<1>12. ObjectsHold' /\ MissingIsExplained'
  BY <1>1, <1>2, <1>10 DEF Inv, ObjectsHold, MissingIsExplained, store
<1>13. spent \subseteq weather
  BY DEF Inv, Processes
<1>14. QED BY <1>1, <1>4, <1>6, <1>8, <1>9, <1>11, <1>12, <1>13, CleanKeeps DEF store

LEMMA VerifyObjectKeeps ==
  ASSUME Inv, VerifyObject
  PROVE  Inv'
<1>1. /\ UNCHANGED <<store, object, worker, holder, slip, release, weather, spent, listing, journal>>
      /\ clean.pc = "verify"
  BY DEF VerifyObject, faultVars
<1>2. PICK s : s = ObjectState(clean.job)
  OBVIOUS
<1>3. PICK pc : pc = IF s = "deleted" THEN "delete" ELSE "record"
  OBVIOUS
<1>4. clean' = [clean EXCEPT !.state = s, !.pc = pc]
  BY <1>2, <1>3 DEF VerifyObject
<1>5. /\ s \in {"deleted", "missing", "changed"} /\ pc \in {"delete", "record"}
      /\ s = "changed" => object[clean.job] # None
  BY <1>2, <1>3 DEF ObjectState
<1>6. /\ clean' \in CleanProcess /\ clean'.pc = pc /\ clean'.state = s
      /\ clean'.rows = clean.rows /\ clean'.job = clean.job
  BY <1>4, <1>5 DEF Inv, Processes, CleanProcess
<1>7. Held' = Held
  BY <1>1, <1>3, <1>6 DEF Held, Verifying
<1>8. RawKept /\ Tables'
  BY <1>1, Unmoved DEF store, Inv, Tables
<1>9. Serial' /\ \A k \in Held' :
         ~raw[k].purged /\ raw[k].sha # None /\ \E v \in Version : Found(k, raw[k].sha, v)
  BY <1>1, <1>7, HeldKept DEF store
<1>10. clean.job \in Jobs \ clean.rows /\ Intent(clean.job) \in journal
  BY <1>1 DEF Inv, CleaningHolds, Verifying
<1>11. CleaningHolds'
  BY <1>1, <1>3, <1>5, <1>6, <1>9, <1>10 DEF CleaningHolds, Verifying, store, Found, Intent
<1>12. ObjectsHold' /\ MissingIsExplained'
  BY <1>1 DEF Inv, ObjectsHold, MissingIsExplained, Intent, store
<1>13. spent \subseteq weather /\ journal \subseteq JournalRow
  BY DEF Inv, Processes
<1>14. QED BY <1>1, <1>6, <1>8, <1>9, <1>11, <1>12, <1>13, CleanKeeps DEF store

\* The one step of the cleanup that needs no lock.
LEMMA RemoveObjectKeeps ==
  ASSUME Inv, RemoveObject
  PROVE  Inv'
<1>1. /\ UNCHANGED <<store, worker, holder, slip, release, weather, spent, listing, journal>>
      /\ clean.pc = "delete" /\ object' = [object EXCEPT ![clean.job] = None]
      /\ clean' = [clean EXCEPT !.pc = "record"]
  BY DEF RemoveObject, faultVars
<1>2. /\ clean.job \in Jobs \ clean.rows /\ Intent(clean.job) \in journal
      /\ clean.state = "deleted"
  BY <1>1 DEF Inv, CleaningHolds, Verifying
<1>3. /\ clean' \in CleanProcess /\ clean'.pc = "record" /\ clean'.state = "deleted"
      /\ clean'.rows = clean.rows /\ clean'.job = clean.job
  BY <1>1, <1>2 DEF Inv, Processes, CleanProcess
<1>4. Held' = Held
  BY <1>1, <1>3 DEF Held, Verifying
<1>5. /\ object' \in [Jobs -> Body]
      /\ \A k \in Jobs : object'[k] = IF k = clean.job THEN None ELSE object[k]
  BY <1>1, <1>2 DEF Inv, Tables, Body
<1>6. RawKept /\ Tables'
  BY <1>1, <1>5, Unmoved DEF store, Inv, Tables
<1>7. Serial' /\ \A k \in Held' :
         ~raw[k].purged /\ raw[k].sha # None /\ \E v \in Version : Found(k, raw[k].sha, v)
  BY <1>1, <1>4, HeldKept DEF store
<1>8. CleaningHolds'
  BY <1>1, <1>2, <1>3, <1>7 DEF CleaningHolds, Verifying, store, Found, Intent
<1>9. ObjectsHold'
  BY <1>1, <1>5 DEF Inv, ObjectsHold, store
<1>10. MissingIsExplained'
  BY <1>1, <1>2, <1>5 DEF Inv, MissingIsExplained, Intent, store
<1>11. spent \subseteq weather /\ journal \subseteq JournalRow
  BY DEF Inv, Processes
<1>12. QED BY <1>1, <1>3, <1>6, <1>7, <1>8, <1>9, <1>10, <1>11, CleanKeeps DEF store

LEMMA RecordPurgeKeeps ==
  ASSUME Inv, RecordPurge
  PROVE  Inv'
<1>1. /\ UNCHANGED <<tries, results, current, object, worker, holder, slip, release, weather>>
      /\ UNCHANGED <<spent, listing>> /\ clean.pc = "record"
      /\ clean' = [clean EXCEPT !.pc = "next", !.job = None, !.again = FALSE, !.state = "none"]
  BY DEF RecordPurge, faultVars
<1>2. PICK j : j = clean.job
  OBVIOUS
<1>3. /\ j \in Jobs \ clean.rows /\ j \in Held /\ clean.state # "none"
      /\ clean.state = "changed" /\ "object_lost" \notin weather => object[j] # None
  BY <1>1, <1>2 DEF Inv, CleaningHolds, Verifying, Held
<1>4. /\ ~raw[j].purged /\ raw[j].sha # None /\ \E v \in Version : Found(j, raw[j].sha, v)
      /\ raw[j] \in RawRow /\ raw[j].gen # 0
  BY <1>3 DEF Inv, CleaningHolds, Tables, RowsHold
<1>5. /\ clean' \in CleanProcess /\ clean'.pc = "next" /\ clean'.rows = clean.rows
      /\ clean \in CleanProcess
  BY <1>1 DEF Inv, Processes, CleanProcess
<1>6. Held' \subseteq Held \ {j} /\ Held \subseteq Jobs
  BY <1>1, <1>3, <1>5 DEF Held, Verifying, CleanProcess
<1>7. /\ \A row \in journal : row.job # j => row \in journal'
      /\ journal' \subseteq journal \cup {[Intent(j) EXCEPT !.status = clean.state]}
  BY <1>2 DEF RecordPurge, Intent
<1>8. [Intent(j) EXCEPT !.status = clean.state] \in JournalRow
  BY <1>3, <1>4, <1>5 DEF Intent, JournalRow, RawRow, CleanProcess
<1>9. /\ raw' \in [Jobs -> RawRow] /\ \A k \in Jobs : k # j => raw'[k] = raw[k]
      /\ raw'[j].gen = raw[j].gen /\ raw'[j].sha = raw[j].sha
      /\ \/ clean.state = "changed" /\ raw'[j] = raw[j]
         \/ raw'[j].purged /\ raw'[j].status = "storage_missing"
  <2>1. CASE clean.state = "changed"
    <3>1. raw' = raw
      BY <2>1 DEF RecordPurge, PurgeMarker
    <3>2. QED BY <2>1, <3>1 DEF Inv, Tables
  <2>2. CASE clean.state # "changed"
    <3>1. PICK row : row = [raw[j] EXCEPT !.purged = TRUE, !.status = "storage_missing"]
      OBVIOUS
    <3>2. raw' = [raw EXCEPT ![j] = row]
      BY <1>2, <2>2, <3>1 DEF RecordPurge, PurgeMarker
    <3>3. /\ row \in RawRow /\ row.gen = raw[j].gen /\ row.sha = raw[j].sha
          /\ row.purged /\ row.status = "storage_missing"
      BY <1>4, <3>1 DEF RawRow, RawStatus
    <3>4. QED BY <1>3, <3>2, <3>3 DEF Inv, Tables
  <2>3. QED BY <2>1, <2>2
<1>10. RawKept
  <2>1. \A k \in Jobs : StatusFits(raw[k])
    BY DEF Inv, RowsHold
  <2>2. StatusFits(raw'[j])
    BY <1>3, <1>4, <1>9, <2>1 DEF StatusFits
  <2>3. \A k \in Jobs : raw'[k].gen = raw[k].gen /\ raw'[k].sha = raw[k].sha /\ StatusFits(raw'[k])
    BY <1>9, <2>1, <2>2
  <2>4. \A k \in Jobs : raw'[k].purged => raw[k].purged \/ \E v \in Version : Found(k, raw[k].sha, v)
    BY <1>4, <1>9
  <2>5. QED BY <2>3, <2>4 DEF RawKept
<1>11. Tables'
  BY <1>1, <1>9 DEF Inv, Tables
<1>12. CleaningHolds'
  <2>1. \A k \in Held' : raw'[k] = raw[k] /\ k \in Held
    BY <1>6, <1>9
  <2>2. \A k \in Held' :
          ~raw'[k].purged /\ raw'[k].sha # None /\ \E v \in Version : Found(k, raw[k].sha, v)'
    BY <1>1, <2>1 DEF Inv, CleaningHolds, Found
  <2>3. QED BY <1>5, <2>2 DEF CleaningHolds, Verifying
<1>13. Serial'
  BY <1>1, <1>5, <1>6, <1>9 DEF Inv, Serial
<1>14. ObjectsHold'
  BY <1>1, <1>10 DEF Inv, ObjectsHold, RawKept
<1>15. MissingIsExplained'
  <2> SUFFICES ASSUME {"object_lost", "session_lost"} \cap weather = {}, NEW k \in Jobs,
                      raw'[k].sha # None, ~raw'[k].purged, object[k] = None
               PROVE  Intent(k)' \in journal'
    BY <1>1 DEF MissingIsExplained
  <2>1. k # j
    BY <1>3, <1>9
  <2>2. raw'[k] = raw[k] /\ Intent(k)' = Intent(k) /\ Intent(k).job = k
    BY <1>9, <2>1 DEF Intent
  <2>3. Intent(k) \in journal
    BY <2>2 DEF Inv, MissingIsExplained
  <2>4. QED BY <1>7, <2>1, <2>2, <2>3
<1>16. journal' \subseteq JournalRow /\ spent \subseteq weather
  BY <1>7, <1>8 DEF Inv, Processes
<1>17. QED BY <1>1, <1>5, <1>10, <1>11, <1>12, <1>13, <1>14, <1>15, <1>16, CleanKeeps

LEMMA LeaveCleanupKeeps ==
  ASSUME Inv, LeaveCleanup, UNCHANGED weather, spent \subseteq spent', spent' \subseteq weather
  PROVE  Inv'
<1>1. /\ UNCHANGED <<store, object, worker, slip, release, listing, journal>>
      /\ clean' = NoClean /\ holder' = IF holder = Cleaner THEN None ELSE holder
  BY DEF LeaveCleanup
<1>2. clean' \in CleanProcess /\ clean'.pc = "off" /\ clean'.rows = {}
  BY <1>1 DEF NoClean, CleanProcess
<1>3. Held' = {}
  BY <1>2 DEF Held, Verifying
<1>4. RawKept /\ Tables'
  BY <1>1, Unmoved DEF store, Inv, Tables
<1>5. CleaningHolds'
  BY <1>2, <1>3 DEF CleaningHolds, Verifying
<1>6. Serial'
  BY <1>1, <1>2, <1>3, ProcessesAssumption DEF Inv, Serial, Processes
<1>7. ObjectsHold' /\ MissingIsExplained'
  BY <1>1 DEF Inv, ObjectsHold, MissingIsExplained, Intent, store
<1>8. journal \subseteq JournalRow
  BY DEF Inv, Processes
<1>9. QED BY <1>1, <1>2, <1>4, <1>5, <1>6, <1>7, <1>8, CleanKeeps DEF store

LEMMA CleanupLosesSessionKeeps ==
  ASSUME Inv, CleanupLosesSession
  PROVE  Inv'
<1>1. /\ UNCHANGED <<store, object, worker, slip, release, weather, listing, journal, clean>>
      /\ holder' = None /\ "session_lost" \in spent'
      /\ spent \subseteq spent' /\ spent' \subseteq weather
  BY DEF CleanupLosesSession, Fault, retention, Inv, Processes
<1>2. RawKept /\ PurgesKept /\ Grown /\ Tables'
  BY <1>1, Unmoved DEF store, Inv, Tables
<1>3. CleaningHolds' /\ MissingIsExplained'
  BY <1>1, <1>2, KeepsCleanup
<1>4. ObjectsHold' /\ Serial'
  BY <1>1 DEF Inv, ObjectsHold, Serial, store
<1>5. journal \subseteq JournalRow /\ clean \in CleanProcess
  BY DEF Inv, Processes
<1>6. QED BY <1>1, <1>2, <1>3, <1>4, <1>5, CleanKeeps DEF store

-----------------------------------------------------------------------------
(* The invariant.                                                          *)

LEMMA InitInv == RetentionInit => Inv
<1> SUFFICES ASSUME RetentionInit PROVE Inv
  OBVIOUS
<1> USE DEF RetentionInit, Init
<1>1. PICK row : row = [status |-> "none", sha |-> None, integrity |-> "none",
                        purged |-> FALSE, gen |-> 0]
  OBVIOUS
<1>2. row \in RawRow /\ row.status = "none" /\ row.sha = None /\ ~row.purged /\ row.gen = 0
  BY <1>1, LimitsAssumption DEF RawRow, RawStatus, Integrity, Body
<1>3. raw = [j \in Jobs |-> row]
  BY <1>1
<1>4. /\ \A j \in Jobs : raw[j] = row /\ tries[j] = <<>> /\ results[j] = {} /\ current[j] = None
      /\ \A w \in Workers : worker[w] = Idle
      /\ clean = NoClean /\ spent = {} /\ slip = {} /\ release = 1
  BY <1>3
<1>5. <<>> \in Seq(TryRow) /\ DOMAIN <<>> = {}
  BY EmptySeq
<1>6. Tables
  BY <1>2, <1>3, <1>5 DEF Tables, Body
<1>7. Processes
  BY IdleType, LimitsAssumption, WeathersAssumption DEF Processes, Version, NoClean, CleanProcess
<1>8. RowsHold
  BY <1>2, <1>4, <1>5 DEF RowsHold, StatusFits
<1>9. BudgetHolds
  <2>1. \A j \in Jobs, v \in Version : Attempts(j, v) = {}
    BY <1>4, <1>5 DEF Attempts
  <2>2. IsFiniteSet({}) /\ Cardinality({}) = 0
    BY FS_EmptySet
  <2>3. MaxAttempts \in Nat
    BY LimitsAssumption
  <2>4. ASSUME NEW j \in Jobs, NEW v \in Version
        PROVE  /\ IsFiniteSet(Attempts(j, v)) /\ Cardinality(Attempts(j, v)) = 0
               /\ Cardinality(Attempts(j, v)) <= MaxAttempts /\ Attempts(j, v) = {}
    <3>1. Attempts(j, v) = {}
      BY <2>1
    <3>2. IsFiniteSet(Attempts(j, v)) /\ Cardinality(Attempts(j, v)) = 0
      BY <2>2, <3>1
    <3>3. 0 <= MaxAttempts
      BY <2>3
    <3>4. QED BY <3>1, <3>2, <3>3
  <2>5. QED BY <2>4 DEF BudgetHolds
<1>10. ClaimsHold
  BY <1>4, IdleType DEF ClaimsHold, Busy
<1>11. Held = {} /\ clean.pc = "off" /\ clean.rows = {}
  BY <1>4 DEF Held, NoClean, Verifying
<1>12. CleaningHolds
  BY <1>11 DEF CleaningHolds, Verifying
<1>13. Serial
  BY <1>4, <1>11, IdleType DEF Serial
<1>14. MissingIsExplained
  BY <1>2, <1>4 DEF MissingIsExplained
<1>15. Releases /\ NewestIsCurrent
  <2>1. Releases
    BY <1>4, IdleType DEF Releases
  <2>2. NewestIsCurrent
    BY <1>4, IdleType DEF NewestIsCurrent, Busy
  <2>3. QED BY <2>1, <2>2
<1>16. ResultIsGenuine /\ ObjectsHold
  BY <1>4 DEF ResultIsGenuine, ObjectsHold
<1>17. QED BY <1>6, <1>7, <1>8, <1>9, <1>10, <1>12, <1>13, <1>14, <1>15, <1>16 DEF Inv

LEMMA StutterKeeps ==
  ASSUME Inv, UNCHANGED allVars
  PROVE  Inv'
<1>1. UNCHANGED <<store, object, worker, holder, slip, release, weather, spent, listing, clean, journal>>
  BY DEF allVars, vars, faultVars, retention
<1>2. /\ object \in [Jobs -> Body] /\ release \in Version /\ release <= release
      /\ listing \in [Jobs -> {"live", "old"}] /\ spent \subseteq weather
  BY DEF Inv, Tables, Processes, Version
<1>3. QED BY <1>1, <1>2, OutsideKeeps

LEMMA NextKeeps == Inv /\ [Next]_allVars => Inv' /\ ClosedKept
<1> SUFFICES ASSUME Inv, [Next]_allVars PROVE Inv' /\ ClosedKept
  OBVIOUS
<1>0. UNCHANGED tries => ClosedKept
  BY DEF ClosedKept
<1>1. ASSUME NEW w \in Workers, UNCHANGED retention,
             StartParse(w) \/ Serve(w) \/ Kill(w) \/ LoseSession(w)
      PROVE  Inv' /\ ClosedKept
  <2>1. StartParse(w) \/ ReadObject(w) \/ Parse(w) \/ Save(w) \/ LoseSession(w) => UNCHANGED tries
    BY DEF StartParse, ReadObject, Parse, Save, LoseSession, store
  <2>2. QED BY <1>0, <1>1, <2>1, StartParseKeeps, KillKeeps, LoseSessionKeeps, RecoverKeeps,
               ClaimKeeps, EndParseKeeps, ReadObjectKeeps, ParseKeeps, SaveKeeps,
               CompleteParseKeeps, FailParseKeeps, GiveUpKeeps DEF Serve
<1>2. ASSUME NEW j \in Jobs, UNCHANGED retention,
             \/ GrowOld(j) \/ AuditRaw(j) \/ LoseObject(j)
             \/ \E c \in Contents : FetchRaw(j, c) \/ ChangeObject(j, c)
      PROVE  Inv' /\ ClosedKept
  <2>1. GrowOld(j) \/ UNCHANGED tries
    BY <1>2 DEF AuditRaw, LoseObject, FetchRaw, ChangeObject, store
  <2>2. QED BY <1>0, <1>2, <2>1, GrowOldKeeps, AuditRawKeeps, LoseObjectKeeps, FetchRawKeeps,
               ChangeObjectKeeps
<1>3. CASE ParseNext /\ UNCHANGED retention
  <2>1. Release => UNCHANGED tries
    BY DEF Release, store
  <2>2. QED BY <1>0, <1>1, <1>2, <1>3, <2>1, ReleaseKeeps DEF ParseNext
<1>4. CASE Cleanup
  <2>0. UNCHANGED tries
    BY <1>4 DEF Cleanup, WriteIntent, VerifyObject, RemoveObject, RecordPurge, EndCleanup,
                CleanupGivesUp, LeaveCleanup, store
  <2>1. EndCleanup \/ CleanupGivesUp => Inv'
    <3> SUFFICES ASSUME EndCleanup \/ CleanupGivesUp PROVE Inv'
      OBVIOUS
    <3>1. LeaveCleanup /\ UNCHANGED <<weather, spent>>
      BY DEF EndCleanup, CleanupGivesUp, faultVars
    <3>2. QED BY <3>1, LeaveCleanupKeeps DEF Inv, Processes
  <2>2. QED BY <1>0, <1>4, <2>0, <2>1, WriteIntentKeeps, VerifyObjectKeeps, RemoveObjectKeeps, RecordPurgeKeeps
            DEF Cleanup
<1>5. CASE KillCleanup
  <2>1. /\ LeaveCleanup /\ UNCHANGED <<tries, weather>>
        /\ spent \subseteq spent' /\ spent' \subseteq weather
    BY <1>5 DEF KillCleanup, LeaveCleanup, Fault, Inv, Processes, store
  <2>2. QED BY <1>0, <2>1, LeaveCleanupKeeps
<1>6. CASE UNCHANGED allVars
  BY <1>0, <1>6, StutterKeeps DEF allVars, vars, store
<1>7. CASE \E j \in Jobs : ExpireListing(j) \/ Relist(j)
  <2>1. UNCHANGED tries
    BY <1>7 DEF ExpireListing, Relist, ListJob, vars, store
  <2>2. QED BY <1>0, <1>7, <2>1, ExpireListingKeeps, RelistKeeps
<1>8. CASE StartCleanup \/ CleanupLosesSession
  <2>1. UNCHANGED tries
    BY <1>8 DEF StartCleanup, CleanupLosesSession, store
  <2>2. QED BY <1>0, <1>8, <2>1, StartCleanupKeeps, CleanupLosesSessionKeeps
<1>9. QED BY <1>3, <1>4, <1>5, <1>6, <1>7, <1>8 DEF Next

\* The inductive invariant holds: what the rows, the processes and the cleanup remember of
\* each other stays true through every step of either phase.
THEOREM InvHolds == Spec => []Inv
<1>1. Inv /\ [Next]_allVars => Inv'
  BY NextKeeps
<1>2. QED BY <1>1, InitInv, PTL DEF Spec

-----------------------------------------------------------------------------
(* What follows from it.                                                   *)

LEMMA InvTypeOK == Inv => TypeOK
<1> SUFFICES ASSUME Inv PROVE TypeOK
  OBVIOUS
<1>1. Tables /\ Processes
  BY DEF Inv
<1>2. \A j \in Jobs : /\ tries[j] \in Seq(TryRow) /\ results[j] \subseteq Result
                      /\ current[j] \in results[j] \cup {None}
  BY <1>1 DEF Tables
<1>3. QED BY <1>1, <1>2 DEF Tables, Processes, TypeOK

LEMMA InvCurrent == Inv => CurrentMatchesRaw
<1> SUFFICES ASSUME Inv, Promised, NEW j \in Jobs, NEW v \in Succeeded(j)
             PROVE  current[j].sha = raw[j].sha /\ current[j].version >= v
  BY DEF CurrentMatchesRaw, Promised
<1>1. Found(j, raw[j].sha, v)
  BY DEF Inv, RowsHold, Succeeded
<1>2. PICK r \in results[j] : r.sha = raw[j].sha /\ r.version = v
  BY <1>1 DEF Found
<1>3. /\ current[j] \in results[j] /\ current[j].sha = raw[j].sha /\ r.version <= current[j].version
  BY <1>2 DEF Inv, NewestIsCurrent
<1>4. r \in Result /\ current[j] \in Result
  BY <1>2, <1>3 DEF Inv, Tables
<1>5. QED BY <1>2, <1>3, <1>4 DEF Result, Version

LEMMA InvResults == Inv => ResultsAgree
<1> SUFFICES ASSUME Inv PROVE ResultsAgree
  OBVIOUS
<1>1. SuccessIsStored
  BY DEF SuccessIsStored, Succeeded, Inv, RowsHold
<1>2. ResultIsGenuine
  BY DEF Inv
<1>3. QED BY <1>1, <1>2, InvTypeOK, InvCurrent DEF ResultsAgree

\* Attempts, results and the current result agree on what was parsed from what, for any
\* jobs, processes and faults: a success has its stored result, made from the very bytes
\* it names, and the current result is the page's newest (complete_parse, save_parse_result).
THEOREM ResultsAgreeHolds == Spec => []ResultsAgree
BY InvHolds, InvResults, PTL

LEMMA InvBudget == Inv => AttemptBudget
<1> SUFFICES ASSUME Inv, NEW j \in Jobs, NEW v \in Version
             PROVE  /\ Cardinality(Attempts(j, v)) <= MaxAttempts
                    /\ Cardinality({i \in Attempts(j, v) : tries[j][i].status = "parsing"}) <= 1
  BY DEF AttemptBudget
<1> DEFINE open == {i \in Attempts(j, v) : tries[j][i].status = "parsing"}
<1>1. /\ IsFiniteSet(Attempts(j, v)) /\ Cardinality(Attempts(j, v)) <= MaxAttempts
      /\ \A i, k \in open : i = k
  BY DEF Inv, BudgetHolds
<1> HIDE DEF open
<1>2. Cardinality(open) <= 1
  <2>1. CASE open = {}
    <3>1. Cardinality({}) = 0
      BY FS_EmptySet
    <3>2. QED BY <2>1, <3>1
  <2>2. CASE open # {}
    <3>1. PICK i : i \in open
      BY <2>2
    <3>2. open = {i}
      BY <1>1, <3>1
    <3>3. Cardinality({i}) = 1
      BY FS_Singleton
    <3>4. QED BY <3>2, <3>3
  <2>3. QED BY <2>1, <2>2
<1>3. QED BY <1>1, <1>2 DEF open

\* However processes are killed, lose their lock or are recovered as stale while they
\* are at work, attempts on one page and parser version stay within max_attempts and at
\* most one is open (claim_next_raw, recover_stale_parses).
THEOREM AttemptBudgetHolds == Spec => []AttemptBudget
BY InvHolds, InvBudget, PTL

\* A page that is missing from the bucket while its row is unpurged has an intent in the
\* journal, unless the environment lost it or the cleanup lost its session (run_cleanup).
THEOREM MissingIsExplainedHolds == Spec => []MissingIsExplained
<1>1. Inv => MissingIsExplained
  BY DEF Inv
<1>2. QED BY <1>1, InvHolds, PTL

\* An attempt once closed keeps its outcome: a process whose claim was recovered as
\* stale and that comes back cannot overwrite it (complete_parse, fail_parse).
THEOREM ClosedStays == Spec => ClosedIsFinal
<1> SUFFICES ASSUME Inv, [Next]_allVars
             PROVE  [\A j \in Jobs : \A i \in DOMAIN tries[j] :
                       tries[j][i].status # "parsing"
                         => tries'[j][i].status = tries[j][i].status]_tries
  BY InvHolds, PTL DEF Spec, ClosedIsFinal
<1>1. ClosedKept
  BY NextKeeps
<1>2. QED BY <1>1 DEF ClosedKept

\* The cleanup removes only a parsed page, even when its session goes between its last
\* check and the removal; while no session is lost the page's result is the current one
\* and nobody is parsing it (run_cleanup).
THEOREM RemovalIsSafeHolds == Spec => RemovalIsSafe
<1> SUFFICES ASSUME Inv, NEW j \in Jobs, RemoveObject, clean.job = j
             PROVE  /\ object[j] \in {raw[j].sha, None} \/ "object_changed" \in spent
                    /\ \E v \in Version : Found(j, raw[j].sha, v)
                    /\ "session_lost" \notin spent =>
                          /\ current[j].sha = raw[j].sha
                          /\ \A i \in DOMAIN tries[j] : tries[j][i].status # "parsing"
  <2>1. Inv => \A j \in Jobs :
                 RemoveObject /\ clean.job = j
                   => /\ object[j] \in {raw[j].sha, None} \/ "object_changed" \in spent
                      /\ \E v \in Version : Found(j, raw[j].sha, v)
                      /\ "session_lost" \notin spent =>
                            /\ current[j].sha = raw[j].sha
                            /\ \A i \in DOMAIN tries[j] : tries[j][i].status # "parsing"
    OBVIOUS
  <2>2. QED BY <2>1, InvHolds, PTL DEF RemovalIsSafe
<1>1. clean.pc = "delete" /\ j \in Held
  BY DEF RemoveObject, Held, Verifying
<1>2. \E v \in Version : Found(j, raw[j].sha, v)
  BY <1>1 DEF Inv, CleaningHolds
<1>3. object[j] \in {raw[j].sha, None} \/ "object_changed" \in spent
  BY DEF Inv, ObjectsHold
<1>4. QED BY <1>1, <1>2, <1>3 DEF Inv, Serial

=============================================================================
