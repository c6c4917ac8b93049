----------------------------- MODULE Enrichment -----------------------------
(***************************************************************************)
(* The enrichment queue (enrichment/store.py) and its worker               *)
(* (enrichment/service.py, backfill.py).  A row of the queue is one content *)
(* of one posting; a request asks a provider about up to three rows, is     *)
(* reserved against rolling quotas before it is sent and settled after.    *)
(*                                                                         *)
(* One worker at a time owns the session lock; the lock and every write     *)
(* share one connection, so a worker that lost the lock writes no more.     *)
(* Each transaction and each call is one action, and the worker may die     *)
(* between any two.  Meanwhile time passes and postings change content.    *)
(***************************************************************************)
EXTENDS Integers, FiniteSets, Sequences, Functions

CONSTANTS
    Postings,     \* source postings
    Contents,     \* hashes of enrichment input
    ContentsOf,   \* those a posting may have
    Eligible,     \* rows the view enrichment_candidates would admit when current
    Providers,
    Order,        \* enabled providers with a key, in the order of the configuration
    Limit,        \* per provider: rpm, tpm, rpd, tpd, enforce (daily budget), batch
    Cost,         \* estimated tokens of a content
    None,
    MaxAttempts,  \* max_attempts
    MaxJobs,      \* max_jobs_per_run: requests a run may make
    Minute, Day,  \* lengths of the rolling windows, in ticks
    RetryDelay,   \* the 15 minutes before a retry, in ticks
    Cooldowns,    \* lengths of provider blocks, in ticks
    MaxRequests   \* BOUND: rows of enrichment_attempts

Row == {r \in Postings \X Contents : r[2] \in ContentsOf[r[1]]}
RequestId == 1 .. MaxRequests

ASSUME QueueAssumption ==
    /\ ContentsOf \in [Postings -> SUBSET Contents]
    /\ IsFiniteSet(Row) /\ Eligible \subseteq Row /\ None \notin Contents
    /\ Cost \in [Contents -> Nat]
    /\ MaxAttempts \in Nat \ {0} /\ MaxJobs \in Nat \ {0} /\ MaxRequests \in Nat
ASSUME ProviderAssumption ==
    /\ Order \in Seq(Providers) \ {<<>>}
    /\ Limit \in [Providers -> [rpm : Nat, tpm : Nat, rpd : Nat, tpd : Nat,
                                enforce : BOOLEAN, batch : 1 .. 3]]
    /\ None \notin Providers /\ None \notin Nat
ASSUME TimeAssumption ==
    /\ Minute \in Nat /\ Day \in Nat /\ Minute <= Day /\ RetryDelay \in Nat
    /\ Cooldowns \subseteq Nat

VARIABLES
    content,   \* each posting's current content while it is active and accepted
    row,       \* core.job_enrichments
    request,   \* core.enrichment_attempts with its enrichment_attempt_jobs
    blocked,   \* core.enrichment_provider_state: ticks until blocked_until
    pc,        \* the worker's next step
    scope,     \* the candidates of its run
    spent, fresh,           \* requests made; whether its loop has not turned yet
    head, tried,            \* the selected row and its attempts when selected
    turn, group,            \* the provider being tried and the members asked for
    cur, passed, usage, cool,  \* the request under way and what came back
    burnt      \* HISTORY: tokens a provider really charged for each request

run == <<scope, spent, fresh>>
choice == <<head, tried, turn, group>>
reply == <<cur, passed, usage, cool>>
vars == <<content, row, request, blocked, pc, run, choice, reply, burnt>>

Waiting == {"pending", "retry_wait"}
RowStatus == {"none", "pending", "processing", "retry_wait", "succeeded", "failed",
              "superseded"}
MemberStatus == {"processing", "succeeded", "retry_wait", "failed", "interrupted"}
RequestStatus == {"none", "partial"} \cup MemberStatus

ASSUME NoneAssumption == None \notin MemberStatus

CurrentContent ==
    {f \in [Postings -> Contents \cup {None}] :
       \A p \in Postings : f[p] \in ContentsOf[p] \cup {None}}

QueueRow == [status : RowStatus, attempts : Nat,
             wait : Nat,      \* ticks until next_attempt_at, of a row that waits
             result : Nat]    \* the request whose answer it holds, 0 if none
RequestRow == [status : RequestStatus, provider : Providers \cup {None},
               member : [Row -> MemberStatus \cup {None}],
               age : Nat,     \* ticks since started_at, up to Day
               charge : Nat]  \* actual_tokens once known, until then reserved_tokens

Unused == [status |-> "none", provider |-> None, member |-> [r \in Row |-> None],
           age |-> 0, charge |-> 0]

Forget ==
    /\ pc' = "off" /\ scope' = {} /\ spent' = 0 /\ fresh' = TRUE
    /\ head' = None /\ tried' = 0 /\ turn' = 0 /\ group' = {}
    /\ cur' = 0 /\ passed' = {} /\ usage' = None /\ cool' = 0

Init ==
    /\ content \in CurrentContent
    /\ row = [r \in Row |-> [status |-> "none", attempts |-> 0, wait |-> 0, result |-> 0]]
    /\ request = [i \in RequestId |-> Unused]
    /\ blocked = [p \in Providers |-> 0]
    /\ pc = "off" /\ scope = {} /\ spent = 0 /\ fresh = TRUE
    /\ head = None /\ tried = 0 /\ turn = 0 /\ group = {}
    /\ cur = 0 /\ passed = {} /\ usage = None /\ cool = 0
    /\ burnt = [i \in RequestId |-> 0]

-----------------------------------------------------------------------------
(* Queries.  A definition with a suffix after an underscore is the one      *)
(* below it with a plausible bug, for the mutants.                          *)

Current(r) == content[r[1]] = r[2]

\* The candidates query of the run: its own selection, rechecked against the content.
Candidate(r) == r \in scope /\ Current(r)

Dispatchable(r) ==
    /\ Candidate(r) /\ row[r].status \in Waiting
    /\ row[r].wait = 0 /\ row[r].attempts < MaxAttempts

Exhausted_Never(r) == FALSE

Exhausted(r) ==
    Candidate(r) /\ row[r].status \in Waiting /\ row[r].attempts >= MaxAttempts

Follower_Any(r) == Dispatchable(r)

\* Rows that may join another's request: never asked about before.
Follower(r) == Dispatchable(r) /\ row[r].attempts = 0

Size == [r \in Row |-> Cost[r[2]]]

Estimate(S) == SumFunctionOnSet(Size, S)

RequestLimit(p) ==
    IF Limit[p].enforce /\ Limit[p].tpd < Limit[p].tpm THEN Limit[p].tpd ELSE Limit[p].tpm

Oversize_Never(r) == FALSE

Oversize(r) == \A n \in DOMAIN Order : Cost[r[2]] > RequestLimit(Order[n])

Window(p, length) ==
    {i \in RequestId : /\ request[i].status # "none"
                       /\ request[i].provider = p
                       /\ request[i].age < length}

Charge == [i \in RequestId |-> request[i].charge]

Used(S) == SumFunctionOnSet(Charge, S)

WithinDay(p, tokens) ==
    Limit[p].enforce =>
      /\ Cardinality(Window(p, Day)) < Limit[p].rpd
      /\ Used(Window(p, Day)) + tokens <= Limit[p].tpd

WithinMinute_OneMore(p, tokens) ==
    /\ Cardinality(Window(p, Minute)) <= Limit[p].rpm
    /\ Used(Window(p, Minute)) + tokens <= Limit[p].tpm

WithinMinute(p, tokens) ==
    /\ Cardinality(Window(p, Minute)) < Limit[p].rpm
    /\ Used(Window(p, Minute)) + tokens <= Limit[p].tpm

CanRetrySoon(p, tokens) ==
    /\ tokens <= RequestLimit(p)
    /\ blocked[p] <= Minute
    /\ WithinDay(p, tokens)

-----------------------------------------------------------------------------
(* The start of a run.                                                     *)

\* A run of the enrich phase works on every eligible row, a backfill on a selection.
\* pg_try_advisory_lock: a second worker gives up without a trace.
Lock(phase) ==
    /\ pc = "off" /\ pc' = phase
    /\ scope' = IF phase = "enrich" THEN Eligible ELSE {}
    /\ UNCHANGED <<content, row, request, blocked, spent, fresh, choice, reply, burnt>>

Recovered_RowsOnly(i) == request[i]

Recovered(i) ==
    [request[i] EXCEPT
       !.status = IF @ = "processing" THEN "interrupted" ELSE @,
       !.member = [r \in Row |-> IF @[r] = "processing" THEN "interrupted" ELSE @[r]]]

\* Nobody else can be working: what is in progress was interrupted.  Queued rows whose
\* content is no longer current leave the queue.
Recover ==
    /\ pc \in {"enrich", "backfill"}
    /\ pc' = IF pc = "enrich" THEN "enqueue" ELSE "choose"
    /\ row' = [r \in Row |->
         CASE row[r].status = "processing" ->
                [row[r] EXCEPT !.status = IF Current(r) THEN "retry_wait" ELSE "superseded",
                               !.wait = 0]
           [] row[r].status \in Waiting /\ ~Current(r) -> [row[r] EXCEPT !.status = "superseded"]
           [] OTHER -> row[r]]
    /\ request' = [i \in RequestId |-> Recovered(i)]
    /\ UNCHANGED <<content, blocked, run, choice, reply, burnt>>

\* A backfill previews the ready rows of its window and freezes a selection of them.
Choose ==
    /\ pc = "choose"
    /\ \E S \in SUBSET {r \in Row : /\ Current(r) /\ row[r].wait = 0
                                    /\ row[r].status \notin {"succeeded", "failed", "processing"}
                                    /\ row[r].attempts < MaxAttempts} :
         \/ S = {} /\ Forget
         \/ /\ S # {} /\ scope' = S /\ pc' = "enqueue"
            /\ UNCHANGED <<spent, fresh, choice, reply>>
    /\ UNCHANGED <<content, row, request, blocked, burnt>>

Requeued_Cached(r) == Candidate(r) /\ row[r].status \in {"none", "superseded", "succeeded"}

\* A new content is inserted, one that came back resumes where it was.
Requeued(r) == Candidate(r) /\ row[r].status \in {"none", "superseded"}

Enqueue ==
    /\ pc = "enqueue" /\ pc' = "top"
    /\ row' = [r \in Row |->
                 IF Requeued(r) THEN [row[r] EXCEPT !.status = "pending"] ELSE row[r]]
    /\ UNCHANGED <<content, request, blocked, run, choice, reply, burnt>>

-----------------------------------------------------------------------------
(* The loop of process().                                                  *)

\* next_job fails what is exhausted and selects a due row; one that fits no provider's
\* budget fails at once.
NextJob ==
    /\ pc = "top" /\ spent < MaxJobs
    /\ \E r \in Row :
         LET swept == [n \in Row |-> IF Exhausted(n) THEN [row[n] EXCEPT !.status = "failed"]
                                     ELSE row[n]]
         IN  /\ Dispatchable(r)
             /\ \/ /\ Oversize(r)
                   /\ row' = [swept EXCEPT ![r].status = "failed"]
                   /\ fresh' = FALSE
                   /\ UNCHANGED <<pc, head, tried, turn>>
                \/ /\ ~Oversize(r)
                   /\ row' = swept
                   /\ pc' = "group" /\ head' = r /\ tried' = row[r].attempts /\ turn' = 1
                   /\ UNCHANGED fresh
    /\ UNCHANGED <<content, request, blocked, scope, spent, group, reply, burnt>>

\* Nothing is due: the run is over.
NoJob ==
    /\ pc = "top" /\ spent < MaxJobs
    /\ \A r \in Row : ~Dispatchable(r)
    /\ row' = [n \in Row |-> IF Exhausted(n) THEN [row[n] EXCEPT !.status = "failed"] ELSE row[n]]
    /\ Forget
    /\ UNCHANGED <<content, request, blocked, burnt>>

\* The run has made its requests or spent its time.
EndRun ==
    /\ pc = "top" /\ (spent = MaxJobs \/ ~fresh)
    /\ Forget
    /\ UNCHANGED <<content, row, request, blocked, burnt>>

\* The request to ask of the provider in turn: followers join a row that has never been
\* tried, as far as the estimate fits.
Group ==
    /\ pc = "group" /\ pc' = "reserve"
    /\ \E S \in SUBSET {r \in Row \ {head} : Follower(r)} :
         LET p == Order[turn]
         IN  /\ Cardinality(S) < Limit[p].batch
             /\ S # {} => tried = 0 /\ Estimate(S \cup {head}) <= RequestLimit(p)
             /\ group' = S \cup {head}
    /\ UNCHANGED <<content, row, request, blocked, run, head, tried, turn, reply, burnt>>

Reservable ==
    LET p == Order[turn]
    IN  /\ blocked[p] = 0
        /\ WithinDay(p, Estimate(group)) /\ WithinMinute(p, Estimate(group))
        /\ \A r \in group : Dispatchable(r)

\* reserve_batch: the ledger, the members and their attempts in one transaction.
Reserve ==
    /\ pc = "reserve" /\ pc' = "call"
    /\ Reservable
    /\ \E i \in RequestId :
         /\ request[i].status = "none"
         /\ \A n \in RequestId : n < i => request[n].status # "none"
         /\ request' = [request EXCEPT ![i] =
              [status |-> "processing", provider |-> Order[turn],
               member |-> [r \in Row |-> IF r \in group THEN "processing" ELSE None],
               age |-> 0, charge |-> Estimate(group)]]
         /\ cur' = i
    /\ row' = [r \in Row |->
         IF r \in group
           THEN [row[r] EXCEPT !.status = "processing", !.attempts = @ + 1]
           ELSE row[r]]
    /\ spent' = spent + 1
    /\ UNCHANGED <<content, blocked, scope, fresh, choice, passed, usage, cool, burnt>>

\* A refused group shrinks; when the head alone is refused the next provider is asked.
Refused ==
    /\ pc = "reserve" /\ ~Reservable
    /\ \/ /\ \E r \in group \ {head} : group' = group \ {r}
          /\ UNCHANGED <<pc, turn>>
       \/ /\ group = {head} /\ group' = {}
          /\ turn' = turn + 1
          /\ pc' = IF turn < Len(Order) THEN "group" ELSE "wait"
    /\ UNCHANGED <<content, row, request, blocked, run, head, tried, reply, burnt>>

\* Wait for a minute's quota or a short block; not for a day's.
Wait ==
    /\ pc = "wait"
    /\ \/ /\ \E n \in DOMAIN Order : CanRetrySoon(Order[n], Cost[head[2]])
          /\ pc' = "top" /\ fresh' = FALSE
          /\ head' = None /\ tried' = 0 /\ turn' = 0 /\ group' = {}
          /\ UNCHANGED <<scope, spent, reply>>
       \/ /\ \A n \in DOMAIN Order : ~CanRetrySoon(Order[n], Cost[head[2]])
          /\ Forget
    /\ UNCHANGED <<content, row, request, blocked, burnt>>

\* The provider charges up to the estimate, which has room for the longest answer; the
\* answer may not say how much, or not come.
Call ==
    /\ pc = "call"
    /\ \E n \in 0 .. request[cur].charge :
         /\ burnt' = [burnt EXCEPT ![cur] = n]
         /\ \/ /\ \E d \in Cooldowns \cup {0} : cool' = d    \* ProviderError
               /\ passed' = {} /\ usage' = None
            \/ /\ \E S \in SUBSET group : passed' = S        \* validated, each on its own
               /\ usage' \in {n, None}
               /\ cool' = 0
    /\ pc' = "block"
    /\ UNCHANGED <<content, row, request, blocked, run, choice, cur>>

Block ==
    /\ pc = "block" /\ pc' = "finish"
    /\ blocked' = [blocked EXCEPT ![Order[turn]] = IF cool > 0 THEN cool ELSE @]
    /\ UNCHANGED <<content, row, request, run, choice, reply, burnt>>

Verdict_OneMore(r) ==
    IF r \in passed THEN "succeeded"
    ELSE IF tried + 1 > MaxAttempts THEN "failed" ELSE "retry_wait"

Verdict_Partial(r) == IF passed = group THEN "succeeded" ELSE "partial"

Verdict(r) ==
    IF r \in passed THEN "succeeded"
    ELSE IF tried + 1 >= MaxAttempts THEN "failed" ELSE "retry_wait"

Settled_Unknown(reserved) == IF usage = None THEN 0 ELSE usage

\* Usage replaces the reservation; where it is unknown the reservation stands.
Settled(reserved) == IF usage = None THEN reserved ELSE usage

\* finish_batch: members, rows and the request in one transaction.
Finish ==
    /\ pc = "finish" /\ pc' = "top"
    /\ row' = [r \in Row |->
         IF r \in group
           THEN [row[r] EXCEPT !.status = Verdict(r),
                               !.wait = IF Verdict(r) = "retry_wait" THEN RetryDelay ELSE 0,
                               !.result = IF r \in passed THEN cur ELSE 0]
           ELSE row[r]]
    /\ \E s \in RequestStatus :
         /\ IF \E v \in MemberStatus : \A r \in group : Verdict(r) = v
              THEN \A r \in group : s = Verdict(r)
              ELSE s = "partial"
         /\ request' = [request EXCEPT
              ![cur].status = s, ![cur].charge = Settled(@),
              ![cur].member = [r \in Row |-> IF r \in group THEN Verdict(r) ELSE @[r]]]
    /\ fresh' = FALSE
    /\ head' = None /\ tried' = 0 /\ turn' = 0 /\ group' = {}
    /\ cur' = 0 /\ passed' = {} /\ usage' = None /\ cool' = 0
    /\ UNCHANGED <<content, blocked, scope, spent, burnt>>

-----------------------------------------------------------------------------
(* The environment.                                                        *)

\* The worker dies, and with its connection its lock.
Crash ==
    /\ pc # "off"
    /\ Forget
    /\ UNCHANGED <<content, row, request, blocked, burnt>>

\* Parsing makes another content current, or the posting is gone or back.
ChangeContent ==
    /\ \E p \in Postings : \E c \in ContentsOf[p] \cup {None} : content' = [content EXCEPT ![p] = c]
    /\ UNCHANGED <<row, request, blocked, pc, run, choice, reply, burnt>>

Sooner(n) == IF n > 0 THEN n - 1 ELSE 0

Aged(i) ==
    IF request[i].status = "none" \/ request[i].age = Day THEN request[i]
    ELSE IF request[i].age + 1 = Day THEN [request[i] EXCEPT !.age = Day, !.charge = 0]
    ELSE [request[i] EXCEPT !.age = @ + 1]

\* No quota asks for the tokens of a request older than a day: they are forgotten here.
Tick ==
    /\ row' = [r \in Row |-> [row[r] EXCEPT !.wait = Sooner(@)]]
    /\ request' = [i \in RequestId |-> Aged(i)]
    /\ burnt' = [i \in RequestId |-> IF request'[i].age = Day THEN 0 ELSE burnt[i]]
    /\ blocked' = [p \in Providers |-> Sooner(blocked[p])]
    /\ UNCHANGED <<content, pc, run, choice, reply>>

Worker ==
    \/ Recover \/ Choose \/ Enqueue
    \/ NextJob \/ NoJob \/ EndRun \/ Group \/ Reserve \/ Refused \/ Wait
    \/ Call \/ Block \/ Finish

Next == (\E phase \in {"enrich", "backfill"} : Lock(phase)) \/ Worker \/ Crash \/ ChangeContent \/ Tick

Spec == Init /\ [][Next]_vars

\* The phase is triggered again and again, a live worker goes on, time passes; deaths
\* are finitely many (one where the run ends anyway is its end), and the postings
\* come to rest.
FairSpec ==
    /\ Spec
    /\ SF_vars(Lock("enrich")) /\ WF_vars(Worker) /\ WF_vars(Tick)
    /\ <>[][Crash => EndRun \/ NoJob \/ Wait \/ Choose]_vars
    /\ <>[][UNCHANGED content]_vars

-----------------------------------------------------------------------------
(* Properties.                                                             *)

QueueOK ==
    /\ content \in CurrentContent
    /\ row \in [Row -> QueueRow]
    /\ request \in [RequestId -> RequestRow]
    /\ blocked \in [Providers -> Nat]
    /\ burnt \in [RequestId -> Nat]

WorkerOK ==
    /\ pc \in {"off", "enrich", "backfill", "choose", "enqueue", "top", "group", "reserve",
               "wait", "call", "block", "finish"}
    /\ scope \subseteq Row /\ spent \in Nat /\ fresh \in BOOLEAN
    /\ head \in Row \cup {None} /\ tried \in Nat /\ turn \in Nat /\ group \subseteq Row
    /\ cur \in RequestId \cup {0} /\ passed \subseteq Row
    /\ usage \in Nat \cup {None} /\ cool \in Nat

TypeOK == QueueOK /\ WorkerOK

\* Queue and ledger agree: every request of a row is one of its attempts, a row is in
\* progress exactly while a request on it is, and its answer is of a request it passed.
LedgerAgrees ==
    \A r \in Row :
      /\ row[r].attempts = Cardinality({i \in RequestId : request[i].member[r] # None})
      /\ row[r].status = "processing" <=>
           \E i \in RequestId : /\ request[i].status = "processing"
                                /\ request[i].member[r] = "processing"
      /\ row[r].status = "succeeded" =>
           row[r].result # 0 /\ request[row[r].result].member[r] = "succeeded"

\* A content is asked about at most MaxAttempts times, and one whose attempts are spent
\* waits for another only if its last request was interrupted.
AttemptBudget ==
    \A r \in Row :
      /\ row[r].attempts <= MaxAttempts
      /\ row[r].status = "retry_wait" /\ row[r].attempts = MaxAttempts =>
           \E i \in RequestId : /\ request[i].member[r] = "interrupted"
                                /\ \A n \in RequestId : n > i => request[n].member[r] = None

\* The queue, read beside the ledger, says of every content what was asked and answered.
QueueAgrees == TypeOK /\ LedgerAgrees /\ AttemptBudget

\* In no minute, and in no day where the budget is enforced, are more requests reserved
\* with a provider than its configuration allows, over crashes, shrinking and fallback.
RequestQuota ==
    \A p \in Providers :
      /\ Cardinality(Window(p, Minute)) <= Limit[p].rpm
      /\ Limit[p].enforce => Cardinality(Window(p, Day)) <= Limit[p].rpd

\* Nor does a provider really charge more tokens, whatever became of the answers, as long
\* as no request costs more than its estimate.
TokenQuota ==
    \A p \in Providers :
      /\ SumFunctionOnSet(burnt, Window(p, Minute)) <= Limit[p].tpm
      /\ Limit[p].enforce => SumFunctionOnSet(burnt, Window(p, Day)) <= Limit[p].tpd

\* No window of any provider is overdrawn.
QuotaHolds == RequestQuota /\ TokenQuota

\* Jobs asked about together have never been asked about before.
RetriesAlone ==
    \A i \in RequestId :
      LET members == {r \in Row : request[i].member[r] # None}
      IN  Cardinality(members) > 1 =>
            \A r \in members : \A n \in RequestId : n < i => request[n].member[r] = None

\* An answer that was validated is cached for good: no recovery, requeue, or return
\* of the content asks again or takes it away.
AnswerIsKept ==
    [][\A r \in Row : row[r].status = "succeeded" =>
         row'[r].status = "succeeded" /\ row'[r].result = row[r].result
           /\ row'[r].attempts = row[r].attempts]_vars

\* Once postings rest, every eligible current content is answered or given up.
EveryContentSettles ==
    \A r \in Eligible :
      <>[](Current(r) => row[r].status \in {"succeeded", "failed"})

=============================================================================
