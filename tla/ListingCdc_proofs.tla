-------------------------- MODULE ListingCdc_proofs --------------------------
(***************************************************************************)
(* Proofs about ListingCdc, for any processes, jobs, targets, scopes and   *)
(* number of runs.                                                         *)
(***************************************************************************)
EXTENDS ListingCdc, FiniteSetTheorems, TLAPS

-----------------------------------------------------------------------------
(* Types.                                                                  *)

\* A process past its start owns a row of the run table.
LEMMA OwnRun ==
  ASSUME TypeOK, Owners, NEW p \in Runners, pc[p] \notin {"idle", "start"}
  PROVE  rid[p] \in RunId
BY DEF TypeOK, Processes, Owners

LEMMA NoConfType == NoConf \in Conf
<1>1. \E c \in Conf : TRUE
  <2>1. PICK s \in Scopes : TRUE
    BY ScopesAssumption
  <2>2. [phase |-> "detail", enabled |-> FALSE, scope |-> s] \in Conf
    BY <2>1 DEF Conf
  <2>3. QED BY <2>2
<1>2. QED BY <1>1 DEF NoConf

LEMMA InitType == Init => TypeOK
<1> SUFFICES ASSUME Init PROVE TypeOK
  OBVIOUS
<1>1. runs \in RunTable
  BY DEF Init, RunTable, RunRow
<1>2. cover \in CoverTable
  BY DEF Init, CoverTable, CoverRow
<1>3. listing \in ListingTable
  BY DEF Init, ListingTable, ListingRow
<1>4. /\ source \in [scope : Scopes \cup {None}, applied : Nat]
      /\ events \subseteq Event /\ observed \in [RunId -> SUBSET Jobs]
  BY DEF Init
<1>5. Processes
  BY NoConfType DEF Init, Processes
<1>6. QED BY <1>1, <1>2, <1>3, <1>4, <1>5 DEF TypeOK, Tables

\* The process variables that an action may change, each in its own way.
LEMMA GotoType ==
  ASSUME Processes, NEW p \in Runners, NEW s, Goto(p, s),
         s \in {"idle", "start", "prepare", "targets", "pages", "coverage", "finish", "release"}
  PROVE  pc' \in [Runners -> {"idle", "start", "prepare", "targets", "pages", "coverage",
                              "finish", "release"}]
BY DEF Processes, Goto

LEMMA ConnectType ==
  ASSUME Processes, NEW p \in Runners, Connect(p)
  PROVE  slip' \in [Runners -> BOOLEAN]
BY DEF Processes, Connect

LEMMA SourceRunType ==
  ASSUME TypeOK, NEW p \in Runners, SourceRun(p)
  PROVE  TypeOK'
<1>1. pc' \in [Runners -> {"idle", "start", "prepare", "targets", "pages", "coverage",
                              "finish", "release"}]
  BY GotoType DEF SourceRun, TypeOK
<1>2. conf' \in [Runners -> Conf]
  BY DEF SourceRun, TypeOK, Processes
<1>3. Processes'
  BY <1>1, <1>2 DEF SourceRun, TypeOK, Processes
<1>4. QED BY <1>3 DEF SourceRun, TypeOK, Tables, tables

LEMMA LeaveRunType ==
  ASSUME TypeOK, NEW p \in Runners, LeaveRun(p)
  PROVE  TypeOK'
<1>1. pc' \in [Runners -> {"idle", "start", "prepare", "targets", "pages", "coverage",
                              "finish", "release"}]
  BY GotoType DEF LeaveRun, TypeOK
<1>2. /\ conf' \in [Runners -> Conf] /\ rid' \in [Runners -> RunId \cup {0}]
  BY NoConfType DEF LeaveRun, TypeOK, Processes
<1>3. /\ target' \in [Runners -> Targets \cup {None}]
      /\ full' \in [Runners -> BOOLEAN] /\ slip' \in [Runners -> BOOLEAN]
  BY DEF LeaveRun, TypeOK, Processes
<1>4. holder' \in Runners \cup {None}
  BY DEF LeaveRun, TypeOK, Processes
<1>5. Processes'
  BY <1>1, <1>2, <1>3, <1>4 DEF Processes
<1>6. QED BY <1>5 DEF LeaveRun, TypeOK, Tables, tables

LEMMA LoseSessionType ==
  ASSUME TypeOK, NEW p \in Runners, LoseSession(p)
  PROVE  TypeOK'
<1>1. slip' \in [Runners -> BOOLEAN]
  BY DEF LoseSession, TypeOK, Processes
<1>2. Processes'
  BY <1>1 DEF LoseSession, TypeOK, Processes, memory
<1>3. QED BY <1>2 DEF LoseSession, TypeOK, Tables, tables

LEMMA StartRunType ==
  ASSUME TypeOK, NEW p \in Runners, StartRun(p)
  PROVE  TypeOK'
<1>1. PICK r \in RunId : /\ runs' = [runs EXCEPT ![r].status = "running"]
                         /\ rid' = [rid EXCEPT ![p] = r]
  BY DEF StartRun
<1>2. runs' \in RunTable
  BY <1>1 DEF TypeOK, Tables, RunTable, RunRow
<1>3. rid' \in [Runners -> RunId \cup {0}]
  BY <1>1 DEF TypeOK, Processes
<1>4. Processes'
  BY <1>3, GotoType, ConnectType DEF StartRun, TypeOK, Processes
<1>5. QED BY <1>2, <1>4 DEF StartRun, TypeOK, Tables

LEMMA PrepareCdcRunType ==
  ASSUME TypeOK, NEW p \in Runners, PrepareCdcRun(p)
  PROVE  TypeOK'
<1> DEFINE r == rid[p]
           c == conf[p]
           on == c.enabled /\ c.phase = "discovery"
           new(n) ==
             IF n = r
               THEN [runs[n] EXCEPT !.phase = c.phase,
                                    !.scope = IF on THEN c.scope ELSE None,
                                    !.cdc = IF on THEN "pending" ELSE "not_applicable"]
             ELSE IF Interrupted(r, n) THEN [runs[n] EXCEPT !.cdc = "skipped"]
             ELSE runs[n]
<1>1. c \in Conf
  BY DEF TypeOK, Processes
<1>2. ASSUME NEW n \in RunId PROVE new(n) \in RunRow
  <2>1. runs[n] \in RunRow
    BY DEF TypeOK, Tables, RunTable
  <2>2. CASE n = r
    <3>1. c.phase \in {"discovery", "detail"} /\ c.scope \in Scopes
      BY <1>1 DEF Conf
    <3> HIDE DEF on, c
    <3>2. QED BY <2>1, <2>2, <3>1 DEF RunRow
  <2>3. CASE n # r
    <3>1. [runs[n] EXCEPT !.cdc = "skipped"] \in RunRow
      BY <2>1 DEF RunRow, Decided
    <3>2. QED BY <2>1, <2>3, <3>1
  <2>4. QED BY <2>2, <2>3
<1>3. runs' = [n \in RunId |-> new(n)]
  BY DEF PrepareCdcRun
<1> HIDE DEF new
<1>4. runs' \in RunTable
  BY <1>2, <1>3 DEF RunTable
<1>5. Processes'
  <2>1. \E s \in {"targets", "finish"} : Goto(p, s)
    BY DEF PrepareCdcRun
  <2>2. QED BY <2>1, GotoType, ConnectType DEF PrepareCdcRun, TypeOK, Processes, memory
<1>6. QED BY <1>4, <1>5 DEF PrepareCdcRun, TypeOK, Tables

LEMMA FinishRunType ==
  ASSUME TypeOK, Owners, NEW p \in Runners, FinishRun(p)
  PROVE  TypeOK'
<1>1. rid[p] \in RunId
  BY OwnRun DEF FinishRun
<1>2. runs' \in RunTable
  <2>1. runs[rid[p]] \in RunRow
    BY <1>1 DEF TypeOK, Tables, RunTable
  <2>2. QED BY <1>1, <2>1 DEF FinishRun, AfterFinish, TypeOK, Tables, RunTable, RunRow, Decided
<1>3. Processes'
  BY GotoType, ConnectType DEF FinishRun, TypeOK, Processes, memory
<1>4. QED BY <1>2, <1>3 DEF FinishRun, TypeOK, Tables

LEMMA CoverStatusType ==
  ASSUME cover \in CoverTable, NEW r \in RunId, NEW t,
         NEW s \in {"none", "running", "completed", "stopped"}
  PROVE  [cover EXCEPT ![r][t].status = s] \in CoverTable
<1>1. cover[r] \in [Targets -> CoverRow]
  BY DEF CoverTable
<1>2. [cover[r] EXCEPT ![t].status = s] \in [Targets -> CoverRow]
  BY <1>1 DEF CoverRow
<1>3. QED BY <1>2 DEF CoverTable

LEMMA CoverCompleteType ==
  ASSUME cover \in CoverTable, NEW r \in RunId, NEW t, NEW b \in BOOLEAN
  PROVE  [cover EXCEPT ![r][t].complete = b] \in CoverTable
<1>1. cover[r] \in [Targets -> CoverRow]
  BY DEF CoverTable
<1>2. [cover[r] EXCEPT ![t].complete = b] \in [Targets -> CoverRow]
  BY <1>1 DEF CoverRow
<1>3. QED BY <1>2 DEF CoverTable

LEMMA StartDiscoveryTargetType ==
  ASSUME TypeOK, Owners, NEW p \in Runners, StartDiscoveryTarget(p)
  PROVE  TypeOK'
<1>1. rid[p] \in RunId
  BY OwnRun DEF StartDiscoveryTarget
<1>2. PICK t \in TargetsOf[conf[p].scope] :
        /\ cover' = [cover EXCEPT ![rid[p]][t].status = "running"]
        /\ target' = [target EXCEPT ![p] = t]
  BY DEF StartDiscoveryTarget
<1>3. t \in Targets
  <2>1. conf[p].scope \in Scopes
    BY DEF TypeOK, Processes, Conf
  <2>2. QED BY <2>1, ScopesAssumption
<1>4. cover' \in CoverTable
  BY <1>1, <1>2, CoverStatusType DEF TypeOK, Tables
<1>5. target' \in [Runners -> Targets \cup {None}]
  BY <1>2, <1>3 DEF TypeOK, Processes
<1>6. Processes'
  BY <1>5, GotoType, ConnectType DEF StartDiscoveryTarget, TypeOK, Processes
<1>7. QED BY <1>4, <1>6 DEF StartDiscoveryTarget, TypeOK, Tables

LEMMA UpsertDiscoveredJobsType ==
  ASSUME TypeOK, Owners, NEW p \in Runners, NEW S \in SUBSET Jobs,
         UpsertDiscoveredJobs(p, S)
  PROVE  TypeOK'
<1>1. rid[p] \in RunId /\ rid[p] \in Nat
  <2>1. rid[p] \in RunId
    BY OwnRun DEF UpsertDiscoveredJobs
  <2>2. QED BY <2>1, MaxRunsAssumption DEF RunId
<1>2. ASSUME NEW j \in Jobs PROVE Sighting(rid[p], j) \in ListingRow /\ listing[j] \in ListingRow
  <2>1. listing[j] \in ListingRow
    BY DEF TypeOK, Tables, ListingTable
  <2>2. QED BY <1>1, <2>1 DEF Sighting, ListingRow
<1>3. listing' \in ListingTable
  BY <1>2 DEF UpsertDiscoveredJobs, ListingTable
<1>4. observed' \in [RunId -> SUBSET Jobs]
  BY <1>1 DEF UpsertDiscoveredJobs, TypeOK, Tables
<1>5. Processes'
  BY ConnectType DEF UpsertDiscoveredJobs, TypeOK, Processes, memory
<1>6. QED BY <1>3, <1>4, <1>5 DEF UpsertDiscoveredJobs, TypeOK, Tables

LEMMA FinishDiscoveryTargetType ==
  ASSUME TypeOK, Owners, NEW p \in Runners, FinishDiscoveryTarget(p)
  PROVE  TypeOK'
<1>1. rid[p] \in RunId
  BY OwnRun DEF FinishDiscoveryTarget
<1>2. PICK s \in {"completed", "stopped"}, c \in BOOLEAN :
        /\ cover' = [cover EXCEPT ![rid[p]][target[p]].status = s]
        /\ full' = [full EXCEPT ![p] = c]
  BY DEF FinishDiscoveryTarget
<1>3. cover' \in CoverTable
  BY <1>1, <1>2, CoverStatusType DEF TypeOK, Tables
<1>4. full' \in [Runners -> BOOLEAN]
  BY <1>2 DEF TypeOK, Processes
<1>5. Processes'
  <2>1. \E x \in {"coverage", "targets"} : Goto(p, x)
    BY DEF FinishDiscoveryTarget
  <2>2. QED BY <1>4, <2>1, GotoType, ConnectType DEF FinishDiscoveryTarget, TypeOK, Processes
<1>6. QED BY <1>3, <1>5 DEF FinishDiscoveryTarget, TypeOK, Tables

LEMMA RecordDiscoveryCoverageType ==
  ASSUME TypeOK, Owners, NEW p \in Runners, RecordDiscoveryCoverage(p)
  PROVE  TypeOK'
<1>1. rid[p] \in RunId
  BY OwnRun DEF RecordDiscoveryCoverage
<1>2. full[p] \in BOOLEAN
  BY DEF TypeOK, Processes
<1>3. cover' \in CoverTable
  BY <1>1, <1>2, CoverCompleteType DEF RecordDiscoveryCoverage, TypeOK, Tables
<1>4. Processes'
  BY GotoType, ConnectType DEF RecordDiscoveryCoverage, TypeOK, Processes, memory
<1>5. QED BY <1>3, <1>4 DEF RecordDiscoveryCoverage, TypeOK, Tables

\* A run that qualifies has a scope, and its reconciliation is well typed.
LEMMA ReconciledType ==
  ASSUME TypeOK, NEW r \in RunId, runs[r].scope \in Scopes, NEW j \in Jobs
  PROVE  Reconciled(r, j) \in ListingRow
<1>1. listing[j] \in ListingRow /\ r \in Nat
  BY MaxRunsAssumption DEF TypeOK, Tables, ListingTable, RunId
<1>2. [listing[j] EXCEPT !.status = "active", !.scope = runs[r].scope, !.by = 0] \in ListingRow
  BY <1>1 DEF ListingRow
<1>3. [listing[j] EXCEPT !.status = "unknown", !.scope = None, !.by = 0] \in ListingRow
  BY <1>1 DEF ListingRow
<1>4. [listing[j] EXCEPT !.status = "expired", !.by = r] \in ListingRow
  BY <1>1 DEF ListingRow
<1>5. QED BY <1>1, <1>2, <1>3, <1>4 DEF Reconciled

\* The only step that touches the decision of its run, in its three outcomes.
LEMMA FinalizeCdcCases ==
  ASSUME TypeOK, Owners, Register, NEW p \in Runners, FinalizeCdc(p)
  PROVE  \/ UNCHANGED <<runs, listing, source, events>>
         \/ /\ runs[rid[p]].cdc = "pending"
            /\ runs' = [runs EXCEPT ![rid[p]].cdc = "skipped"]
            /\ UNCHANGED <<listing, source, events>>
         \/ /\ runs[rid[p]].cdc = "pending"
            /\ runs[rid[p]].scope \in Scopes
            /\ Qualifies(rid[p])
            /\ ApplyCdc(rid[p])
<1>1. rid[p] \in RunId
  BY OwnRun DEF FinalizeCdc
<1>2. QED BY <1>1 DEF FinalizeCdc, Register

LEMMA CardinalityInNat ==
  ASSUME NEW S \in SUBSET Jobs, IsFiniteSet(Jobs)
  PROVE  Cardinality(S) \in Nat
BY FS_Subset, FS_CardinalityType

LEMMA EventsOfType ==
  ASSUME NEW r \in RunId
  PROVE  EventsOf(r) \subseteq Event /\ \A e \in EventsOf(r) : e.run = r
<1>1. Gone(r) \subseteq Jobs /\ Back(r) \subseteq Jobs
  BY DEF Gone, Back, Tracked
<1>2. QED BY <1>1 DEF EventsOf, Event

LEMMA ApplyCdcType ==
  ASSUME Tables, TypeOK, NEW r \in RunId, runs[r].scope \in Scopes, ApplyCdc(r),
         UNCHANGED <<cover, observed>>
  PROVE  Tables'
<1>1. listing' \in ListingTable
  BY ReconciledType DEF ApplyCdc, ListingTable
<1>2. source' \in [scope : Scopes \cup {None}, applied : Nat]
  BY MaxRunsAssumption DEF ApplyCdc, RunId
<1>3. events' \subseteq Event
  BY EventsOfType DEF ApplyCdc, Tables
<1>4. runs' \in RunTable
  <2>1. Gone(r) \subseteq Jobs /\ Back(r) \subseteq Jobs
    BY DEF Gone, Back, Tracked
  <2>2. Cardinality(Gone(r)) \in Nat /\ Cardinality(Back(r)) \in Nat
    BY <2>1, CardinalityInNat, JobsAssumption
  <2>3. (IF Baseline(r) THEN "baseline" ELSE "applied") \in {"baseline", "applied"}
    OBVIOUS
  <2>4. runs[r] \in RunRow
    BY DEF Tables, RunTable
  <2> DEFINE d == IF Baseline(r) THEN "baseline" ELSE "applied"
             g == Cardinality(Gone(r))
             b == Cardinality(Back(r))
  <2>5. runs' = [runs EXCEPT ![r].cdc = d, ![r].expired = g, ![r].reappeared = b]
    BY DEF ApplyCdc
  <2> HIDE DEF d, g, b
  <2>6. [runs[r] EXCEPT !.cdc = d, !.expired = g, !.reappeared = b] \in RunRow
    <3>1. d \in {"baseline", "applied"} /\ g \in Nat /\ b \in Nat
      BY <2>2, <2>3 DEF d, g, b
    <3>2. QED BY <2>4, <3>1 DEF RunRow, Decided
  <2>7. runs' = [runs EXCEPT ![r] = [runs[r] EXCEPT !.cdc = d, !.expired = g, !.reappeared = b]]
    BY <2>5
  <2>8. QED BY <2>6, <2>7 DEF Tables, RunTable
<1>5. QED BY <1>1, <1>2, <1>3, <1>4 DEF Tables

LEMMA FinalizeCdcType ==
  ASSUME TypeOK, Owners, Register, NEW p \in Runners, FinalizeCdc(p)
  PROVE  TypeOK'
<1>1. rid[p] \in RunId
  BY OwnRun DEF FinalizeCdc
<1>2. Processes'
  BY GotoType, ConnectType DEF FinalizeCdc, TypeOK, Processes, memory
<1>3. UNCHANGED <<cover, observed>>
  BY DEF FinalizeCdc
<1>4. Tables'
  <2>1. CASE UNCHANGED <<runs, listing, source, events>>
    BY <1>3, <2>1 DEF TypeOK, Tables
  <2>2. CASE /\ runs' = [runs EXCEPT ![rid[p]].cdc = "skipped"]
             /\ UNCHANGED <<listing, source, events>>
    <3>1. runs' \in RunTable
      BY <1>1, <2>2 DEF TypeOK, Tables, RunTable, RunRow, Decided
    <3>2. QED BY <1>3, <2>2, <3>1 DEF TypeOK, Tables
  <2>3. CASE runs[rid[p]].scope \in Scopes /\ ApplyCdc(rid[p])
    BY <1>1, <1>3, <2>3, ApplyCdcType DEF TypeOK
  <2>4. QED BY <2>1, <2>2, <2>3, FinalizeCdcCases
<1>5. QED BY <1>2, <1>4 DEF TypeOK

LEMMA TypeStep ==
  ASSUME TypeOK, Owners, Register, [Next]_vars
  PROVE  TypeOK'
<1>1. CASE UNCHANGED vars
  BY <1>1 DEF vars, tables, memory, TypeOK, Tables, Processes
<1>2. ASSUME NEW p \in Runners, Step(p) PROVE TypeOK'
  BY <1>2, SourceRunType, LeaveRunType, LoseSessionType, StartRunType, PrepareCdcRunType,
     FinishRunType, StartDiscoveryTargetType, FinishDiscoveryTargetType,
     RecordDiscoveryCoverageType, UpsertDiscoveredJobsType, FinalizeCdcType DEF Step
<1>3. QED BY <1>1, <1>2 DEF Next

-----------------------------------------------------------------------------
(* Who owns which run, and what a run has gone through.                    *)

\* A step that moves one process along its run, and changes no run's status but to
\* end it, keeps the owners.
LEMMA OwnersMove ==
  ASSUME TypeOK, Owners, NEW p \in Runners, NEW s, Goto(p, s), rid' = rid,
         pc[p] \notin {"idle", "start"}, s \notin {"idle", "start", "prepare"},
         s \in {"targets", "pages", "coverage"} => runs'[rid[p]].phase = "discovery",
         \A n \in RunId : n # rid[p] => runs'[n].phase = runs[n].phase,
         \A n \in RunId : runs[n].status # "none" => runs'[n].status # "none"
  PROVE  Owners'
<1>1. \A q \in Runners : pc'[q] = IF q = p THEN s ELSE pc[q]
  BY DEF Goto, TypeOK, Processes
<1>2. \A q \in Runners : rid[q] # 0 => rid[q] \in RunId
  BY DEF TypeOK, Processes
<1>3. ASSUME NEW q \in Runners
      PROVE  /\ rid[q] = 0 <=> pc'[q] \in {"idle", "start"}
             /\ rid[q] # 0 => runs'[rid[q]].status # "none"
             /\ pc'[q] = "prepare" => runs'[rid[q]].phase = "none"
             /\ pc'[q] \in {"targets", "pages", "coverage"} =>
                  runs'[rid[q]].phase = "discovery"
  <2>1. CASE q = p
    BY <1>1, <1>2, <2>1 DEF Owners
  <2>2. CASE q # p
    <3>1. rid[q] # 0 => rid[q] # rid[p]
      BY <2>2 DEF Owners
    <3>2. QED BY <1>1, <1>2, <2>2, <3>1 DEF Owners
  <2>3. QED BY <2>1, <2>2
<1>4. QED BY <1>3 DEF Owners

LEMMA SourceRunOwners ==
  ASSUME TypeOK, Owners, Register, NEW p \in Runners, SourceRun(p)
  PROVE  Owners' /\ Register'
<1>1. \A q \in Runners : pc'[q] = IF q = p THEN "start" ELSE pc[q]
  BY DEF SourceRun, Goto, TypeOK, Processes
<1>2. pc[p] = "idle" /\ rid' = rid /\ runs' = runs /\ observed' = observed
  BY DEF SourceRun, tables
<1>3. QED BY <1>1, <1>2 DEF Owners, Register

LEMMA LeaveRunOwners ==
  ASSUME TypeOK, Owners, Register, NEW p \in Runners, LeaveRun(p)
  PROVE  Owners' /\ Register'
<1>1. \A q \in Runners : /\ pc'[q] = IF q = p THEN "idle" ELSE pc[q]
                         /\ rid'[q] = IF q = p THEN 0 ELSE rid[q]
  BY DEF LeaveRun, Goto, TypeOK, Processes
<1>2. runs' = runs /\ observed' = observed
  BY DEF LeaveRun, tables
<1>3. QED BY <1>1, <1>2 DEF Owners, Register

LEMMA LoseSessionOwners ==
  ASSUME TypeOK, Owners, Register, NEW p \in Runners, LoseSession(p)
  PROVE  Owners' /\ Register'
BY DEF LoseSession, tables, memory, Owners, Register

LEMMA StartRunOwners ==
  ASSUME TypeOK, Owners, Register, NEW p \in Runners, StartRun(p)
  PROVE  Owners' /\ Register'
<1>1. PICK r \in RunId : /\ runs[r].status = "none"
                         /\ runs' = [runs EXCEPT ![r].status = "running"]
                         /\ rid' = [rid EXCEPT ![p] = r]
  BY DEF StartRun
<1>2. r # 0
  BY MaxRunsAssumption DEF RunId
<1>3. \A q \in Runners : /\ pc'[q] = IF q = p THEN "prepare" ELSE pc[q]
                         /\ rid'[q] = IF q = p THEN r ELSE rid[q]
  BY <1>1 DEF StartRun, Goto, TypeOK, Processes
<1>4. \A n \in RunId : /\ runs'[n].status = IF n = r THEN "running" ELSE runs[n].status
                       /\ runs'[n].phase = runs[n].phase
                       /\ runs'[n].cdc = runs[n].cdc
                       /\ runs'[n].scope = runs[n].scope
  BY <1>1 DEF TypeOK, Tables, RunTable, RunRow
<1>5. \A q \in Runners : rid[q] # 0 => rid[q] \in RunId /\ rid[q] # r
  BY <1>1 DEF Owners, TypeOK, Processes
<1>6. runs[r].phase = "none" /\ pc[p] = "start"
  BY <1>1 DEF Register, StartRun
<1>7. Owners'
  BY <1>2, <1>3, <1>4, <1>5, <1>6 DEF Owners
<1>8. observed' = observed
  BY DEF StartRun
<1>9. Register'
  BY <1>4, <1>6, <1>8 DEF Register
<1>10. QED BY <1>7, <1>9

\* Preparing a run sets its own phase and scope, and skips pending ones before it.
LEMMA PrepareCdcRunEffect ==
  ASSUME TypeOK, Owners, NEW p \in Runners, PrepareCdcRun(p)
  PROVE  \A n \in RunId :
           /\ runs'[n].status = runs[n].status
           /\ runs'[n].expired = runs[n].expired
           /\ runs'[n].reappeared = runs[n].reappeared
           /\ n # rid[p] =>
                /\ runs'[n].phase = runs[n].phase
                /\ runs'[n].scope = runs[n].scope
                /\ runs'[n].cdc = IF Interrupted(rid[p], n) THEN "skipped" ELSE runs[n].cdc
           /\ n = rid[p] =>
                /\ runs'[n].phase = conf[p].phase
                /\ runs'[n].cdc \in {"pending", "not_applicable"}
                /\ runs'[n].cdc = "pending" =>
                     runs'[n].phase = "discovery" /\ runs'[n].scope \in Scopes
<1> DEFINE c == conf[p]
           on == c.enabled /\ c.phase = "discovery"
           mine(n) == [runs[n] EXCEPT !.phase = c.phase,
                                      !.scope = IF on THEN c.scope ELSE None,
                                      !.cdc = IF on THEN "pending" ELSE "not_applicable"]
<1>1. c \in Conf
  BY DEF TypeOK, Processes
<1>2. ASSUME NEW n \in RunId
      PROVE  /\ mine(n).status = runs[n].status
             /\ mine(n).expired = runs[n].expired
             /\ mine(n).reappeared = runs[n].reappeared
             /\ mine(n).phase = c.phase
             /\ mine(n).cdc \in {"pending", "not_applicable"}
             /\ mine(n).cdc = "pending" => c.phase = "discovery" /\ mine(n).scope \in Scopes
  <2>1. runs[n] \in RunRow
    BY DEF TypeOK, Tables, RunTable
  <2>2. on => c.phase = "discovery" /\ c.scope \in Scopes
    BY <1>1 DEF Conf
  <2> HIDE DEF on, c
  <2>3. QED BY <2>1, <2>2 DEF RunRow
<1>3. ASSUME NEW n \in RunId
      PROVE  runs'[n] = IF n = rid[p] THEN mine(n)
                        ELSE IF Interrupted(rid[p], n) THEN [runs[n] EXCEPT !.cdc = "skipped"]
                        ELSE runs[n]
  BY DEF PrepareCdcRun
<1> HIDE DEF mine, c
<1>4. ASSUME NEW n \in RunId, n # rid[p]
      PROVE  /\ runs'[n].status = runs[n].status
             /\ runs'[n].expired = runs[n].expired
             /\ runs'[n].reappeared = runs[n].reappeared
             /\ runs'[n].phase = runs[n].phase
             /\ runs'[n].scope = runs[n].scope
             /\ runs'[n].cdc = IF Interrupted(rid[p], n) THEN "skipped" ELSE runs[n].cdc
  <2>1. runs[n] \in RunRow
    BY DEF TypeOK, Tables, RunTable
  <2>2. QED BY <1>3, <1>4, <2>1 DEF RunRow
<1>5. ASSUME NEW n \in RunId, n = rid[p]
      PROVE  /\ runs'[n].status = runs[n].status
             /\ runs'[n].expired = runs[n].expired
             /\ runs'[n].reappeared = runs[n].reappeared
             /\ runs'[n].phase = c.phase
             /\ runs'[n].cdc \in {"pending", "not_applicable"}
             /\ runs'[n].cdc = "pending" => c.phase = "discovery" /\ runs'[n].scope \in Scopes
  <2>1. runs'[n] = mine(n)
    BY <1>3, <1>5
  <2>2. QED BY <1>2, <2>1
<1>6. SUFFICES ASSUME NEW n \in RunId
               PROVE  /\ runs'[n].status = runs[n].status
                      /\ runs'[n].expired = runs[n].expired
                      /\ runs'[n].reappeared = runs[n].reappeared
                      /\ n # rid[p] =>
                           /\ runs'[n].phase = runs[n].phase
                           /\ runs'[n].scope = runs[n].scope
                           /\ runs'[n].cdc = IF Interrupted(rid[p], n) THEN "skipped"
                                             ELSE runs[n].cdc
                      /\ n = rid[p] =>
                           /\ runs'[n].phase = conf[p].phase
                           /\ runs'[n].cdc \in {"pending", "not_applicable"}
                           /\ runs'[n].cdc = "pending" =>
                                runs'[n].phase = "discovery" /\ runs'[n].scope \in Scopes
  OBVIOUS
<1>7. CASE n # rid[p]
  BY <1>4, <1>7
<1>8. CASE n = rid[p]
  <2>1. c = conf[p]
    BY DEF c
  <2>2. QED BY <1>5, <1>8, <2>1
<1>9. QED BY <1>7, <1>8

LEMMA PrepareCdcRunOwners ==
  ASSUME TypeOK, Owners, Register, NEW p \in Runners, PrepareCdcRun(p)
  PROVE  Owners' /\ Register'
<1>1. rid[p] \in RunId /\ runs[rid[p]].status # "none" /\ runs[rid[p]].phase = "none"
  <2>1. pc[p] = "prepare"
    BY DEF PrepareCdcRun
  <2>2. rid[p] \in RunId
    BY <2>1, OwnRun
  <2>3. rid[p] # 0
    BY <2>2, MaxRunsAssumption DEF RunId
  <2>4. QED BY <2>1, <2>2, <2>3 DEF Owners
<1>2. /\ pc[p] = "prepare" /\ rid' = rid /\ observed' = observed
      /\ Goto(p, IF conf[p].phase = "discovery" THEN "targets" ELSE "finish")
  BY DEF PrepareCdcRun, memory
<1>3. Owners'
  <2>1. CASE conf[p].phase = "discovery"
    BY <1>1, <1>2, <2>1, PrepareCdcRunEffect, OwnersMove
  <2>2. CASE conf[p].phase # "discovery"
    BY <1>1, <1>2, <2>2, PrepareCdcRunEffect, OwnersMove
  <2>3. QED BY <2>1, <2>2
<1>4. conf[p].phase # "none"
  BY DEF TypeOK, Processes, Conf
<1>5. Register'
  <2> SUFFICES ASSUME NEW n \in RunId
               PROVE  /\ runs'[n].status = "none" => runs'[n].phase = "none"
                      /\ runs'[n].phase = "none" => runs'[n].cdc = "not_applicable"
                      /\ runs'[n].cdc = "pending" =>
                           runs'[n].phase = "discovery" /\ runs'[n].scope \in Scopes
                      /\ observed[n] # {} => runs'[n].phase = "discovery"
    BY <1>2 DEF Register
  <2>1. CASE n = rid[p]
    <3>1. observed[n] = {}
      BY <1>1, <2>1 DEF Register
    <3>2. QED BY <1>1, <1>4, <2>1, <3>1, PrepareCdcRunEffect
  <2>2. CASE n # rid[p]
    <3>1. CASE Interrupted(rid[p], n)
      BY <2>2, <3>1, PrepareCdcRunEffect DEF Register, Interrupted
    <3>2. CASE ~Interrupted(rid[p], n)
      BY <2>2, <3>2, PrepareCdcRunEffect DEF Register
    <3>3. QED BY <3>1, <3>2
  <2>3. QED BY <2>1, <2>2
<1>6. QED BY <1>3, <1>5

\* finish_run ends its run and decides it only if it was undecided.
LEMMA FinishRunEffect ==
  ASSUME TypeOK, Owners, NEW p \in Runners, FinishRun(p)
  PROVE  /\ rid[p] \in RunId
         /\ \A n \in RunId :
              /\ runs'[n].phase = runs[n].phase
              /\ runs'[n].scope = runs[n].scope
              /\ runs'[n].expired = runs[n].expired
              /\ runs'[n].reappeared = runs[n].reappeared
              /\ runs'[n].status = IF n = rid[p] THEN "ended" ELSE runs[n].status
              /\ runs'[n].cdc = IF n = rid[p] /\ runs[n].cdc = "pending" THEN "skipped"
                                ELSE runs[n].cdc
<1>1. rid[p] \in RunId
  BY OwnRun DEF FinishRun
<1>2. \A n \in RunId : runs[n] \in RunRow
  BY DEF TypeOK, Tables, RunTable
<1>3. QED BY <1>1, <1>2 DEF FinishRun, AfterFinish, TypeOK, Tables, RunTable, RunRow

LEMMA FinishRunOwners ==
  ASSUME TypeOK, Owners, Register, NEW p \in Runners, FinishRun(p)
  PROVE  Owners' /\ Register'
<1>1. /\ pc[p] \notin {"idle", "start"} /\ Goto(p, "release")
      /\ rid' = rid /\ observed' = observed
  BY DEF FinishRun, memory
<1>2. Owners'
  BY <1>1, FinishRunEffect, OwnersMove
<1>3. ASSUME NEW n \in RunId
      PROVE  /\ runs'[n].status = "none" => runs'[n].phase = "none"
             /\ runs'[n].phase = "none" => runs'[n].cdc = "not_applicable"
             /\ runs'[n].cdc = "pending" =>
                  runs'[n].phase = "discovery" /\ runs'[n].scope \in Scopes
             /\ observed'[n] # {} => runs'[n].phase = "discovery"
  <2>1. CASE n = rid[p]
    <3>1. runs[n].status # "none"
      <4>1. rid[p] # 0
        BY <1>1, FinishRunEffect, MaxRunsAssumption DEF RunId
      <4>2. QED BY <2>1, <4>1 DEF Owners
    <3>2. QED BY <1>1, <2>1, <3>1, FinishRunEffect DEF Register
  <2>2. CASE n # rid[p]
    BY <1>1, <2>2, FinishRunEffect DEF Register
  <2>3. QED BY <2>1, <2>2
<1>4. Register'
  BY <1>3 DEF Register
<1>5. QED BY <1>2, <1>4

\* Listing a target moves its process within the discovery of its run.
LEMMA ListingTargetOwners ==
  ASSUME TypeOK, Owners, Register, NEW p \in Runners,
         StartDiscoveryTarget(p) \/ FinishDiscoveryTarget(p) \/ RecordDiscoveryCoverage(p)
  PROVE  Owners' /\ Register'
<1>1. /\ runs' = runs /\ observed' = observed /\ rid' = rid
      /\ pc[p] \in {"targets", "pages", "coverage"}
  BY DEF StartDiscoveryTarget, FinishDiscoveryTarget, RecordDiscoveryCoverage, memory
<1>2. \E s \in {"targets", "pages", "coverage"} : Goto(p, s)
  BY DEF StartDiscoveryTarget, FinishDiscoveryTarget, RecordDiscoveryCoverage
<1>3. runs'[rid[p]].phase = "discovery"
  BY <1>1 DEF Owners
<1>4. Owners'
  BY <1>1, <1>2, <1>3, OwnersMove
<1>5. QED BY <1>1, <1>4 DEF Register

LEMMA UpsertDiscoveredJobsOwners ==
  ASSUME TypeOK, Owners, Register, NEW p \in Runners, NEW S, UpsertDiscoveredJobs(p, S)
  PROVE  Owners' /\ Register'
<1>1. runs' = runs /\ rid' = rid /\ pc' = pc
  BY DEF UpsertDiscoveredJobs, memory
<1>2. runs[rid[p]].phase = "discovery" /\ rid[p] \in RunId
  BY OwnRun DEF UpsertDiscoveredJobs, Owners
<1>3. \A n \in RunId : n # rid[p] => observed'[n] = observed[n]
  BY DEF UpsertDiscoveredJobs, TypeOK, Tables
<1>4. Owners'
  BY <1>1 DEF Owners
<1>5. Register'
  <2>1. ASSUME NEW n \in RunId, observed'[n] # {} PROVE runs[n].phase = "discovery"
    BY <1>2, <1>3, <2>1 DEF Register
  <2>2. QED BY <1>1, <2>1 DEF Register
<1>6. QED BY <1>4, <1>5

\* Finalization changes the decision and the counts of its own, undecided run only.
LEMMA FinalizeCdcEffect ==
  ASSUME TypeOK, Owners, Register, NEW p \in Runners, FinalizeCdc(p)
  PROVE  /\ rid[p] \in RunId
         /\ \A n \in RunId :
              /\ runs'[n].phase = runs[n].phase
              /\ runs'[n].scope = runs[n].scope
              /\ runs'[n].status = runs[n].status
              /\ runs'[n] # runs[n] =>
                   /\ n = rid[p]
                   /\ runs[n].cdc = "pending"
                   /\ runs'[n].cdc \in Decided
<1>1. rid[p] \in RunId
  BY OwnRun DEF FinalizeCdc
<1>2. \A n \in RunId : runs[n] \in RunRow
  BY DEF TypeOK, Tables, RunTable
<1>3. CASE UNCHANGED <<runs, listing, source, events>>
  BY <1>1, <1>3
<1>4. CASE /\ runs[rid[p]].cdc = "pending"
           /\ runs' = [runs EXCEPT ![rid[p]].cdc = "skipped"]
  BY <1>1, <1>2, <1>4 DEF TypeOK, Tables, RunTable, RunRow, Decided
<1>5. CASE runs[rid[p]].cdc = "pending" /\ ApplyCdc(rid[p])
  <2> DEFINE d == IF Baseline(rid[p]) THEN "baseline" ELSE "applied"
             g == Cardinality(Gone(rid[p]))
             b == Cardinality(Back(rid[p]))
  <2>1. runs' = [runs EXCEPT ![rid[p]].cdc = d, ![rid[p]].expired = g, ![rid[p]].reappeared = b]
    BY <1>5 DEF ApplyCdc
  <2>2. d \in Decided
    BY DEF Decided
  <2> HIDE DEF d, g, b
  <2>3. \A n \in RunId : n # rid[p] => runs'[n] = runs[n]
    BY <2>1 DEF TypeOK, Tables, RunTable
  <2>4. runs'[rid[p]] = [runs[rid[p]] EXCEPT !.cdc = d, !.expired = g, !.reappeared = b]
    BY <1>1, <2>1 DEF TypeOK, Tables, RunTable
  <2>5. /\ runs'[rid[p]].phase = runs[rid[p]].phase
        /\ runs'[rid[p]].scope = runs[rid[p]].scope
        /\ runs'[rid[p]].status = runs[rid[p]].status
        /\ runs'[rid[p]].cdc = d
    BY <1>1, <1>2, <2>4 DEF RunRow
  <2>6. QED BY <1>1, <1>5, <2>2, <2>3, <2>5
<1>6. QED BY <1>3, <1>4, <1>5, FinalizeCdcCases

LEMMA FinalizeCdcOwners ==
  ASSUME TypeOK, Owners, Register, NEW p \in Runners, FinalizeCdc(p)
  PROVE  Owners' /\ Register'
<1>1. /\ pc[p] = "targets" /\ Goto(p, "finish") /\ rid' = rid /\ observed' = observed
  BY DEF FinalizeCdc, memory
<1>2. Owners'
  BY <1>1, FinalizeCdcEffect, OwnersMove
<1>3. ASSUME NEW n \in RunId
      PROVE  /\ runs'[n].phase = "none" => runs'[n].cdc = "not_applicable"
             /\ runs'[n].cdc = "pending" =>
                  runs'[n].phase = "discovery" /\ runs'[n].scope \in Scopes
  <2>1. CASE runs'[n] = runs[n]
    BY <2>1 DEF Register
  <2>2. CASE runs'[n] # runs[n]
    BY <2>2, FinalizeCdcEffect DEF Register, Decided
  <2>3. QED BY <2>1, <2>2
<1>4. Register'
  BY <1>1, <1>3, FinalizeCdcEffect DEF Register
<1>5. QED BY <1>2, <1>4

LEMMA OwnersStep ==
  ASSUME TypeOK, Owners, Register, [Next]_vars
  PROVE  Owners' /\ Register'
<1>1. CASE UNCHANGED vars
  BY <1>1 DEF vars, tables, memory, Owners, Register
<1>2. ASSUME NEW p \in Runners, Step(p) PROVE Owners' /\ Register'
  BY <1>2, SourceRunOwners, LeaveRunOwners, LoseSessionOwners, StartRunOwners,
     PrepareCdcRunOwners, FinishRunOwners, ListingTargetOwners, UpsertDiscoveredJobsOwners,
     FinalizeCdcOwners DEF Step
<1>3. QED BY <1>1, <1>2 DEF Next

-----------------------------------------------------------------------------
(* Listing status, events and the reconciled scope agree.                  *)

\* A run that qualifies is newer than the last applied one.
LEMMA QualifiesIsNewer ==
  ASSUME TypeOK, Applied, NEW r \in RunId, runs[r].cdc = "pending", Qualifies(r)
  PROVE  source.applied < r
<1>1. source.applied \in Nat /\ r \in Nat /\ r > 0
  BY MaxRunsAssumption DEF TypeOK, Tables, RunId
<1>2. CASE source.applied = 0
  BY <1>1, <1>2
<1>3. CASE source.applied # 0
  <2>1. source.applied \in RunId /\ runs[source.applied].phase = "discovery"
    BY <1>3 DEF Applied
  <2>2. source.applied # r
    BY <1>3 DEF Applied
  <2>3. ~(source.applied > r)
    BY <2>1 DEF Qualifies, Superseded
  <2>4. QED BY <1>1, <2>2, <2>3
<1>4. QED BY <1>2, <1>3

LEMMA ApplyCdcApplied ==
  ASSUME TypeOK, Register, Applied, NEW r \in RunId, runs[r].cdc = "pending",
         Qualifies(r), ApplyCdc(r)
  PROVE  Applied'
<1>1. source'.applied = r
  BY DEF ApplyCdc
<1>2. runs'[r].phase = "discovery" /\ runs'[r].cdc \in {"baseline", "applied"}
  <2> DEFINE d == IF Baseline(r) THEN "baseline" ELSE "applied"
             g == Cardinality(Gone(r))
             b == Cardinality(Back(r))
  <2>1. runs' = [runs EXCEPT ![r].cdc = d, ![r].expired = g, ![r].reappeared = b]
    BY DEF ApplyCdc
  <2>2. d \in {"baseline", "applied"}
    OBVIOUS
  <2> HIDE DEF d, g, b
  <2>3. runs[r] \in RunRow /\ runs[r].phase = "discovery"
    BY DEF TypeOK, Tables, RunTable, Register
  <2>4. runs'[r] = [runs[r] EXCEPT !.cdc = d, !.expired = g, !.reappeared = b]
    BY <2>1 DEF TypeOK, Tables, RunTable
  <2>5. QED BY <2>2, <2>3, <2>4 DEF RunRow
<1>3. ASSUME NEW e \in events' PROVE e.run <= r
  <2>1. source.applied \in Nat /\ r \in Nat /\ source.applied < r
    BY QualifiesIsNewer, MaxRunsAssumption DEF TypeOK, Tables, RunId
  <2>2. CASE e \in EventsOf(r)
    BY <2>1, <2>2, EventsOfType
  <2>3. CASE e \in events
    <3>1. e.run \in Nat /\ e.run <= source.applied
      BY <2>3, MaxRunsAssumption DEF Applied, TypeOK, Tables, Event, RunId
    <3>2. QED BY <2>1, <3>1
  <2>4. QED BY <2>2, <2>3 DEF ApplyCdc
<1>4. QED BY <1>1, <1>2, <1>3 DEF Applied

LEMMA ApplyCdcAgrees ==
  ASSUME TypeOK, Register, Applied, ListingAgrees, NEW r \in RunId,
         runs[r].cdc = "pending", runs[r].scope \in Scopes, Qualifies(r), ApplyCdc(r)
  PROVE  ListingAgrees'
<1> SUFFICES ASSUME NEW j \in Jobs
             PROVE  /\ listing'[j].status = "unknown" <=> listing'[j].scope = None
                    /\ listing'[j].scope # None => listing'[j].scope = source'.scope
                    /\ listing'[j].status = "expired" =>
                         /\ [run |-> listing'[j].by, job |-> j, type |-> "EXPIRED"] \in events'
                         /\ \A e \in events' : e.job = j => e.run <= listing'[j].by
  BY DEF ListingAgrees
<1>1. listing'[j] = Reconciled(r, j) /\ source'.scope = runs[r].scope
  BY DEF ApplyCdc
<1>2. listing[j] \in ListingRow /\ runs[r].scope # None
  BY ScopesAssumption DEF TypeOK, Tables, ListingTable
<1>3. /\ listing[j].status = "unknown" <=> listing[j].scope = None
      /\ listing[j].scope # None => listing[j].scope = source.scope
  BY DEF ListingAgrees
<1>4. r \in Nat /\ source.applied \in Nat /\ source.applied < r
  BY QualifiesIsNewer, MaxRunsAssumption DEF TypeOK, Tables, RunId
<1>5. ASSUME NEW e \in events PROVE e.run \in Nat /\ e.run <= source.applied
  BY MaxRunsAssumption DEF Applied, TypeOK, Tables, Event, RunId
<1>6. CASE listing[j].seen = r
  <2>1. /\ listing'[j].status = "active"
        /\ listing'[j].scope = runs[r].scope
    BY <1>1, <1>2, <1>6 DEF Reconciled, ListingRow
  <2>2. QED BY <1>1, <1>2, <2>1
<1>7. CASE listing[j].seen # r /\ Baseline(r)
  <2>1. /\ listing'[j].status = "unknown"
        /\ listing'[j].scope = None
    BY <1>1, <1>2, <1>7 DEF Reconciled, ListingRow
  <2>2. QED BY <2>1
<1>8. CASE listing[j].seen # r /\ ~Baseline(r) /\ j \in Gone(r)
  <2>1. /\ listing'[j].status = "expired" /\ listing'[j].by = r
        /\ listing'[j].scope = listing[j].scope
    BY <1>1, <1>2, <1>8 DEF Reconciled, ListingRow
  <2>2. listing[j].scope = runs[r].scope
    BY <1>8 DEF Gone, Tracked
  <2>3. [run |-> r, job |-> j, type |-> "EXPIRED"] \in events'
    BY <1>8 DEF ApplyCdc, EventsOf
  <2>4. ASSUME NEW e \in events' PROVE e.run <= r
    <3>1. CASE e \in events
      BY <1>4, <1>5, <3>1
    <3>2. CASE e \in EventsOf(r)
      BY <1>4, <3>2, EventsOfType
    <3>3. QED BY <3>1, <3>2 DEF ApplyCdc
  <2>5. QED BY <1>1, <1>2, <2>1, <2>2, <2>3, <2>4
<1>9. CASE listing[j].seen # r /\ ~Baseline(r) /\ j \notin Gone(r)
  <2>1. listing'[j] = listing[j]
    BY <1>1, <1>9 DEF Reconciled
  <2>2. source'.scope = source.scope
    BY <1>1, <1>9 DEF Baseline
  <2>3. \A e \in EventsOf(r) : e.job # j
    <3>1. j \notin Back(r)
      BY <1>9 DEF Back
    <3>2. QED BY <1>9, <3>1 DEF EventsOf
  <2>4. listing[j].status = "expired" =>
          /\ [run |-> listing[j].by, job |-> j, type |-> "EXPIRED"] \in events
          /\ \A e \in events : e.job = j => e.run <= listing[j].by
    BY DEF ListingAgrees
  <2>5. events' = events \cup EventsOf(r)
    BY DEF ApplyCdc
  <2>6. QED BY <1>3, <2>1, <2>2, <2>3, <2>4, <2>5
<1>10. QED BY <1>6, <1>7, <1>8, <1>9

\* Every other step leaves status, scope and events alone.
LEMMA QuietStep ==
  ASSUME TypeOK, Owners, Register, NEW p \in Runners, Step(p), ~FinalizeCdc(p)
  PROVE  /\ source' = source /\ events' = events
         /\ \A j \in Jobs : /\ listing'[j].status = listing[j].status
                            /\ listing'[j].scope = listing[j].scope
                            /\ listing'[j].by = listing[j].by
         /\ \A r \in RunId : runs[r].cdc \in Decided =>
              /\ runs'[r].cdc = runs[r].cdc
              /\ runs'[r].phase = runs[r].phase
              /\ runs'[r].expired = runs[r].expired
              /\ runs'[r].reappeared = runs[r].reappeared
<1> DEFINE Q == /\ source' = source /\ events' = events
                /\ \A j \in Jobs : /\ listing'[j].status = listing[j].status
                                   /\ listing'[j].scope = listing[j].scope
                                   /\ listing'[j].by = listing[j].by
                /\ \A r \in RunId : runs[r].cdc \in Decided =>
                     /\ runs'[r].cdc = runs[r].cdc
                     /\ runs'[r].phase = runs[r].phase
                     /\ runs'[r].expired = runs[r].expired
                     /\ runs'[r].reappeared = runs[r].reappeared
<1>1. CASE SourceRun(p) \/ LeaveRun(p) \/ LoseSession(p)
  BY <1>1 DEF SourceRun, LeaveRun, LoseSession, tables
<1>2. CASE \/ StartDiscoveryTarget(p) \/ FinishDiscoveryTarget(p)
           \/ RecordDiscoveryCoverage(p)
  BY <1>2 DEF StartDiscoveryTarget, FinishDiscoveryTarget, RecordDiscoveryCoverage
<1>3. CASE StartRun(p)
  <2>1. source' = source /\ events' = events /\ listing' = listing
    BY <1>3 DEF StartRun
  <2>2. PICK r \in RunId : runs' = [runs EXCEPT ![r].status = "running"]
    BY <1>3 DEF StartRun
  <2>3. \A n \in RunId : /\ runs'[n].cdc = runs[n].cdc
                         /\ runs'[n].phase = runs[n].phase
                         /\ runs'[n].expired = runs[n].expired
                         /\ runs'[n].reappeared = runs[n].reappeared
    BY <2>2 DEF TypeOK, Tables, RunTable, RunRow
  <2>4. QED BY <2>1, <2>3
<1>4. CASE PrepareCdcRun(p)
  <2>1. source' = source /\ events' = events /\ listing' = listing
    BY <1>4 DEF PrepareCdcRun
  <2>2. runs[rid[p]].cdc = "not_applicable" /\ rid[p] \in RunId
    <3>1. pc[p] = "prepare"
      BY <1>4 DEF PrepareCdcRun
    <3>2. QED BY <3>1, OwnRun DEF Owners, Register
  <2>3. ASSUME NEW r \in RunId, runs[r].cdc \in Decided
        PROVE  /\ runs'[r].cdc = runs[r].cdc
               /\ runs'[r].phase = runs[r].phase
               /\ runs'[r].expired = runs[r].expired
               /\ runs'[r].reappeared = runs[r].reappeared
    <3>1. r # rid[p] /\ ~Interrupted(rid[p], r)
      BY <2>2, <2>3 DEF Decided, Interrupted
    <3>2. QED BY <1>4, <3>1, PrepareCdcRunEffect
  <2>4. QED BY <2>1, <2>3
<1>5. CASE FinishRun(p)
  <2>1. source' = source /\ events' = events /\ listing' = listing
    BY <1>5 DEF FinishRun
  <2>2. \A r \in RunId : runs[r].cdc \in Decided =>
          /\ runs'[r].cdc = runs[r].cdc
          /\ runs'[r].phase = runs[r].phase
          /\ runs'[r].expired = runs[r].expired
          /\ runs'[r].reappeared = runs[r].reappeared
    BY <1>5, FinishRunEffect DEF Decided
  <2>3. QED BY <2>1, <2>2
<1>6. ASSUME NEW S \in SUBSET Jobs, UpsertDiscoveredJobs(p, S)
      PROVE  Q
  <2>1. source' = source /\ events' = events /\ runs' = runs
    BY <1>6 DEF UpsertDiscoveredJobs
  <2>2. ASSUME NEW j \in Jobs
        PROVE  /\ listing'[j].status = listing[j].status
               /\ listing'[j].scope = listing[j].scope
               /\ listing'[j].by = listing[j].by
    <3>1. listing[j] \in ListingRow
      BY DEF TypeOK, Tables, ListingTable
    <3>2. listing'[j] = IF j \in S THEN [listing[j] EXCEPT !.seen = rid[p]] ELSE listing[j]
      BY <1>6 DEF UpsertDiscoveredJobs, Sighting
    <3>3. QED BY <3>1, <3>2 DEF ListingRow
  <2>3. QED BY <2>1, <2>2
<1>7. QED BY <1>1, <1>2, <1>3, <1>4, <1>5, <1>6 DEF Step

LEMMA QuietKeeps ==
  ASSUME TypeOK, Applied, ListingAgrees,
         source' = source, events' = events,
         \A j \in Jobs : /\ listing'[j].status = listing[j].status
                         /\ listing'[j].scope = listing[j].scope
                         /\ listing'[j].by = listing[j].by,
         \A r \in RunId : runs[r].cdc \in Decided =>
           runs'[r].cdc = runs[r].cdc /\ runs'[r].phase = runs[r].phase
  PROVE  Applied' /\ ListingAgrees'
<1>1. ListingAgrees'
  BY DEF ListingAgrees
<1>2. Applied'
  BY DEF Applied, Decided
<1>3. QED BY <1>1, <1>2

LEMMA AgreesStep ==
  ASSUME TypeOK, Owners, Register, Applied, ListingAgrees, [Next]_vars
  PROVE  Applied' /\ ListingAgrees'
<1>1. CASE UNCHANGED vars
  BY <1>1 DEF vars, tables, Applied, ListingAgrees
<1>2. ASSUME NEW p \in Runners, Step(p), ~FinalizeCdc(p)
      PROVE  Applied' /\ ListingAgrees'
  BY <1>2, QuietStep, QuietKeeps
<1>3. ASSUME NEW p \in Runners, FinalizeCdc(p)
      PROVE  Applied' /\ ListingAgrees'
  <2>1. rid[p] \in RunId
    BY <1>3, OwnRun DEF FinalizeCdc
  <2>2. CASE UNCHANGED <<runs, listing, source, events>>
    BY <2>2 DEF Applied, ListingAgrees
  <2>3. CASE UNCHANGED <<listing, source, events>> /\ runs[rid[p]].cdc = "pending"
    <3>1. \A r \in RunId : runs[r].cdc \in Decided =>
            runs'[r].cdc = runs[r].cdc /\ runs'[r].phase = runs[r].phase
      BY <1>3, FinalizeCdcEffect DEF Decided
    <3>2. QED BY <2>3, <3>1, QuietKeeps
  <2>4. CASE /\ runs[rid[p]].cdc = "pending"
             /\ runs[rid[p]].scope \in Scopes
             /\ Qualifies(rid[p])
             /\ ApplyCdc(rid[p])
    BY <2>1, <2>4, ApplyCdcApplied, ApplyCdcAgrees
  <2>5. QED BY <1>3, <2>2, <2>3, <2>4, FinalizeCdcCases
<1>4. QED BY <1>1, <1>2, <1>3 DEF Next

-----------------------------------------------------------------------------
(* Theorems, under every fault.                                            *)

LEMMA InitBookkeeping == Init => Bookkeeping
<1> SUFFICES ASSUME Init PROVE Bookkeeping
  OBVIOUS
<1>1. TypeOK
  BY InitType
<1>2. Owners /\ Register /\ Applied
  BY DEF Init, Owners, Register, Applied
<1>3. ListingAgrees
  BY DEF Init, ListingAgrees
<1>4. QED BY <1>1, <1>2, <1>3 DEF Bookkeeping

\* The inductive invariant: who owns which run, what each run has gone through, and
\* the agreement of listing status, events and scope.
THEOREM BookkeepingHolds == Spec => []Bookkeeping
<1>1. Init => Bookkeeping
  BY InitBookkeeping
<1>2. Bookkeeping /\ [Next]_vars => Bookkeeping'
  BY TypeStep, OwnersStep, AgreesStep DEF Bookkeeping
<1>3. QED BY <1>1, <1>2, PTL DEF Spec

\* Every reachable state of the change detection is well typed.
THEOREM TypeCorrect == Spec => []TypeOK
<1>1. Bookkeeping => TypeOK
  BY DEF Bookkeeping
<1>2. QED BY <1>1, BookkeepingHolds, PTL

\* Jobs are tracked in the reconciled scope only, and expired jobs have the event that
\* says so as their latest, even when processes write after losing their lock.
THEOREM ListingAgreesHolds == Spec => []ListingAgrees
<1>1. Bookkeeping => ListingAgrees
  BY DEF Bookkeeping
<1>2. QED BY <1>1, BookkeepingHolds, PTL

\* No step revises a decided run: not the failure of its details, not a later run, not
\* a process that lost its lock.
THEOREM DecisionsStay == Spec => DecisionIsFinal
<1> DEFINE Final == \A r \in RunId :
                      runs[r].cdc \in Decided =>
                        /\ runs'[r].cdc = runs[r].cdc
                        /\ runs'[r].expired = runs[r].expired
                        /\ runs'[r].reappeared = runs[r].reappeared
<1>1. Bookkeeping /\ [Next]_vars => [Final]_vars
  <2> SUFFICES ASSUME Bookkeeping, NEW p \in Runners, Step(p) PROVE Final
    BY DEF Next
  <2>1. CASE ~FinalizeCdc(p)
    BY <2>1, QuietStep DEF Bookkeeping
  <2>2. CASE FinalizeCdc(p)
    BY <2>2, FinalizeCdcEffect DEF Bookkeeping, Decided
  <2>3. QED BY <2>1, <2>2
<1>2. QED BY <1>1, BookkeepingHolds, PTL DEF Spec, DecisionIsFinal

\* A job expires only when its run has covered every target of the scope and no later
\* run has observed the job.
THEOREM ExpiriesAreEvidenced == Spec => ExpiryIsEvidenced
<1> DEFINE Evidenced ==
      \A j \in Jobs :
        listing[j].status # "expired" /\ listing'[j].status = "expired" =>
          LET r == listing'[j].by
          IN  /\ \A t \in TargetsOf[runs[r].scope] :
                   cover[r][t].status = "completed" /\ cover[r][t].complete
              /\ \A n \in RunId : n > r => j \notin observed[n]
<1>1. Bookkeeping /\ [Next]_vars => [Evidenced]_vars
  <2> SUFFICES ASSUME Bookkeeping, NEW p \in Runners, Step(p), NEW j \in Jobs,
                      listing[j].status # "expired", listing'[j].status = "expired"
               PROVE  LET r == listing'[j].by
                      IN  /\ \A t \in TargetsOf[runs[r].scope] :
                               cover[r][t].status = "completed" /\ cover[r][t].complete
                          /\ \A n \in RunId : n > r => j \notin observed[n]
    BY DEF Next
  <2>1. FinalizeCdc(p)
    BY QuietStep DEF Bookkeeping
  <2>2. rid[p] \in RunId
    BY <2>1, OwnRun DEF Bookkeeping, FinalizeCdc
  <2>3. Qualifies(rid[p]) /\ ApplyCdc(rid[p])
    <3>1. ~UNCHANGED listing
      OBVIOUS
    <3>2. QED BY <2>1, <3>1, FinalizeCdcCases DEF Bookkeeping
  <2>4. listing'[j].by = rid[p]
    <3>1. listing[j] \in ListingRow
      BY DEF Bookkeeping, TypeOK, Tables, ListingTable
    <3>2. listing'[j] = Reconciled(rid[p], j)
      BY <2>3 DEF ApplyCdc
    <3>3. QED BY <3>1, <3>2 DEF Reconciled, ListingRow
  <2>5. \A t \in TargetsOf[runs[rid[p]].scope] :
          cover[rid[p]][t].status = "completed" /\ cover[rid[p]][t].complete
    BY <2>3 DEF Qualifies, Covered
  <2>6. ASSUME NEW n \in RunId, n > rid[p] PROVE j \notin observed[n]
    <3>1. runs[n].phase # "discovery"
      BY <2>3, <2>6 DEF Qualifies, Superseded
    <3>2. QED BY <3>1 DEF Bookkeeping, Register
  <2>7. QED BY <2>4, <2>5, <2>6
<1>2. QED BY <1>1, BookkeepingHolds, PTL DEF Spec, ExpiryIsEvidenced

-----------------------------------------------------------------------------
(* Events, counts and statuses tell one story.                             *)

\* No step but the finalization touches the counts of any run.
LEMMA QuietCounts ==
  ASSUME TypeOK, Owners, Register, NEW p \in Runners, Step(p), ~FinalizeCdc(p),
         NEW r \in RunId
  PROVE  runs'[r].expired = runs[r].expired /\ runs'[r].reappeared = runs[r].reappeared
<1>1. CASE SourceRun(p) \/ LeaveRun(p) \/ LoseSession(p)
  BY <1>1 DEF SourceRun, LeaveRun, LoseSession, tables
<1>2. CASE \/ StartDiscoveryTarget(p) \/ FinishDiscoveryTarget(p)
           \/ RecordDiscoveryCoverage(p)
           \/ \E S \in SUBSET Jobs \ {{}} : UpsertDiscoveredJobs(p, S)
  BY <1>2 DEF StartDiscoveryTarget, FinishDiscoveryTarget, RecordDiscoveryCoverage,
     UpsertDiscoveredJobs
<1>3. CASE StartRun(p)
  <2>1. PICK n \in RunId : runs' = [runs EXCEPT ![n].status = "running"]
    BY <1>3 DEF StartRun
  <2>2. QED BY <2>1 DEF TypeOK, Tables, RunTable, RunRow
<1>4. CASE PrepareCdcRun(p)
  BY <1>4, PrepareCdcRunEffect
<1>5. CASE FinishRun(p)
  BY <1>5, FinishRunEffect
<1>6. QED BY <1>1, <1>2, <1>3, <1>4, <1>5 DEF Step

\* A run has as many events of a type as it has jobs for them.
LEMMA EventsAreCounted ==
  ASSUME NEW G \in SUBSET Jobs, NEW r, NEW t
  PROVE  Cardinality([run : {r}, job : G, type : {t}]) = Cardinality(G)
<1> DEFINE E == [run : {r}, job : G, type : {t}]
           f == [j \in G |-> [run |-> r, job |-> j, type |-> t]]
<1>1. f \in [G -> E]
  OBVIOUS
<1>2. \A a, b \in G : f[a] = f[b] => a = b
  <2>1. ASSUME NEW a \in G, NEW b \in G, f[a] = f[b] PROVE a = b
    <3>1. f[a].job = a /\ f[b].job = b
      OBVIOUS
    <3>2. QED BY <2>1, <3>1
  <2>2. QED BY <2>1
<1>3. \A e \in E : \E j \in G : f[j] = e
  OBVIOUS
<1> HIDE DEF E, f
<1>4. f \in Bijection(G, E)
  BY <1>1, <1>2, <1>3 DEF Bijection, Injection, IsInjective, Surjection
<1>5. IsFiniteSet(G)
  BY JobsAssumption, FS_Subset
<1>6. Cardinality(E) = Cardinality(G)
  BY <1>4, <1>5, FS_Bijection DEF ExistsBijection
<1>7. QED BY <1>6 DEF E

\* The counts and the decision that an applied run records.
LEMMA ApplyCdcCounts ==
  ASSUME TypeOK, NEW r \in RunId, ApplyCdc(r)
  PROVE  /\ \A n \in RunId : n # r => runs'[n] = runs[n]
         /\ runs'[r].cdc = IF Baseline(r) THEN "baseline" ELSE "applied"
         /\ runs'[r].expired = Cardinality(Gone(r))
         /\ runs'[r].reappeared = Cardinality(Back(r))
<1> DEFINE d == IF Baseline(r) THEN "baseline" ELSE "applied"
           g == Cardinality(Gone(r))
           b == Cardinality(Back(r))
<1>1. runs' = [runs EXCEPT ![r].cdc = d, ![r].expired = g, ![r].reappeared = b]
  BY DEF ApplyCdc
<1> HIDE DEF d, g, b
<1>2. /\ \A n \in RunId : n # r => runs'[n] = runs[n]
      /\ runs'[r] = [runs[r] EXCEPT !.cdc = d, !.expired = g, !.reappeared = b]
  BY <1>1 DEF TypeOK, Tables, RunTable
<1>3. runs[r] \in RunRow
  BY DEF TypeOK, Tables, RunTable
<1>4. runs'[r].cdc = d /\ runs'[r].expired = g /\ runs'[r].reappeared = b
  BY <1>2, <1>3 DEF RunRow
<1>5. QED BY <1>2, <1>4 DEF d, g, b

\* A run that is applied has no events before it, and as many as it counts after.
LEMMA ApplyCdcMatches ==
  ASSUME TypeOK, Applied, CountsMatchEvents, NEW r \in RunId,
         runs[r].cdc = "pending", Qualifies(r), ApplyCdc(r)
  PROVE  CountsMatchEvents'
<1> SUFFICES ASSUME NEW n \in RunId
             PROVE  /\ runs'[n].expired =
                         Cardinality({e \in events' : e.run = n /\ e.type = "EXPIRED"})
                    /\ runs'[n].reappeared =
                         Cardinality({e \in events' : e.run = n /\ e.type = "REAPPEARED"})
  BY DEF CountsMatchEvents
<1>1. events' = events \cup EventsOf(r)
  BY DEF ApplyCdc
<1>2. CASE n # r
  <2>1. \A t : {e \in events' : e.run = n /\ e.type = t} = {e \in events : e.run = n /\ e.type = t}
    BY <1>1, <1>2, EventsOfType
  <2>2. runs'[n] = runs[n]
    BY <1>2, ApplyCdcCounts
  <2>3. QED BY <2>1, <2>2 DEF CountsMatchEvents
<1>3. CASE n = r
  <2>1. \A e \in events : e.run # r
    <3>1. source.applied < r /\ source.applied \in Nat /\ r \in Nat
      BY QualifiesIsNewer, MaxRunsAssumption DEF TypeOK, Tables, RunId
    <3>2. \A e \in events : e.run \in Nat /\ e.run <= source.applied
      BY MaxRunsAssumption DEF Applied, TypeOK, Tables, Event, RunId
    <3>3. QED BY <3>1, <3>2
  <2>2. \A t : {e \in events' : e.run = r /\ e.type = t} = {e \in EventsOf(r) : e.type = t}
    BY <1>1, <2>1, EventsOfType
  <2>3. {e \in EventsOf(r) : e.type = "EXPIRED"} = [run : {r}, job : Gone(r), type : {"EXPIRED"}]
    BY DEF EventsOf
  <2>4. {e \in EventsOf(r) : e.type = "REAPPEARED"} =
          [run : {r}, job : Back(r), type : {"REAPPEARED"}]
    BY DEF EventsOf
  <2>5. Gone(r) \subseteq Jobs /\ Back(r) \subseteq Jobs
    BY DEF Gone, Back, Tracked
  <2>6. /\ Cardinality([run : {r}, job : Gone(r), type : {"EXPIRED"}]) = Cardinality(Gone(r))
        /\ Cardinality([run : {r}, job : Back(r), type : {"REAPPEARED"}]) = Cardinality(Back(r))
    BY <2>5, EventsAreCounted
  <2>7. QED BY <1>3, <2>2, <2>3, <2>4, <2>6, ApplyCdcCounts
<1>4. QED BY <1>2, <1>3

\* What accounts for an expiry stays in the tables.
LEMMA AccountKept ==
  ASSUME NEW j \in Jobs, NEW e, events \subseteq events',
         \A r \in RunId : runs[r].cdc \in Decided => runs'[r].cdc = runs[r].cdc,
         \/ \E f \in events : f.job = j /\ f.type = "REAPPEARED" /\ f.run > e.run
         \/ \E r \in RunId : r > e.run /\ runs[r].cdc = "baseline"
  PROVE  \/ \E f \in events' : f.job = j /\ f.type = "REAPPEARED" /\ f.run > e.run
         \/ \E r \in RunId : r > e.run /\ runs'[r].cdc = "baseline"
BY DEF Decided

\* A baseline accounts for every expiry before it; otherwise the expired jobs that the
\* run has seen again reappear, and no other stops being expired.
LEMMA ApplyCdcAccounts ==
  ASSUME TypeOK, Applied, ListingAgrees, ExpiriesAccounted, NEW r \in RunId,
         runs[r].cdc = "pending", Qualifies(r), ApplyCdc(r)
  PROVE  ExpiriesAccounted'
<1> SUFFICES ASSUME NEW j \in Jobs, NEW e \in events', e.job = j, e.type = "EXPIRED",
                    listing'[j].status # "expired"
             PROVE  \/ \E f \in events' :
                         f.job = j /\ f.type = "REAPPEARED" /\ f.run > e.run
                    \/ \E n \in RunId : n > e.run /\ runs'[n].cdc = "baseline"
  BY DEF ExpiriesAccounted
<1>1. events' = events \cup EventsOf(r) /\ listing'[j] = Reconciled(r, j)
  BY DEF ApplyCdc
<1>2. listing[j] \in ListingRow
  BY DEF TypeOK, Tables, ListingTable
<1>3. e \in events
  <2>1. ASSUME e \in EventsOf(r) PROVE FALSE
    <3>1. j \in Gone(r)
      BY <2>1 DEF EventsOf
    <3>2. listing[j].seen # r /\ ~Baseline(r)
      BY <3>1 DEF Gone
    <3>3. QED BY <1>1, <1>2, <3>1, <3>2 DEF Reconciled, ListingRow
  <2>2. QED BY <1>1, <2>1
<1>4. r > e.run
  <2>1. source.applied < r /\ source.applied \in Nat /\ r \in Nat
    BY QualifiesIsNewer, MaxRunsAssumption DEF TypeOK, Tables, RunId
  <2>2. e.run \in Nat /\ e.run <= source.applied
    BY <1>3, MaxRunsAssumption DEF Applied, TypeOK, Tables, Event, RunId
  <2>3. QED BY <2>1, <2>2
<1>5. \A n \in RunId : runs[n].cdc \in Decided => runs'[n].cdc = runs[n].cdc
  BY ApplyCdcCounts DEF Decided
<1>6. CASE Baseline(r)
  BY <1>4, <1>6, ApplyCdcCounts
<1>7. CASE ~Baseline(r) /\ listing[j].status # "expired"
  BY <1>1, <1>3, <1>5, <1>7, AccountKept DEF ExpiriesAccounted
<1>8. CASE ~Baseline(r) /\ listing[j].status = "expired"
  <2>1. listing[j].scope = runs[r].scope
    BY <1>8 DEF ListingAgrees, Baseline
  <2>2. listing[j].seen = r
    BY <1>1, <1>8 DEF Reconciled, Gone, Tracked
  <2>3. j \in Back(r)
    BY <1>8, <2>1, <2>2 DEF Back, Tracked
  <2>4. [run |-> r, job |-> j, type |-> "REAPPEARED"] \in events'
    BY <1>1, <2>3 DEF EventsOf
  <2>5. QED BY <1>4, <2>4
<1>9. QED BY <1>6, <1>7, <1>8

\* A step that leaves events, statuses and counts alone, and revises no decision.
LEMMA StoryKept ==
  ASSUME ExpiriesAccounted, CountsMatchEvents, events' = events,
         \A j \in Jobs : listing'[j].status = listing[j].status,
         \A r \in RunId : /\ runs'[r].expired = runs[r].expired
                          /\ runs'[r].reappeared = runs[r].reappeared
                          /\ runs[r].cdc \in Decided => runs'[r].cdc = runs[r].cdc
  PROVE  ExpiriesAccounted' /\ CountsMatchEvents'
<1>1. CountsMatchEvents'
  BY DEF CountsMatchEvents
<1>2. ExpiriesAccounted'
  <2> SUFFICES ASSUME NEW j \in Jobs, NEW e \in events, e.job = j, e.type = "EXPIRED",
                      listing[j].status # "expired"
               PROVE  \/ \E f \in events' :
                           f.job = j /\ f.type = "REAPPEARED" /\ f.run > e.run
                      \/ \E n \in RunId : n > e.run /\ runs'[n].cdc = "baseline"
    BY DEF ExpiriesAccounted
  <2>1. QED BY AccountKept DEF ExpiriesAccounted
<1>3. QED BY <1>1, <1>2

LEMMA StoryStep ==
  ASSUME Bookkeeping, ExpiriesAccounted, CountsMatchEvents, [Next]_vars
  PROVE  ExpiriesAccounted' /\ CountsMatchEvents'
<1> USE DEF Bookkeeping
<1>1. CASE UNCHANGED vars
  BY <1>1 DEF vars, tables, ExpiriesAccounted, CountsMatchEvents
<1>2. ASSUME NEW p \in Runners, Step(p), ~FinalizeCdc(p)
      PROVE  ExpiriesAccounted' /\ CountsMatchEvents'
  BY <1>2, QuietStep, QuietCounts, StoryKept
<1>3. ASSUME NEW p \in Runners, FinalizeCdc(p)
      PROVE  ExpiriesAccounted' /\ CountsMatchEvents'
  <2>1. rid[p] \in RunId
    BY <1>3, OwnRun DEF FinalizeCdc
  <2>2. CASE UNCHANGED <<runs, listing, source, events>>
    BY <2>2 DEF ExpiriesAccounted, CountsMatchEvents
  <2>3. CASE /\ runs[rid[p]].cdc = "pending"
             /\ runs' = [runs EXCEPT ![rid[p]].cdc = "skipped"]
             /\ UNCHANGED <<listing, source, events>>
    <3>1. \A r \in RunId : /\ runs'[r].expired = runs[r].expired
                           /\ runs'[r].reappeared = runs[r].reappeared
                           /\ runs[r].cdc \in Decided => runs'[r].cdc = runs[r].cdc
      BY <2>1, <2>3 DEF TypeOK, Tables, RunTable, RunRow, Decided
    <3>2. QED BY <2>3, <3>1, StoryKept
  <2>4. CASE /\ runs[rid[p]].cdc = "pending"
             /\ Qualifies(rid[p])
             /\ ApplyCdc(rid[p])
    BY <2>1, <2>4, ApplyCdcMatches, ApplyCdcAccounts
  <2>5. QED BY <1>3, <2>2, <2>3, <2>4, FinalizeCdcCases
<1>4. QED BY <1>1, <1>2, <1>3 DEF Next

\* Events, counts and statuses tell one story about every run and job, even when
\* processes write after losing their lock.
THEOREM HistoryAgreesHolds == Spec => []HistoryAgrees
<1> DEFINE Story == Bookkeeping /\ ExpiriesAccounted /\ CountsMatchEvents
<1>1. Init => Story
  <2> SUFFICES ASSUME Init PROVE Story
    OBVIOUS
  <2>1. \A r \in RunId : runs[r].expired = 0 /\ runs[r].reappeared = 0
    BY DEF Init
  <2>2. CountsMatchEvents
    <3>1. events = {}
      BY DEF Init
    <3>2. \A r, t : {e \in events : e.run = r /\ e.type = t} = {}
      BY <3>1
    <3>3. QED BY <2>1, <3>2, FS_EmptySet DEF CountsMatchEvents
  <2>3. ExpiriesAccounted
    BY DEF Init, ExpiriesAccounted
  <2>4. QED BY <2>2, <2>3, InitBookkeeping
<1>2. Story /\ [Next]_vars => Story'
  BY TypeStep, OwnersStep, AgreesStep, StoryStep DEF Bookkeeping
<1>3. Story => HistoryAgrees
  BY DEF ExpiriesAccounted, HistoryAgrees, ActiveIsExplained
<1>4. QED BY <1>1, <1>2, <1>3, PTL DEF Spec

-----------------------------------------------------------------------------
(* While no session is lost, the holder is alone.                          *)

LEMMA SerialConnect ==
  ASSUME TypeOK, Serial, NEW p \in Runners, Connect(p)
  PROVE  slip' = slip
BY DEF Connect, Serial, TypeOK, Processes

LEMMA OthersIdle ==
  ASSUME TypeOK, Owners, Serial, NEW p \in Runners, pc[p] # "idle",
         NEW q \in Runners, q # p
  PROVE  rid[q] = 0 /\ pc[q] = "idle"
BY DEF Owners, Serial

\* A step of the holder that neither starts a run nor observes a job.
LEMMA SerialKept ==
  ASSUME TypeOK, Owners, Serial, NEW p \in Runners, pc[p] \notin {"idle", "start"},
         slip' = slip, rid' = rid, holder' = holder, observed' = observed,
         \A q \in Runners : q # p => pc'[q] = pc[q],
         pc'[p] # "release" =>
           pc[p] # "release" /\ runs'[rid[p]].status = runs[rid[p]].status,
         \A r \in RunId : runs'[r].status = "none" <=> runs[r].status = "none",
         \A j \in Jobs : listing'[j].seen = listing[j].seen
  PROVE  Serial'
<1>1. ASSUME NEW q \in Runners
      PROVE  /\ ~slip'[q]
             /\ pc'[q] # "idle" => holder' = q
             /\ pc'[q] \notin {"idle", "start", "release"} => runs'[rid'[q]].status = "running"
  <2>1. CASE q = p
    BY <2>1 DEF Serial
  <2>2. CASE q # p
    BY <2>2, OthersIdle DEF Serial
  <2>3. QED BY <2>1, <2>2
<1>2. ASSUME NEW q \in Runners, rid'[q] # 0
      PROVE  /\ \A n \in RunId : n > rid'[q] => runs'[n].status = "none"
             /\ \A j \in observed'[rid'[q]] : listing'[j].seen = rid'[q]
  <2>1. rid[q] \in RunId
    BY <1>2 DEF TypeOK, Processes
  <2>2. observed[rid[q]] \subseteq Jobs
    BY <2>1 DEF TypeOK, Tables
  <2>3. QED BY <1>2, <2>2 DEF Serial
<1>3. \A r, n \in RunId : n > r /\ runs'[r].status = "none" => runs'[n].status = "none"
  BY DEF Serial
<1>4. QED BY <1>1, <1>2, <1>3 DEF Serial

LEMMA SourceRunSerial ==
  ASSUME TypeOK, Owners, Serial, NEW p \in Runners, SourceRun(p)
  PROVE  Serial'
<1>1. /\ slip' = slip /\ rid' = rid /\ observed' = observed
      /\ runs' = runs /\ listing' = listing /\ holder = None /\ holder' = p
  BY DEF SourceRun, tables
<1>2. \A q \in Runners : pc[q] = "idle"
  BY <1>1, RunnersAssumption DEF Serial
<1>3. \A q \in Runners : pc'[q] = IF q = p THEN "start" ELSE pc[q]
  BY DEF SourceRun, Goto, TypeOK, Processes
<1>4. QED BY <1>1, <1>2, <1>3 DEF Serial

LEMMA LeaveRunSerial ==
  ASSUME TypeOK, Owners, Serial, NEW p \in Runners, LeaveRun(p)
  PROVE  Serial'
<1>1. runs' = runs /\ pc[p] # "idle"
  BY DEF LeaveRun, tables
<1>2. \A q \in Runners : /\ pc'[q] = IF q = p THEN "idle" ELSE pc[q]
                         /\ rid'[q] = IF q = p THEN 0 ELSE rid[q]
                         /\ slip'[q] = IF q = p THEN FALSE ELSE slip[q]
  BY DEF LeaveRun, Goto, TypeOK, Processes
<1>3. \A q \in Runners : q # p => rid[q] = 0 /\ pc[q] = "idle"
  BY <1>1, OthersIdle
<1>4. ASSUME NEW q \in Runners
      PROVE  rid'[q] = 0 /\ pc'[q] = "idle" /\ ~slip'[q]
  <2>1. rid'[q] = 0 /\ pc'[q] = "idle"
    BY <1>2, <1>3
  <2>2. CASE q = p
    BY <1>2, <2>1, <2>2
  <2>3. CASE q # p
    <3>1. slip'[q] = slip[q]
      BY <1>2, <2>3
    <3>2. ~slip[q]
      BY DEF Serial
    <3>3. QED BY <2>1, <3>1, <3>2
  <2>4. QED BY <2>2, <2>3
<1>5. QED BY <1>1, <1>4 DEF Serial

LEMMA StartRunSerial ==
  ASSUME TypeOK, Owners, Register, Serial, NEW p \in Runners, StartRun(p)
  PROVE  Serial'
<1>1. PICK r \in RunId : /\ runs[r].status = "none"
                         /\ \A n \in RunId : n < r => runs[n].status # "none"
                         /\ runs' = [runs EXCEPT ![r].status = "running"]
                         /\ rid' = [rid EXCEPT ![p] = r]
  BY DEF StartRun
<1>2. /\ observed' = observed /\ holder' = holder /\ slip' = slip /\ pc[p] = "start"
  BY SerialConnect DEF StartRun
<1>3. \A q \in Runners : /\ pc'[q] = IF q = p THEN "prepare" ELSE pc[q]
                         /\ rid'[q] = IF q = p THEN r ELSE rid[q]
  BY <1>1 DEF StartRun, Goto, TypeOK, Processes
<1>4. \A q \in Runners : q # p => rid[q] = 0 /\ pc[q] = "idle"
  BY <1>2, OthersIdle
<1>5. observed[r] = {}
  BY <1>1 DEF Register
<1>6. \A n \in RunId : runs'[n].status = IF n = r THEN "running" ELSE runs[n].status
  BY <1>1 DEF TypeOK, Tables, RunTable, RunRow
<1>7. \A n \in RunId : n > r => n # r
  BY MaxRunsAssumption DEF RunId
<1>8. \A n \in RunId : n > r => runs'[n].status = "none"
  BY <1>1, <1>6, <1>7 DEF Serial
<1>9. \A n, m \in RunId : m > n /\ runs'[n].status = "none" => runs'[m].status = "none"
  <2> SUFFICES ASSUME NEW n \in RunId, NEW m \in RunId, m > n, runs'[n].status = "none"
               PROVE  runs'[m].status = "none"
    OBVIOUS
  <2>1. n # r /\ runs[n].status = "none"
    BY <1>6
  <2>2. ~(n < r)
    BY <1>1, <2>1
  <2>3. n \in Nat /\ m \in Nat /\ r \in Nat
    BY MaxRunsAssumption DEF RunId
  <2>4. m # r
    BY <2>2, <2>3
  <2>5. runs[m].status = "none"
    BY <2>1 DEF Serial
  <2>6. QED BY <1>6, <2>4, <2>5
<1>10. ASSUME NEW q \in Runners
       PROVE  /\ ~slip'[q]
              /\ pc'[q] # "idle" => holder' = q
              /\ pc'[q] \notin {"idle", "start", "release"} =>
                   runs'[rid'[q]].status = "running"
  BY <1>2, <1>3, <1>4, <1>6 DEF Serial
<1>11. ASSUME NEW q \in Runners, rid'[q] # 0
       PROVE  /\ \A n \in RunId : n > rid'[q] => runs'[n].status = "none"
              /\ \A j \in observed'[rid'[q]] : listing'[j].seen = rid'[q]
  BY <1>2, <1>3, <1>4, <1>5, <1>8, <1>11
<1>12. QED BY <1>9, <1>10, <1>11 DEF Serial

LEMMA PrepareCdcRunSerial ==
  ASSUME TypeOK, Owners, Serial, NEW p \in Runners, PrepareCdcRun(p)
  PROVE  Serial'
<1>1. /\ pc[p] = "prepare" /\ slip' = slip /\ rid' = rid /\ holder' = holder
      /\ observed' = observed /\ listing' = listing
  BY SerialConnect DEF PrepareCdcRun, memory
<1>2. \A q \in Runners : q # p => pc'[q] = pc[q]
  BY DEF PrepareCdcRun, Goto, TypeOK, Processes
<1>3. rid[p] \in RunId
  BY <1>1, OwnRun
<1>4. QED BY <1>1, <1>2, <1>3, PrepareCdcRunEffect, SerialKept

LEMMA FinishRunSerial ==
  ASSUME TypeOK, Owners, Serial, NEW p \in Runners, FinishRun(p)
  PROVE  Serial'
<1>1. /\ pc[p] \notin {"idle", "start", "release"} /\ slip' = slip /\ rid' = rid
      /\ holder' = holder /\ observed' = observed /\ listing' = listing
  BY SerialConnect DEF FinishRun, memory
<1>2. \A q \in Runners : pc'[q] = IF q = p THEN "release" ELSE pc[q]
  BY DEF FinishRun, Goto, TypeOK, Processes
<1>3. runs[rid[p]].status = "running"
  BY <1>1 DEF Serial
<1>4. QED BY <1>1, <1>2, <1>3, FinishRunEffect, SerialKept

LEMMA ListingTargetSerial ==
  ASSUME TypeOK, Owners, Serial, NEW p \in Runners,
         StartDiscoveryTarget(p) \/ FinishDiscoveryTarget(p) \/ RecordDiscoveryCoverage(p)
  PROVE  Serial'
<1>1. /\ pc[p] \in {"targets", "pages", "coverage"} /\ slip' = slip /\ rid' = rid
      /\ holder' = holder /\ observed' = observed /\ listing' = listing /\ runs' = runs
  BY SerialConnect
     DEF StartDiscoveryTarget, FinishDiscoveryTarget, RecordDiscoveryCoverage, memory
<1>2. \A q \in Runners : q # p => pc'[q] = pc[q]
  BY DEF StartDiscoveryTarget, FinishDiscoveryTarget, RecordDiscoveryCoverage, Goto,
         TypeOK, Processes
<1>3. QED BY <1>1, <1>2, SerialKept

LEMMA UpsertDiscoveredJobsSerial ==
  ASSUME TypeOK, Owners, Serial, NEW p \in Runners, NEW S \in SUBSET Jobs,
         UpsertDiscoveredJobs(p, S)
  PROVE  Serial'
<1>1. /\ pc[p] = "pages" /\ slip' = slip /\ rid' = rid /\ pc' = pc
      /\ holder' = holder /\ runs' = runs
  BY SerialConnect DEF UpsertDiscoveredJobs, memory
<1>2. rid[p] \in RunId /\ rid[p] # 0
  BY <1>1, OwnRun, MaxRunsAssumption DEF RunId
<1>3. observed'[rid[p]] = observed[rid[p]] \cup S /\ observed[rid[p]] \subseteq Jobs
  BY <1>2 DEF UpsertDiscoveredJobs, TypeOK, Tables
<1>4. ASSUME NEW j \in observed'[rid[p]] PROVE listing'[j].seen = rid[p]
  <2>1. j \in Jobs
    BY <1>3
  <2>2. listing'[j] = IF j \in S THEN [listing[j] EXCEPT !.seen = rid[p]] ELSE listing[j]
    BY <2>1 DEF UpsertDiscoveredJobs, Sighting
  <2>3. listing[j] \in ListingRow
    BY <2>1 DEF TypeOK, Tables, ListingTable
  <2>4. CASE j \in S
    BY <2>2, <2>3, <2>4 DEF ListingRow
  <2>5. CASE j \notin S
    <3>1. listing[j].seen = rid[p]
      BY <1>2, <1>3, <2>5 DEF Serial
    <3>2. QED BY <2>2, <2>5, <3>1
  <2>6. QED BY <2>4, <2>5
<1>5. \A q \in Runners : q # p => rid[q] = 0
  BY <1>1, OthersIdle
<1>6. QED BY <1>1, <1>4, <1>5 DEF Serial

LEMMA FinalizeCdcSerial ==
  ASSUME TypeOK, Owners, Register, Serial, NEW p \in Runners, FinalizeCdc(p)
  PROVE  Serial'
<1>1. /\ pc[p] = "targets" /\ slip' = slip /\ rid' = rid /\ holder' = holder
      /\ observed' = observed
  BY SerialConnect DEF FinalizeCdc, memory
<1>2. \A q \in Runners : q # p => pc'[q] = pc[q]
  BY DEF FinalizeCdc, Goto, TypeOK, Processes
<1>3. ASSUME NEW j \in Jobs PROVE listing'[j].seen = listing[j].seen
  <2>1. CASE listing' = listing
    BY <2>1
  <2>2. CASE ApplyCdc(rid[p])
    <3>1. listing[j] \in ListingRow
      BY DEF TypeOK, Tables, ListingTable
    <3>2. listing'[j] = Reconciled(rid[p], j)
      BY <2>2 DEF ApplyCdc
    <3>3. QED BY <3>1, <3>2 DEF Reconciled, ListingRow
  <2>3. QED BY <2>1, <2>2, FinalizeCdcCases
<1>4. QED BY <1>1, <1>2, <1>3, FinalizeCdcEffect, SerialKept

LEMMA SerialStep ==
  ASSUME "session_lost" \notin Faults, TypeOK, Owners, Register, Serial, [Next]_vars
  PROVE  Serial'
<1>1. CASE UNCHANGED vars
  BY <1>1 DEF vars, tables, memory, Serial
<1>2. ASSUME NEW p \in Runners, Step(p) PROVE Serial'
  <2>1. ~LoseSession(p)
    BY DEF LoseSession
  <2>2. QED
    BY <1>2, <2>1, SourceRunSerial, LeaveRunSerial, StartRunSerial, PrepareCdcRunSerial,
       FinishRunSerial, ListingTargetSerial, UpsertDiscoveredJobsSerial, FinalizeCdcSerial
       DEF Step
<1>3. QED BY <1>1, <1>2 DEF Next

LEMMA PendingStep ==
  ASSUME TypeOK, Owners, Register, Serial, PendingIsNewest, [Next]_vars
  PROVE  PendingIsNewest'
<1> DEFINE Newest(r) == /\ runs[r].status = "running"
                        /\ \A n \in RunId : n > r => runs[n].phase = "none"
<1>1. CASE runs' = runs
  BY <1>1 DEF PendingIsNewest
<1>2. ASSUME NEW p \in Runners, StartRun(p) PROVE PendingIsNewest'
  <2>1. PICK r \in RunId : /\ runs[r].status = "none"
                           /\ runs' = [runs EXCEPT ![r].status = "running"]
    BY <1>2 DEF StartRun
  <2>2. \A n \in RunId : /\ runs'[n].cdc = runs[n].cdc
                         /\ runs'[n].phase = runs[n].phase
                         /\ runs'[n].status = IF n = r THEN "running" ELSE runs[n].status
    BY <2>1 DEF TypeOK, Tables, RunTable, RunRow
  <2>3. QED BY <2>2 DEF PendingIsNewest
<1>3. ASSUME NEW p \in Runners, PrepareCdcRun(p) PROVE PendingIsNewest'
  <2>1. pc[p] = "prepare"
    BY <1>3 DEF PrepareCdcRun
  <2>2. rid[p] \in RunId /\ rid[p] # 0 /\ runs[rid[p]].status = "running"
    <3>1. rid[p] \in RunId
      BY <2>1, OwnRun
    <3>2. QED BY <2>1, <3>1, MaxRunsAssumption DEF Serial, RunId
  <2>3. ASSUME NEW n \in RunId, n > rid[p]
        PROVE  /\ runs'[n].phase = "none"
               /\ runs'[n].cdc # "pending"
    <3>1. runs[n].status = "none"
      BY <2>2, <2>3 DEF Serial
    <3>2. runs[n].phase = "none" /\ runs[n].cdc = "not_applicable"
      BY <3>1 DEF Register
    <3>3. n # rid[p] /\ ~Interrupted(rid[p], n)
      BY <3>2, <2>3, <2>2, MaxRunsAssumption DEF Interrupted, RunId
    <3>4. QED BY <1>3, <3>2, <3>3, PrepareCdcRunEffect
  <2>4. ASSUME NEW n \in RunId, n < rid[p] PROVE runs'[n].cdc # "pending"
    <3>1. n # rid[p]
      BY <2>2, <2>4, MaxRunsAssumption DEF RunId
    <3>2. CASE Interrupted(rid[p], n)
      BY <1>3, <3>1, <3>2, PrepareCdcRunEffect
    <3>3. CASE ~Interrupted(rid[p], n)
      BY <1>3, <2>4, <3>1, <3>3, PrepareCdcRunEffect DEF Interrupted
    <3>4. QED BY <3>2, <3>3
  <2>5. ASSUME NEW r \in RunId, runs'[r].cdc = "pending" PROVE r = rid[p]
    BY <2>2, <2>3, <2>4, <2>5, MaxRunsAssumption DEF RunId
  <2>6. runs'[rid[p]].status = "running"
    BY <1>3, <2>2, PrepareCdcRunEffect
  <2>7. QED BY <2>3, <2>5, <2>6 DEF PendingIsNewest
<1>4. ASSUME NEW p \in Runners, FinishRun(p) PROVE PendingIsNewest'
  BY <1>4, FinishRunEffect DEF PendingIsNewest
<1>5. ASSUME NEW p \in Runners, FinalizeCdc(p) PROVE PendingIsNewest'
  <2>1. \A n \in RunId : runs'[n].cdc = "pending" => runs[n].cdc = "pending"
    BY <1>5, FinalizeCdcEffect DEF Decided
  <2>2. QED BY <1>5, <2>1, FinalizeCdcEffect DEF PendingIsNewest
<1>6. ASSUME NEW p \in Runners, Step(p) PROVE PendingIsNewest'
  <2>1. CASE SourceRun(p) \/ LeaveRun(p) \/ LoseSession(p)
    BY <1>1, <2>1 DEF SourceRun, LeaveRun, LoseSession, tables
  <2>2. CASE \/ StartDiscoveryTarget(p) \/ FinishDiscoveryTarget(p)
             \/ RecordDiscoveryCoverage(p)
    BY <1>1, <2>2 DEF StartDiscoveryTarget, FinishDiscoveryTarget, RecordDiscoveryCoverage
  <2>3. CASE \E S \in SUBSET Jobs \ {{}} : UpsertDiscoveredJobs(p, S)
    BY <1>1, <2>3 DEF UpsertDiscoveredJobs
  <2>4. QED BY <1>2, <1>3, <1>4, <1>5, <1>6, <2>1, <2>2, <2>3 DEF Step
<1>7. CASE UNCHANGED vars
  BY <1>1, <1>7 DEF vars, tables
<1>8. QED BY <1>6, <1>7 DEF Next

-----------------------------------------------------------------------------
(* Theorems while no session is lost.                                      *)

LEMMA InitSerial == Init => Serial /\ PendingIsNewest
BY DEF Init, Serial, PendingIsNewest

THEOREM SerialHolds ==
  ASSUME "session_lost" \notin Faults
  PROVE  Spec => [](Bookkeeping /\ Serial /\ PendingIsNewest)
<1> DEFINE Inv == Bookkeeping /\ Serial /\ PendingIsNewest
<1>1. Init => Inv
  BY InitBookkeeping, InitSerial
<1>2. Inv /\ [Next]_vars => Inv'
  <2> SUFFICES ASSUME Inv, [Next]_vars PROVE Inv'
    OBVIOUS
  <2>1. TypeOK /\ Owners /\ Register /\ Applied /\ ListingAgrees
    BY DEF Bookkeeping
  <2>2. Bookkeeping'
    BY <2>1, TypeStep, OwnersStep, AgreesStep DEF Bookkeeping
  <2>3. Serial'
    BY <2>1, SerialStep
  <2>4. PendingIsNewest'
    BY <2>1, PendingStep
  <2>5. QED BY <2>2, <2>3, <2>4
<1>3. QED BY <1>1, <1>2, PTL DEF Spec

\* What an interrupted run left undecided can never be applied late: only the newest
\* prepared run is undecided, and only while it runs.
THEOREM PendingIsNewestHolds ==
  ASSUME "session_lost" \notin Faults
  PROVE  Spec => []PendingIsNewest
BY SerialHolds, PTL

\* A job observed by the applied run is active afterwards.
THEOREM ObservedAreActive ==
  ASSUME "session_lost" \notin Faults
  PROVE  Spec => ObservedIsActive
<1> DEFINE Active == source'.applied # source.applied =>
                       \A j \in observed[source'.applied] : listing'[j].status = "active"
<1>1. Bookkeeping /\ Serial /\ PendingIsNewest /\ [Next]_vars => [Active]_vars
  <2> SUFFICES ASSUME Bookkeeping, Serial, NEW p \in Runners, Step(p),
                      source'.applied # source.applied,
                      NEW j \in observed[source'.applied]
               PROVE  listing'[j].status = "active"
    BY DEF Next
  <2>1. FinalizeCdc(p)
    BY QuietStep DEF Bookkeeping
  <2>2. rid[p] \in RunId /\ rid[p] # 0
    BY <2>1, OwnRun, MaxRunsAssumption DEF Bookkeeping, FinalizeCdc, RunId
  <2>3. ApplyCdc(rid[p])
    <3>1. ~UNCHANGED source
      OBVIOUS
    <3>2. QED BY <2>1, <3>1, FinalizeCdcCases DEF Bookkeeping
  <2>4. source'.applied = rid[p]
    BY <2>3 DEF ApplyCdc
  <2>5. j \in Jobs /\ listing[j].seen = rid[p]
    BY <2>2, <2>4 DEF Serial, Bookkeeping, TypeOK, Tables
  <2>6. listing[j] \in ListingRow
    BY <2>5 DEF Bookkeeping, TypeOK, Tables, ListingTable
  <2>7. listing'[j] = Reconciled(rid[p], j)
    BY <2>3, <2>5 DEF ApplyCdc
  <2>8. QED BY <2>5, <2>6, <2>7 DEF Reconciled, ListingRow
<1>2. QED BY <1>1, SerialHolds, PTL DEF Spec, ObservedIsActive
=============================================================================
