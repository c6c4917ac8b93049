------------------------ MODULE SqliteState_proofs -------------------------
(***************************************************************************)
(* Proofs about SqliteState, for every set of jobs, bodies and processes   *)
(* and every bound.  Inv holds whatever processes are at work; Solo is     *)
(* what holds besides while one works alone.  Each action is taken to a    *)
(* few facts about the rows it writes, from which the parts of the         *)
(* invariant follow.                                                       *)
(***************************************************************************)
EXTENDS SqliteState, FiniteSetTheorems, SequenceTheorems, TLAPS

-----------------------------------------------------------------------------
(* The inductive invariant: what holds of any processes at work.             *)

Holding == {"fetch", "validate", "upload", "stored", "failed"}
Ready == {"raw_ready", "storage_missing", "storage_corrupt"}

Types ==
    /\ job \in [Jobs -> JobRow]
    /\ attempt \in [Jobs -> Seq(AttemptRow)]
    /\ tries \in [Jobs -> Seq(TryRow)]
    /\ raw \in [Jobs -> RawRow]
    /\ file \in [Jobs -> Body]
    /\ proc \in [Procs -> Process]
    /\ setting \in Settings

\* Only a process of the crew does anything.
CrewOnly == \A p \in Procs : p \notin setting.crew => proc[p].pc = "off"

\* Attempt n of job j has marked its page; some attempt of j marked body c.
Marked(j, n) == n \in DOMAIN attempt[j] /\ attempt[j][n].sha # None
Served(j, c) == \E n \in DOMAIN attempt[j] : attempt[j][n].sha = c

Counted == \A j \in Jobs : Len(attempt[j]) = job[j].count

\* What a process remembers still fits the tables, whoever wrote them meanwhile.
RecallsUploads(me) ==
    me.pc = "uploads" =>
        /\ \A u \in me.todo : Marked(u[1], u[2])
        /\ me.job # None => Marked(me.job, me.n) /\ (me.body # None => Served(me.job, me.body))

RecallsRaw(me) ==
    /\ me.pc \in {"audit", "audited"} => \A j \in me.checks : raw[j].sha # None
    /\ me.pc = "audited" => me.job \in Jobs /\ raw[me.job].sha # None

RecallsPage(me) ==
    /\ me.pc \in Holding => me.job \in Jobs /\ me.n \in DOMAIN attempt[me.job]
    /\ me.pc \in {"fetch", "validate"} => attempt[me.job][me.n].sha = None
    /\ me.pc \in {"validate", "upload", "stored"} => me.body \in Contents
    /\ me.pc \in {"upload", "stored"} => attempt[me.job][me.n].sha = me.body

RecallsTry(me) ==
    me.pc \in {"read", "verdict"} =>
        me.job \in Jobs /\ me.n \in DOMAIN tries[me.job] /\ raw[me.job].sha # None

Recalls(me) == RecallsUploads(me) /\ RecallsRaw(me) /\ RecallsPage(me) /\ RecallsTry(me)

Memory == \A p \in Procs : Recalls(proc[p])

\* No two processes hold one attempt.
Apart ==
    \A p, q \in Procs :
        p # q /\ proc[p].pc \in Holding /\ proc[q].pc \in Holding
            => proc[p].job # proc[q].job \/ proc[p].n # proc[q].n

FileIsServed == \A j \in Jobs : file[j] # None => Served(j, file[j])

UploadIsMarked ==
    \A j \in Jobs : \A n \in DOMAIN attempt[j] :
        attempt[j][n].status = "uploading" => attempt[j][n].sha # None

UploadIsOpen ==
    \A j \in Jobs : job[j].status = "uploading"
        => \E n \in DOMAIN attempt[j] : attempt[j][n].status = "uploading"

\* Only the last try of a page is under way.
LastTryIsOpen ==
    \A j \in Jobs :
        /\ Len(tries[j]) <= MaxParses
        /\ \A i \in DOMAIN tries[j] : tries[j][i].status = "parsing" => i = Len(tries[j])

Inv ==
    /\ Types /\ CrewOnly /\ Counted /\ Memory /\ Apart
    /\ ReadyHasRow /\ FileIsServed /\ UploadIsMarked /\ UploadIsOpen /\ LastTryIsOpen

-----------------------------------------------------------------------------
(* The inductive invariant: what holds of a process that works alone.        *)

NewestOpen ==
    \A j \in Jobs : \A n \in DOMAIN attempt[j] : Open(attempt[j][n]) => n = Len(attempt[j])

Closed(j) == \A n \in DOMAIN attempt[j] : ~Open(attempt[j][n])

RawIsSettled == \A j \in Jobs : raw[j].sha # None => job[j].status \in Ready /\ Closed(j)

FileIsRaw == ~setting.lossy => \A j \in Jobs : raw[j].sha # None => file[j] = raw[j].sha

Quiet(j) == job[j].status \notin InFlight /\ Closed(j)

\* The process knows every upload that is under way ...
KnowsUploads(me) ==
    me.pc = "uploads" =>
        /\ \A j \in Jobs : \A n \in DOMAIN attempt[j] :
             attempt[j][n].status = "uploading"
                 <=> <<j, n>> \in me.todo \/ (j = me.job /\ n = me.n)
        /\ <<me.job, me.n>> \notin me.todo
        /\ me.job # None /\ ~setting.lossy => me.body = file[me.job]

\* ... and afterwards nothing is under way but what it holds itself.
KnowsRest(me) ==
    /\ me.pc \in {"audit", "audited", "discover", "select"} => \A j \in Jobs : Quiet(j)
    /\ me.pc \in Holding =>
        /\ \A j \in Jobs \ {me.job} : Quiet(j)
        /\ me.n = Len(attempt[me.job])
        /\ attempt[me.job][me.n].status =
             IF me.pc \in {"fetch", "validate"} THEN "fetching" ELSE "uploading"
    /\ me.pc = "stored" /\ ~setting.lossy => file[me.job] = me.body

Knows == \A p \in setting.crew : KnowsUploads(proc[p]) /\ KnowsRest(proc[p])

Solo == Alone => NewestOpen /\ RawIsSettled /\ FileIsRaw /\ Knows

-----------------------------------------------------------------------------
(* What a transaction writes, row by row.                                    *)

\* SetJob writes the status of one job and leaves its count.
LEMMA JobIsSet ==
  ASSUME job \in [Jobs -> JobRow], NEW j \in Jobs, NEW s \in JobStatus, NEW d \in BOOLEAN,
         SetJob(j, s, d)
  PROVE  /\ job' \in [Jobs -> JobRow]
         /\ job'[j].status = s
         /\ \A k \in Jobs : job'[k].count = job[k].count /\ (k # j => job'[k] = job[k])
<1>1. PICK r : r = [job[j] EXCEPT !.status = s, !.due = d]
  OBVIOUS
<1>2. r \in JobRow /\ r.status = s /\ r.count = job[j].count
  BY <1>1 DEF JobRow
<1>3. job' = [job EXCEPT ![j] = r]
  BY <1>1 DEF SetJob
<1>4. QED BY <1>2, <1>3

\* A job whose status alone is written.
LEMMA StatusIsSet ==
  ASSUME job \in [Jobs -> JobRow], NEW j \in Jobs, NEW s \in JobStatus,
         job' = [job EXCEPT ![j].status = s]
  PROVE  /\ job' \in [Jobs -> JobRow]
         /\ job'[j].status = s
         /\ \A k \in Jobs : job'[k].count = job[k].count /\ (k # j => job'[k] = job[k])
<1>1. PICK r : r = [job[j] EXCEPT !.status = s]
  OBVIOUS
<1>2. r \in JobRow /\ r.status = s /\ r.count = job[j].count
  BY <1>1 DEF JobRow
<1>3. job' = [job EXCEPT ![j] = r]
  BY <1>1
<1>4. QED BY <1>2, <1>3

\* One attempt of one job is replaced by another row.
LEMMA AttemptIsPut ==
  ASSUME attempt \in [Jobs -> Seq(AttemptRow)], NEW j \in Jobs,
         NEW n \in DOMAIN attempt[j], NEW r \in AttemptRow,
         attempt' = [attempt EXCEPT ![j][n] = r]
  PROVE  /\ attempt' \in [Jobs -> Seq(AttemptRow)]
         /\ \A k \in Jobs : Len(attempt'[k]) = Len(attempt[k])
                            /\ DOMAIN attempt'[k] = DOMAIN attempt[k]
                            /\ (k # j => attempt'[k] = attempt[k])
         /\ attempt'[j][n] = r
         /\ \A i \in DOMAIN attempt[j] : i # n => attempt'[j][i] = attempt[j][i]
<1>1. PICK t : t = [attempt[j] EXCEPT ![n] = r]
  OBVIOUS
<1>2. attempt[j] \in Seq(AttemptRow)
  OBVIOUS
<1>3. t \in Seq(AttemptRow) /\ Len(t) = Len(attempt[j]) /\ DOMAIN t = DOMAIN attempt[j]
  BY <1>1, <1>2
<1>4. t[n] = r /\ \A i \in DOMAIN attempt[j] : i # n => t[i] = attempt[j][i]
  BY <1>1, <1>2
<1>5. attempt' = [attempt EXCEPT ![j] = t]
  BY <1>1
<1>6. QED BY <1>3, <1>4, <1>5

\* SetAttempt writes a status and leaves the marked body.
LEMMA AttemptIsSet ==
  ASSUME attempt \in [Jobs -> Seq(AttemptRow)], NEW j \in Jobs,
         NEW n \in DOMAIN attempt[j], NEW s \in AttemptStatus, SetAttempt(j, n, s)
  PROVE  /\ attempt' \in [Jobs -> Seq(AttemptRow)]
         /\ \A k \in Jobs : Len(attempt'[k]) = Len(attempt[k])
                            /\ DOMAIN attempt'[k] = DOMAIN attempt[k]
                            /\ (k # j => attempt'[k] = attempt[k])
         /\ attempt'[j][n].status = s
         /\ attempt'[j][n].sha = attempt[j][n].sha
         /\ \A i \in DOMAIN attempt[j] : i # n => attempt'[j][i] = attempt[j][i]
<1>1. PICK r : r = [attempt[j][n] EXCEPT !.status = s]
  OBVIOUS
<1>2. attempt[j][n] \in AttemptRow
  OBVIOUS
<1>3. r \in AttemptRow /\ r.status = s /\ r.sha = attempt[j][n].sha
  BY <1>1, <1>2 DEF AttemptRow
<1>4. attempt' = [attempt EXCEPT ![j][n] = r]
  BY <1>1 DEF SetAttempt
<1>5. QED BY <1>3, <1>4, AttemptIsPut

\* The process that acts goes on with memory r; the others keep theirs.
LEMMA ProcIsPut ==
  ASSUME proc \in [Procs -> Process], NEW p \in Procs, NEW r \in Process,
         proc' = [proc EXCEPT ![p] = r]
  PROVE  /\ proc' \in [Procs -> Process]
         /\ proc'[p] = r
         /\ \A q \in Procs : q # p => proc'[q] = proc[q]
  OBVIOUS

-----------------------------------------------------------------------------
(* What later steps leave to a process that remembers the tables.            *)

ShasKept ==
    \A j \in Jobs : \A n \in DOMAIN attempt[j] :
        n \in DOMAIN attempt'[j]
        /\ (attempt[j][n].sha # None => attempt'[j][n].sha = attempt[j][n].sha)
RawKept == \A j \in Jobs : raw[j].sha # None => raw'[j].sha = raw[j].sha
TriesKept == \A j \in Jobs : DOMAIN tries[j] \subseteq DOMAIN tries'[j]

\* The others remember what they did, and their unmarked attempts stay unmarked.
OthersKept(p) ==
    \A q \in Procs : q # p =>
        /\ proc'[q] = proc[q]
        /\ proc[q].pc \in {"fetch", "validate"}
             => attempt'[proc[q].job][proc[q].n].sha = attempt[proc[q].job][proc[q].n].sha

LEMMA ServedKept ==
  ASSUME NEW j \in Jobs, NEW c, c # None, ShasKept, Served(j, c)
  PROVE  Served(j, c)'
  BY DEF Served, ShasKept

LEMMA UploadsRecalled ==
  ASSUME NEW me \in Process, ShasKept, RecallsUploads(me)
  PROVE  RecallsUploads(me)'
<1> SUFFICES ASSUME me.pc = "uploads"
             PROVE  /\ \A u \in me.todo : Marked(u[1], u[2])'
                    /\ me.job # None => /\ Marked(me.job, me.n)'
                                        /\ me.body # None => Served(me.job, me.body)'
  BY DEF RecallsUploads
<1>0. me.todo \subseteq Pending /\ me.job \in Jobs \cup {None}
  BY DEF Process
<1>1. ASSUME NEW j \in Jobs, NEW n, Marked(j, n)
      PROVE  Marked(j, n)'
  BY <1>1 DEF Marked, ShasKept
<1>2. \A u \in me.todo : u[1] \in Jobs /\ Marked(u[1], u[2])
  BY <1>0 DEF RecallsUploads, Pending
<1>3. \A u \in me.todo : Marked(u[1], u[2])'
  BY <1>1, <1>2
<1>4. me.job # None => Marked(me.job, me.n)'
  BY <1>0, <1>1 DEF RecallsUploads
<1>5. me.job # None /\ me.body # None => Served(me.job, me.body)'
  BY <1>0, ServedKept DEF RecallsUploads
<1>6. QED BY <1>3, <1>4, <1>5

LEMMA RawRecalled ==
  ASSUME NEW me \in Process, RawKept, RecallsRaw(me)
  PROVE  RecallsRaw(me)'
<1>1. me.checks \subseteq Jobs
  BY DEF Process
<1>2. QED BY <1>1 DEF RecallsRaw, RawKept

LEMMA TryRecalled ==
  ASSUME NEW me \in Process, RawKept, TriesKept, RecallsTry(me)
  PROVE  RecallsTry(me)'
  BY DEF RecallsTry, RawKept, TriesKept

LEMMA PageRecalled ==
  ASSUME NEW me \in Process, ShasKept, RecallsPage(me),
         me.pc \in {"fetch", "validate"}
           => attempt'[me.job][me.n].sha = attempt[me.job][me.n].sha
  PROVE  RecallsPage(me)'
<1>1. me.pc \in {"fetch", "validate", "upload", "stored"} => me.pc \in Holding
  BY DEF Holding
<1>2. me.pc \in Holding => me.n \in DOMAIN attempt'[me.job]
  BY DEF RecallsPage, ShasKept
<1>3. me.pc \in {"upload", "stored"} => attempt'[me.job][me.n].sha = me.body
  <2>1. None \notin Contents
    BY JobsAssumption DEF JobsAssumption
  <2>2. QED BY <1>1, <2>1 DEF RecallsPage, ShasKept
<1>4. QED BY <1>2, <1>3 DEF RecallsPage

\* So everyone still remembers well if the one that acted does.
LEMMA MemoryKept ==
  ASSUME proc \in [Procs -> Process], NEW p \in Procs, Memory,
         ShasKept, RawKept, TriesKept, OthersKept(p), Recalls(proc[p])'
  PROVE  Memory'
<1> SUFFICES ASSUME NEW q \in Procs, q # p
             PROVE  Recalls(proc[q])'
  BY DEF Memory
<1>1. PICK me \in Process : me = proc[q]
  OBVIOUS
<1>2. Recalls(me)
  BY <1>1 DEF Memory
<1>3. RecallsUploads(me)' /\ RecallsRaw(me)' /\ RecallsTry(me)'
  BY <1>2, UploadsRecalled, RawRecalled, TryRecalled DEF Recalls
<1>4. RecallsPage(me)'
  <2>1. me.pc \in {"fetch", "validate"}
           => attempt'[me.job][me.n].sha = attempt[me.job][me.n].sha
    BY <1>1 DEF OthersKept
  <2>2. QED BY <1>2, <2>1, PageRecalled DEF Recalls
<1>5. proc'[q] = me
  BY <1>1 DEF OthersKept
<1>6. Recalls(me)'
  BY <1>3, <1>4 DEF Recalls
<1>7. QED BY <1>5, <1>6 DEF Recalls, RecallsUploads, RecallsRaw, RecallsPage, RecallsTry

\* Whoever goes on holding the attempt it held, or none, stays apart.
LEMMA ApartKept ==
  ASSUME NEW p \in Procs, Apart, OthersKept(p),
         proc'[p].pc \in Holding
           => proc[p].pc \in Holding /\ proc'[p].job = proc[p].job /\ proc'[p].n = proc[p].n
  PROVE  Apart'
  BY DEF Apart, OthersKept

LEMMA CrewKept ==
  ASSUME NEW p \in setting.crew, CrewOnly, OthersKept(p), setting' = setting
  PROVE  CrewOnly'
  BY DEF CrewOnly, OthersKept

\* The parts that speak of the rows alone.
LEMMA RowsKept ==
  ASSUME Inv, UNCHANGED tables
  PROVE  /\ Counted' /\ ReadyHasRow' /\ UploadIsMarked' /\ UploadIsOpen' /\ LastTryIsOpen'
         /\ ShasKept /\ RawKept /\ TriesKept
  BY DEF Inv, tables, Counted, ReadyHasRow, UploadIsMarked, UploadIsOpen,
         LastTryIsOpen, ShasKept, RawKept, TriesKept

-----------------------------------------------------------------------------
(* Steps that write no row: a process looks, turns to something else or ends. *)

Idle == {"off", "discover", "select", "parse_recover", "parse_claim"}

LEMMA IdleRecalls ==
  ASSUME NEW r \in Process, r.pc \in Idle
  PROVE  Recalls(r)
  BY DEF Idle, Recalls, RecallsUploads, RecallsRaw, RecallsPage, RecallsTry, Holding

LEMMA NextIsIdle ==
  ASSUME proc \in [Procs -> Process], NEW p \in Procs, NEW pc \in Idle, Next1(p, pc)
  PROVE  \E r \in Process : r.pc = pc /\ proc' = [proc EXCEPT ![p] = r]
<1>1. PICK r : r = [Off EXCEPT !.pc = pc]
  OBVIOUS
<1>2. r \in Process /\ r.pc = pc
  BY <1>1 DEF Off, Process, Idle, Body
<1>3. QED BY <1>1, <1>2 DEF Next1

LEMMA ToKeeps ==
  ASSUME proc \in [Procs -> Process], NEW p \in Procs,
         NEW pc \in Idle \cup Holding, To(p, pc)
  PROVE  \E r \in Process : /\ r.pc = pc /\ r.job = proc[p].job /\ r.n = proc[p].n
                            /\ r.body = proc[p].body
                            /\ proc' = [proc EXCEPT ![p] = r]
<1>1. PICK r : r = [proc[p] EXCEPT !.pc = pc]
  OBVIOUS
<1>2. r \in Process /\ r.pc = pc /\ r.job = proc[p].job /\ r.n = proc[p].n
      /\ r.body = proc[p].body
  BY <1>1 DEF Process, Idle, Holding
<1>3. QED BY <1>1, <1>2 DEF To

\* A process that recalls the tables as they are may go anywhere but to another page.
LEMMA LookStep ==
  ASSUME Inv, NEW p \in Procs, p \in setting.crew, NEW r \in Process, Recalls(r),
         r.pc \notin Holding, proc' = [proc EXCEPT ![p] = r],
         UNCHANGED <<tables, file, setting>>
  PROVE  Inv'
<1>1. Types'
  BY ProcIsPut DEF Inv, Types, tables
<1>2. proc'[p] = r /\ \A q \in Procs : q # p => proc'[q] = proc[q]
  BY ProcIsPut DEF Inv, Types
<1>3. OthersKept(p)
  BY <1>2 DEF OthersKept, tables
<1>4. Recalls(proc[p])'
  BY <1>2 DEF Recalls, RecallsUploads, RecallsRaw, RecallsPage, RecallsTry, Marked, Served,
              tables
<1>5. Memory'
  BY <1>3, <1>4, RowsKept, MemoryKept DEF Inv, Types
<1>6. Apart'
  BY <1>2, <1>3, ApartKept DEF Inv
<1>7. CrewOnly'
  BY <1>3, CrewKept DEF Inv
<1>8. FileIsServed'
  BY DEF Inv, FileIsServed, Served, tables
<1>9. QED BY <1>1, <1>5, <1>6, <1>7, <1>8, RowsKept DEF Inv

LEMMA StartCrawlStep ==
  ASSUME Inv, NEW p \in Procs, StartCrawl(p)
  PROVE  Inv'
<1>1. PICK r : r = [Off EXCEPT !.pc = "uploads", !.todo = PendingUploads]
  OBVIOUS
<1>2. PendingUploads \subseteq Pending
  BY DEF PendingUploads
<1>3. r \in Process /\ r.pc = "uploads" /\ r.todo = PendingUploads /\ r.job = None
  BY <1>1, <1>2 DEF Off, Process, Body
<1>4. proc' = [proc EXCEPT ![p] = r] /\ UNCHANGED <<tables, file, setting>>
      /\ p \in setting.crew
  BY <1>1 DEF StartCrawl, At
<1>5. \A u \in PendingUploads : Marked(u[1], u[2])
  BY DEF Inv, UploadIsMarked, PendingUploads, Pending, Marked
<1>6. Recalls(r)
  BY <1>3, <1>5 DEF Recalls, RecallsUploads, RecallsRaw, RecallsPage, RecallsTry, Holding
<1>7. QED BY <1>3, <1>4, <1>6, LookStep DEF Holding

LEMMA StatUploadStep ==
  ASSUME Inv, NEW p \in Procs, StatUpload(p)
  PROVE  Inv'
<1>0. Types /\ p \in setting.crew /\ proc[p].pc = "uploads" /\ proc[p].job = None
      /\ UNCHANGED <<tables, file, setting>>
  BY DEF StatUpload, At, Inv
<1>1. PICK u \in proc[p].todo :
        proc' = [proc EXCEPT ![p].todo = @ \ {u}, ![p].job = u[1], ![p].n = u[2],
                             ![p].body = file[u[1]]]
  BY DEF StatUpload
<1>2. proc[p] \in Process /\ u \in Pending /\ u[1] \in Jobs /\ u[2] \in Nat
  BY <1>0 DEF Types, Process, Pending
<1>3. PICK c \in Body : c = file[u[1]]
  BY <1>0, <1>2 DEF Types
<1>4. PICK rest \in SUBSET Pending : rest = proc[p].todo \ {u}
  BY <1>2 DEF Process
<1>5. PICK r : r = [proc[p] EXCEPT !.todo = rest, !.job = u[1], !.n = u[2], !.body = c]
  OBVIOUS
<1>6. r \in Process /\ r.pc = "uploads" /\ r.todo = rest /\ r.job = u[1] /\ r.n = u[2]
      /\ r.body = c
  BY <1>0, <1>2, <1>5 DEF Process
<1>7. proc' = [proc EXCEPT ![p] = r]
  BY <1>1, <1>3, <1>4, <1>5, Zenon
<1>8. RecallsUploads(proc[p])
  BY DEF Inv, Memory, Recalls
<1>9. \A v \in rest : Marked(v[1], v[2])
  BY <1>0, <1>4, <1>8 DEF RecallsUploads
<1>10. Marked(u[1], u[2])
  BY <1>0, <1>8 DEF RecallsUploads
<1>11. c # None => Served(u[1], c)
  BY <1>2, <1>3 DEF Inv, FileIsServed
<1>12. Recalls(r)
  BY <1>6, <1>9, <1>10, <1>11
     DEF Recalls, RecallsUploads, RecallsRaw, RecallsPage, RecallsTry, Holding
<1>13. QED BY <1>0, <1>6, <1>7, <1>12, LookStep DEF Holding

LEMMA StatRawStep ==
  ASSUME Inv, NEW p \in Procs, StatRaw(p)
  PROVE  Inv'
<1>0. Types /\ p \in setting.crew /\ proc[p].pc = "audit"
      /\ UNCHANGED <<tables, file, setting>>
  BY DEF StatRaw, At, Inv
<1>1. PICK j \in proc[p].checks :
        proc' = [proc EXCEPT ![p].pc = "audited", ![p].job = j, ![p].body = file[j]]
  BY DEF StatRaw
<1>2. proc[p] \in Process /\ j \in Jobs
  BY <1>0 DEF Types, Process
<1>3. PICK c \in Body : c = file[j]
  BY <1>0, <1>2 DEF Types
<1>4. PICK r : r = [proc[p] EXCEPT !.pc = "audited", !.job = j, !.body = c]
  OBVIOUS
<1>5. r \in Process /\ r.pc = "audited" /\ r.checks = proc[p].checks /\ r.job = j
  BY <1>2, <1>4 DEF Process
<1>6. proc' = [proc EXCEPT ![p] = r]
  BY <1>1, <1>3, <1>4, Zenon
<1>7. \A k \in proc[p].checks : raw[k].sha # None
  BY <1>0 DEF Inv, Memory, Recalls, RecallsRaw
<1>8. Recalls(r)
  BY <1>2, <1>5, <1>7 DEF Recalls, RecallsUploads, RecallsRaw, RecallsPage, RecallsTry, Holding
<1>9. QED BY <1>0, <1>5, <1>6, <1>8, LookStep DEF Holding

LEMMA ReadFileStep ==
  ASSUME Inv, NEW p \in Procs, ReadFile(p)
  PROVE  Inv'
<1>0. Types /\ p \in setting.crew /\ proc[p].pc = "read"
      /\ proc' = [proc EXCEPT ![p].pc = "verdict", ![p].body = file[proc[p].job]]
      /\ UNCHANGED <<tables, file, setting>>
  BY DEF ReadFile, At, Inv
<1>1. RecallsTry(proc[p]) /\ proc[p] \in Process
  BY <1>0 DEF Inv, Memory, Recalls, Types
<1>2. PICK c \in Body : c = file[proc[p].job]
  BY <1>0, <1>1 DEF Types, RecallsTry
<1>3. PICK r : r = [proc[p] EXCEPT !.pc = "verdict", !.body = c]
  OBVIOUS
<1>4. r \in Process /\ r.pc = "verdict" /\ r.job = proc[p].job /\ r.n = proc[p].n
  BY <1>1, <1>3 DEF Process
<1>5. proc' = [proc EXCEPT ![p] = r]
  BY <1>0, <1>2, <1>3, Zenon
<1>6. Recalls(r)
  BY <1>0, <1>1, <1>4 DEF Recalls, RecallsUploads, RecallsRaw, RecallsPage, RecallsTry, Holding
<1>7. QED BY <1>0, <1>4, <1>5, <1>6, LookStep DEF Holding

\* EndRecovery, EndCrawl and StartParse only turn to something else.
LEMMA TurnStep ==
  ASSUME Inv, NEW p \in Procs, EndRecovery(p) \/ EndCrawl(p) \/ StartParse(p)
  PROVE  Inv'
<1>0. Types /\ p \in setting.crew /\ UNCHANGED <<tables, file, setting>>
  BY DEF EndRecovery, EndCrawl, StartParse, At, Inv
<1>1. PICK r \in Process : r.pc \in Idle /\ proc' = [proc EXCEPT ![p] = r]
  <2>1. \E pc \in Idle : Next1(p, pc) \/ To(p, pc)
    BY DEF EndRecovery, EndCrawl, StartParse, Idle
  <2>2. QED BY <1>0, <2>1, NextIsIdle, ToKeeps DEF Types
<1>2. Recalls(r)
  BY <1>1, IdleRecalls
<1>3. QED BY <1>0, <1>1, <1>2, LookStep DEF Holding, Idle

-----------------------------------------------------------------------------
(* Steps of a fetch.                                                         *)

LEMMA SavePageStep ==
  ASSUME Inv, NEW p \in Procs, SavePage(p)
  PROVE  Inv'
<1>0. Types /\ p \in setting.crew /\ proc[p].pc = "upload" /\ UNCHANGED <<tables, setting>>
      /\ RecallsPage(proc[p])
  BY DEF SavePage, At, Inv, Memory, Recalls
<1>1. PICK r \in Process :
        /\ r.pc \in {"stored", "failed"} /\ r.job = proc[p].job /\ r.n = proc[p].n
        /\ r.body = proc[p].body
        /\ proc' = [proc EXCEPT ![p] = r]
  <2>1. To(p, "stored") \/ To(p, "failed")
    BY DEF SavePage
  <2>2. QED BY <1>0, <2>1, ToKeeps DEF Types, Holding
<1>2. proc[p].job \in Jobs /\ proc[p].body \in Contents
      /\ proc[p].n \in DOMAIN attempt[proc[p].job]
      /\ attempt[proc[p].job][proc[p].n].sha = proc[p].body
  BY <1>0 DEF RecallsPage, Holding
<1>3. PICK c \in Body : c = proc[p].body
  BY <1>2 DEF Body
<1>4. file' = file \/ file' = [file EXCEPT ![proc[p].job] = c]
  BY <1>3 DEF SavePage
<1>5. Types'
  <2>1. file' \in [Jobs -> Body]
    BY <1>0, <1>4 DEF Types
  <2>2. QED BY <1>0, <1>1, <2>1, ProcIsPut DEF Types, tables
<1>6. proc'[p] = r /\ \A q \in Procs : q # p => proc'[q] = proc[q]
  BY <1>0, <1>1, ProcIsPut DEF Types
<1>7. OthersKept(p)
  BY <1>0, <1>6 DEF OthersKept, tables
<1>8. Recalls(proc[p])'
  BY <1>0, <1>1, <1>2, <1>6
     DEF Recalls, RecallsUploads, RecallsRaw, RecallsPage, RecallsTry, Holding, tables
<1>9. Memory'
  BY <1>0, <1>7, <1>8, RowsKept, MemoryKept DEF Inv, Types
<1>10. Apart'
  BY <1>0, <1>1, <1>6, <1>7, ApartKept DEF Inv, Holding
<1>11. CrewOnly'
  BY <1>0, <1>7, CrewKept DEF Inv
<1>12. FileIsServed'
  <2> SUFFICES ASSUME NEW j \in Jobs, file'[j] # None
               PROVE  \E n \in DOMAIN attempt[j] : attempt[j][n].sha = file'[j]
    BY <1>0 DEF FileIsServed, Served, tables
  <2>1. CASE file'[j] = file[j]
    BY <2>1 DEF Inv, FileIsServed, Served
  <2>2. CASE file'[j] # file[j]
    <3>1. j = proc[p].job /\ file'[j] = c
      BY <1>0, <1>4, <2>2 DEF Types
    <3>2. QED BY <1>2, <1>3, <3>1
  <2>3. QED BY <2>1, <2>2
<1>13. QED BY <1>0, <1>5, <1>9, <1>10, <1>11, <1>12, RowsKept DEF Inv

\* A transaction that closes an attempt and moves its job on.
LEMMA AttemptCloses ==
  ASSUME Inv, NEW j \in Jobs, NEW n \in DOMAIN attempt[j],
         NEW s \in AttemptStatus \ {"uploading"}, SetAttempt(j, n, s),
         NEW t \in JobStatus \ {"uploading"}, NEW d \in BOOLEAN, SetJob(j, t, d)
  PROVE  /\ job' \in [Jobs -> JobRow] /\ attempt' \in [Jobs -> Seq(AttemptRow)]
         /\ job'[j].status = t
         /\ \A k \in Jobs : k # j => job'[k] = job[k]
         /\ \A k \in Jobs : \A i \in DOMAIN attempt[k] :
              i \in DOMAIN attempt'[k] /\ attempt'[k][i].sha = attempt[k][i].sha
         /\ ShasKept /\ Counted' /\ UploadIsMarked' /\ UploadIsOpen'
<1>0. Types
  BY DEF Inv
<1>1. /\ job' \in [Jobs -> JobRow] /\ job'[j].status = t
      /\ \A k \in Jobs : job'[k].count = job[k].count /\ (k # j => job'[k] = job[k])
  BY <1>0, JobIsSet DEF Types
<1>2. /\ attempt' \in [Jobs -> Seq(AttemptRow)]
      /\ \A k \in Jobs : Len(attempt'[k]) = Len(attempt[k])
                         /\ DOMAIN attempt'[k] = DOMAIN attempt[k]
                         /\ (k # j => attempt'[k] = attempt[k])
      /\ attempt'[j][n].status = s
      /\ attempt'[j][n].sha = attempt[j][n].sha
      /\ \A i \in DOMAIN attempt[j] : i # n => attempt'[j][i] = attempt[j][i]
  BY <1>0, AttemptIsSet DEF Types
<1>3. \A k \in Jobs : \A i \in DOMAIN attempt[k] : attempt'[k][i].sha = attempt[k][i].sha
  BY <1>2
<1>4. ShasKept
  BY <1>2, <1>3 DEF ShasKept
<1>5. Counted'
  BY <1>1, <1>2 DEF Inv, Counted
<1>6. UploadIsMarked'
  <2> SUFFICES ASSUME NEW k \in Jobs, NEW i \in DOMAIN attempt[k],
                      attempt'[k][i].status = "uploading"
               PROVE  attempt'[k][i].sha # None
    BY <1>2 DEF UploadIsMarked
  <2>1. attempt'[k][i] = attempt[k][i]
    BY <1>2
  <2>2. QED BY <2>1 DEF Inv, UploadIsMarked
<1>7. UploadIsOpen'
  <2> SUFFICES ASSUME NEW k \in Jobs, job'[k].status = "uploading"
               PROVE  \E i \in DOMAIN attempt'[k] : attempt'[k][i].status = "uploading"
    BY DEF UploadIsOpen
  <2>1. k # j
    BY <1>1
  <2>2. QED BY <1>1, <1>2, <2>1 DEF Inv, UploadIsOpen
<1>8. QED BY <1>1, <1>2, <1>3, <1>4, <1>5, <1>6, <1>7

\* What fail_attempt leaves, whoever calls it and whatever the rows say by then.
LEMMA FailStep ==
  ASSUME Inv, NEW p \in Procs, p \in setting.crew, proc[p].pc \in Holding,
         NEW s \in {"fetch_error", "blocked", "invalid_response", "storage_error"},
         NEW retryable \in BOOLEAN, FailAttempt(p, s, retryable)
  PROVE  Inv'
<1> DEFINE j == proc[p].job
           n == proc[p].n
           t == AfterFailure(n, s, retryable)
<1>0. Types /\ RecallsPage(proc[p]) /\ UNCHANGED <<raw, tries, file, setting>>
  BY DEF Inv, Memory, Recalls, FailAttempt
<1>1. j \in Jobs /\ n \in DOMAIN attempt[j]
  BY <1>0 DEF RecallsPage
<1>2. t \in {"blocked", "permanent_error", "retryable_error"}
  BY DEF AfterFailure
<1>3. SetAttempt(j, n, s) /\ SetJob(j, t, t = "permanent_error")
  BY DEF FailAttempt
<1>4. PICK r \in Process : r.pc \in {"off", "select"} /\ proc' = [proc EXCEPT ![p] = r]
  <2>1. Next1(p, "off") \/ Next1(p, "select")
    BY DEF FailAttempt
  <2>2. QED BY <1>0, <2>1, NextIsIdle DEF Types, Idle
<1> HIDE DEF j, n, t
<1>5. /\ job' \in [Jobs -> JobRow] /\ attempt' \in [Jobs -> Seq(AttemptRow)]
      /\ job'[j].status = t
      /\ \A k \in Jobs : k # j => job'[k] = job[k]
      /\ \A k \in Jobs : \A i \in DOMAIN attempt[k] :
           i \in DOMAIN attempt'[k] /\ attempt'[k][i].sha = attempt[k][i].sha
      /\ ShasKept /\ Counted' /\ UploadIsMarked' /\ UploadIsOpen'
  <2>1. s \in AttemptStatus \ {"uploading"} /\ t \in JobStatus \ {"uploading"}
    BY <1>2 DEF AttemptStatus, JobStatus
  <2>2. PICK d \in BOOLEAN : SetJob(j, t, d)
    BY <1>3
  <2>3. QED BY <1>1, <1>3, <2>1, <2>2, AttemptCloses
<1>6. proc' \in [Procs -> Process] /\ proc'[p] = r
      /\ \A q \in Procs : q # p => proc'[q] = proc[q]
  BY <1>0, <1>4, ProcIsPut DEF Types
<1>7. OthersKept(p)
  BY <1>5, <1>6 DEF OthersKept, Inv, Memory, Recalls, RecallsPage, Holding
<1>8. RawKept /\ TriesKept
  BY <1>0 DEF RawKept, TriesKept
<1>9. Recalls(proc[p])'
  BY <1>4, <1>6 DEF Recalls, RecallsUploads, RecallsRaw, RecallsPage, RecallsTry, Holding
<1>10. Memory'
  BY <1>0, <1>5, <1>7, <1>8, <1>9, MemoryKept DEF Inv, Types
<1>11. Apart'
  BY <1>4, <1>6, <1>7, ApartKept DEF Inv, Holding
<1>12. CrewOnly'
  BY <1>0, <1>7, CrewKept DEF Inv
<1>13. ReadyHasRow'
  <2> SUFFICES ASSUME NEW k \in Jobs
               PROVE  /\ job'[k].status \in Ready => raw[k].sha # None
                      /\ raw[k].sha # None => Served(k, raw[k].sha)'
    BY <1>0 DEF ReadyHasRow, Ready, Served
  <2>1. job'[k].status \in Ready => raw[k].sha # None
    BY <1>2, <1>5 DEF Inv, ReadyHasRow, Ready
  <2>2. raw[k].sha # None => Served(k, raw[k].sha)'
    <3>1. raw[k].sha # None => Served(k, raw[k].sha)
      BY DEF Inv, ReadyHasRow, Served
    <3>2. QED BY <1>0, <1>5, <3>1, ServedKept DEF Served
  <2>3. QED BY <2>1, <2>2
<1>14. FileIsServed'
  BY <1>0, <1>5 DEF Inv, FileIsServed, Served
<1>15. LastTryIsOpen'
  BY <1>0 DEF Inv, LastTryIsOpen
<1>16. Types'
  BY <1>0, <1>5, <1>6 DEF Types
<1>17. QED BY <1>5, <1>10, <1>11, <1>12, <1>13, <1>14, <1>15, <1>16 DEF Inv

LEMMA FailuresStep ==
  ASSUME Inv, NEW p \in Procs, FetchFails(p) \/ RejectPage(p) \/ StorageFails(p)
  PROVE  Inv'
<1>1. PICK s \in {"fetch_error", "blocked", "invalid_response", "storage_error"},
           retryable \in BOOLEAN : FailAttempt(p, s, retryable)
  BY DEF FetchFails, RejectPage, StorageFails
<1>2. p \in setting.crew /\ proc[p].pc \in Holding
  BY DEF FetchFails, RejectPage, StorageFails, At, Holding
<1>3. QED BY <1>1, <1>2, FailStep

\* ReadyHasRow and FileIsServed stay true while rows are written over or kept.
LEMMA ServedStay ==
  ASSUME Inv, ShasKept, \A k \in Jobs : raw'[k].sha = raw[k].sha, UNCHANGED file,
         \A k \in Jobs : job'[k].status \in Ready => raw[k].sha # None
  PROVE  ReadyHasRow' /\ FileIsServed'
<1>1. ReadyHasRow'
  <2> SUFFICES ASSUME NEW k \in Jobs
               PROVE  raw[k].sha # None => Served(k, raw[k].sha)'
    BY DEF ReadyHasRow, Ready, Served
  <2>1. raw[k].sha # None => Served(k, raw[k].sha)
    BY DEF Inv, ReadyHasRow, Served
  <2>2. PICK c : c = raw[k].sha
    OBVIOUS
  <2>3. c # None => Served(k, c)'
    BY <2>1, <2>2 DEF ShasKept, Served
  <2>4. QED BY <2>2, <2>3 DEF Served
<1>2. FileIsServed'
  BY DEF Inv, FileIsServed, Served, ShasKept
<1>3. QED BY <1>1, <1>2

LEMMA FetchPageStep ==
  ASSUME Inv, NEW p \in Procs, FetchPage(p)
  PROVE  Inv'
<1>0. Types /\ p \in setting.crew /\ proc[p].pc = "fetch" /\ RecallsPage(proc[p])
      /\ proc[p] \in Process /\ UNCHANGED <<attempt, raw, tries, file, setting>>
      /\ SetJob(proc[p].job, "validating", job[proc[p].job].due)
  BY DEF FetchPage, At, Inv, Memory, Recalls, Types
<1>1. PICK c \in Contents : proc' = [proc EXCEPT ![p].pc = "validate", ![p].body = c]
  BY DEF FetchPage
<1>2. PICK r : r = [proc[p] EXCEPT !.pc = "validate", !.body = c]
  OBVIOUS
<1>3. r \in Process /\ r.pc = "validate" /\ r.job = proc[p].job /\ r.n = proc[p].n
      /\ r.body = c
  BY <1>0, <1>2 DEF Process, Body
<1>4. proc' = [proc EXCEPT ![p] = r]
  BY <1>1, <1>2, Zenon
<1>5. proc' \in [Procs -> Process] /\ proc'[p] = r
      /\ \A q \in Procs : q # p => proc'[q] = proc[q]
  BY <1>0, <1>3, <1>4, ProcIsPut DEF Types
<1>6. proc[p].job \in Jobs /\ proc[p].n \in DOMAIN attempt[proc[p].job]
      /\ attempt[proc[p].job][proc[p].n].sha = None
  BY <1>0 DEF RecallsPage, Holding
<1>7. /\ job' \in [Jobs -> JobRow] /\ job'[proc[p].job].status = "validating"
      /\ \A k \in Jobs : job'[k].count = job[k].count
                         /\ (k # proc[p].job => job'[k] = job[k])
  <2>1. job[proc[p].job].due \in BOOLEAN /\ "validating" \in JobStatus
    BY <1>0, <1>6 DEF Types, JobRow, JobStatus
  <2>2. PICK j \in Jobs, d \in BOOLEAN : j = proc[p].job /\ d = job[proc[p].job].due
    BY <1>6, <2>1
  <2>3. SetJob(j, "validating", d)
    BY <1>0, <2>2
  <2>4. QED BY <1>0, <2>1, <2>2, <2>3, JobIsSet DEF Types
<1>8. OthersKept(p)
  BY <1>0, <1>5 DEF OthersKept
<1>9. ShasKept /\ RawKept /\ TriesKept
  BY <1>0 DEF ShasKept, RawKept, TriesKept
<1>10. Recalls(proc[p])'
  BY <1>0, <1>3, <1>5, <1>6
     DEF Recalls, RecallsUploads, RecallsRaw, RecallsPage, RecallsTry, Holding
<1>11. Memory'
  BY <1>0, <1>8, <1>9, <1>10, MemoryKept DEF Inv, Types
<1>12. Apart'
  BY <1>0, <1>3, <1>5, <1>8, ApartKept DEF Inv, Holding
<1>13. CrewOnly'
  BY <1>0, <1>8, CrewKept DEF Inv
<1>14. ReadyHasRow' /\ FileIsServed'
  <2>1. \A k \in Jobs : job'[k].status \in Ready => raw[k].sha # None
    BY <1>7 DEF Inv, ReadyHasRow, Ready
  <2>2. QED BY <1>0, <1>9, <2>1, ServedStay
<1>15. Counted' /\ UploadIsMarked' /\ LastTryIsOpen'
  BY <1>0, <1>7 DEF Inv, Counted, UploadIsMarked, LastTryIsOpen
<1>16. UploadIsOpen'
  BY <1>0, <1>7 DEF Inv, UploadIsOpen
<1>17. Types'
  BY <1>0, <1>5, <1>7 DEF Types
<1>18. QED BY <1>11, <1>12, <1>13, <1>14, <1>15, <1>16, <1>17 DEF Inv

LEMMA MarkUploadingStep ==
  ASSUME Inv, NEW p \in Procs, MarkUploading(p)
  PROVE  Inv'
<1> DEFINE row == [status |-> "uploading", sha |-> proc[p].body]
<1>0. Types /\ p \in setting.crew /\ proc[p].pc = "validate" /\ RecallsPage(proc[p])
      /\ UNCHANGED <<raw, tries, file, setting>>
      /\ attempt' = [attempt EXCEPT ![proc[p].job][proc[p].n] = row]
      /\ job' = [job EXCEPT ![proc[p].job].status = "uploading"]
      /\ To(p, "upload")
  BY DEF MarkUploading, At, Inv, Memory, Recalls, Types
<1>1. proc[p].job \in Jobs /\ proc[p].n \in DOMAIN attempt[proc[p].job]
      /\ attempt[proc[p].job][proc[p].n].sha = None /\ proc[p].body \in Contents
  BY <1>0 DEF RecallsPage, Holding
<1>2. PICK j \in Jobs, n \in {proc[p].n} :
        j = proc[p].job /\ n = proc[p].n /\ n \in DOMAIN attempt[j]
  BY <1>1
<1>3. row \in AttemptRow /\ row.status = "uploading" /\ row.sha = proc[p].body
      /\ row.sha # None
  BY <1>1, JobsAssumption DEF AttemptRow, AttemptStatus, Body, JobsAssumption
<1> HIDE DEF row
<1>4. /\ attempt' \in [Jobs -> Seq(AttemptRow)]
      /\ \A k \in Jobs : Len(attempt'[k]) = Len(attempt[k])
                         /\ DOMAIN attempt'[k] = DOMAIN attempt[k]
                         /\ (k # j => attempt'[k] = attempt[k])
      /\ attempt'[j][n] = row
      /\ \A i \in DOMAIN attempt[j] : i # n => attempt'[j][i] = attempt[j][i]
  <2>1. attempt' = [attempt EXCEPT ![j][n] = row]
    BY <1>0, <1>2
  <2>2. QED BY <1>0, <1>2, <1>3, <2>1, AttemptIsPut DEF Types
<1>5. /\ job' \in [Jobs -> JobRow] /\ job'[j].status = "uploading"
      /\ \A k \in Jobs : job'[k].count = job[k].count /\ (k # j => job'[k] = job[k])
  <2>1. job' = [job EXCEPT ![j].status = "uploading"] /\ "uploading" \in JobStatus
    BY <1>0, <1>2 DEF JobStatus
  <2>2. QED BY <1>0, <2>1, StatusIsSet DEF Types
<1>6. PICK r \in Process :
        /\ r.pc = "upload" /\ r.job = j /\ r.n = n /\ r.body = proc[p].body
        /\ proc' = [proc EXCEPT ![p] = r]
  BY <1>0, <1>2, ToKeeps DEF Types, Holding
<1>7. proc' \in [Procs -> Process] /\ proc'[p] = r
      /\ \A q \in Procs : q # p => proc'[q] = proc[q]
  BY <1>0, <1>6, ProcIsPut DEF Types
<1>8. OthersKept(p)
  <2> SUFFICES ASSUME NEW q \in Procs, q # p, proc[q].pc \in {"fetch", "validate"}
               PROVE  attempt'[proc[q].job][proc[q].n].sha = attempt[proc[q].job][proc[q].n].sha
    BY <1>7 DEF OthersKept
  <2>1. proc[q].job # j \/ proc[q].n # n
    BY <1>0, <1>2 DEF Inv, Apart, Holding
  <2>2. proc[q].job \in Jobs /\ proc[q].n \in DOMAIN attempt[proc[q].job]
    BY DEF Inv, Memory, Recalls, RecallsPage, Holding
  <2>3. QED BY <1>4, <2>1, <2>2
<1>9. ShasKept
  <2> SUFFICES ASSUME NEW k \in Jobs, NEW i \in DOMAIN attempt[k], attempt[k][i].sha # None
               PROVE  attempt'[k][i].sha = attempt[k][i].sha
    BY <1>4 DEF ShasKept
  <2>1. k # j \/ i # n
    BY <1>1, <1>2
  <2>2. QED BY <1>4, <2>1
<1>10. RawKept /\ TriesKept
  BY <1>0 DEF RawKept, TriesKept
<1>11. Recalls(proc[p])'
  BY <1>1, <1>2, <1>3, <1>4, <1>6, <1>7
     DEF Recalls, RecallsUploads, RecallsRaw, RecallsPage, RecallsTry, Holding
<1>12. Memory'
  BY <1>0, <1>8, <1>9, <1>10, <1>11, MemoryKept DEF Inv, Types
<1>13. Apart'
  BY <1>0, <1>2, <1>6, <1>7, <1>8, ApartKept DEF Inv, Holding
<1>14. CrewOnly'
  BY <1>0, <1>8, CrewKept DEF Inv
<1>15. ReadyHasRow' /\ FileIsServed'
  <2>1. \A k \in Jobs : job'[k].status \in Ready => raw[k].sha # None
    BY <1>5 DEF Inv, ReadyHasRow, Ready
  <2>2. QED BY <1>0, <1>9, <2>1, ServedStay
<1>16. Counted' /\ LastTryIsOpen'
  BY <1>0, <1>4, <1>5 DEF Inv, Counted, LastTryIsOpen
<1>17. UploadIsMarked'
  <2> SUFFICES ASSUME NEW k \in Jobs, NEW i \in DOMAIN attempt[k],
                      attempt'[k][i].status = "uploading"
               PROVE  attempt'[k][i].sha # None
    BY <1>4 DEF UploadIsMarked
  <2>1. CASE k = j /\ i = n
    BY <1>3, <1>4, <2>1
  <2>2. CASE k # j \/ i # n
    <3>1. attempt'[k][i] = attempt[k][i]
      BY <1>4, <2>2
    <3>2. QED BY <3>1 DEF Inv, UploadIsMarked
  <2>3. QED BY <2>1, <2>2
<1>18. UploadIsOpen'
  <2> SUFFICES ASSUME NEW k \in Jobs, job'[k].status = "uploading"
               PROVE  \E i \in DOMAIN attempt'[k] : attempt'[k][i].status = "uploading"
    BY DEF UploadIsOpen
  <2>1. CASE k = j
    BY <1>2, <1>3, <1>4, <2>1
  <2>2. CASE k # j
    BY <1>4, <1>5, <2>2 DEF Inv, UploadIsOpen
  <2>3. QED BY <2>1, <2>2
<1>19. Types'
  BY <1>0, <1>4, <1>5, <1>7 DEF Types
<1>20. QED BY <1>12, <1>13, <1>14, <1>15, <1>16, <1>17, <1>18, <1>19 DEF Inv

\* A job that is made ready has its raw row, old or new, from a body it was served.
LEMMA RowStored ==
  ASSUME Inv, NEW j \in Jobs, NEW c \in Contents, ShasKept, UNCHANGED file,
         \E n \in DOMAIN attempt[j] : attempt[j][n].sha = c,
         \A k \in Jobs : k # j => raw'[k].sha = raw[k].sha /\ job'[k] = job[k],
         raw'[j].sha = c \/ (raw[j].sha # None /\ raw'[j].sha = raw[j].sha)
  PROVE  ReadyHasRow' /\ FileIsServed'
<1>0. c # None
  BY JobsAssumption DEF JobsAssumption
<1>1. ReadyHasRow'
  <2> SUFFICES ASSUME NEW k \in Jobs
               PROVE  /\ job'[k].status \in Ready => raw'[k].sha # None
                      /\ raw'[k].sha # None => Served(k, raw[k].sha)'
    BY DEF ReadyHasRow, Ready, Served
  <2>1. job'[k].status \in Ready => raw'[k].sha # None
    BY <1>0 DEF Inv, ReadyHasRow, Ready
  <2>2. CASE k # j \/ (raw[j].sha # None /\ raw'[j].sha = raw[j].sha)
    <3>1. PICK d : d = raw[k].sha /\ d = raw'[k].sha
      BY <2>2
    <3>2. d # None => Served(k, d)
      BY <3>1 DEF Inv, ReadyHasRow, Served
    <3>3. d # None => Served(k, d)'
      BY <3>2 DEF Served, ShasKept
    <3>4. QED BY <2>1, <3>1, <3>3 DEF Served
  <2>3. CASE k = j /\ raw'[j].sha = c
    <3>1. Served(j, c)
      BY DEF Served
    <3>2. Served(j, c)'
      BY <1>0, <3>1 DEF Served, ShasKept
    <3>3. QED BY <2>1, <2>3, <3>2 DEF Served
  <2>4. QED BY <2>1, <2>2, <2>3
<1>2. FileIsServed'
  BY DEF Inv, FileIsServed, Served, ShasKept
<1>3. QED BY <1>1, <1>2

LEMMA ClaimNextJobStep ==
  ASSUME Inv, NEW p \in Procs, ClaimNextJob(p)
  PROVE  Inv'
<1> DEFINE row == [status |-> "fetching", sha |-> None]
<1>0. Types /\ p \in setting.crew /\ proc[p].pc = "select" /\ proc[p] \in Process
      /\ UNCHANGED <<raw, tries, file, setting>>
  BY DEF ClaimNextJob, At, Inv, Types
<1>1. PICK j \in Jobs :
        /\ Claimable(j)
        /\ job' = [job EXCEPT ![j].status = "fetching", ![j].count = @ + 1, ![j].due = TRUE]
        /\ attempt' = [attempt EXCEPT ![j] = Append(@, row)]
        /\ proc' = [proc EXCEPT ![p].pc = "fetch", ![p].job = j, ![p].n = job[j].count + 1]
  BY DEF ClaimNextJob
<1>2. row \in AttemptRow /\ row.status = "fetching" /\ row.sha = None
  BY DEF AttemptRow, AttemptStatus, Body
<1> HIDE DEF row
<1>3. job[j] \in JobRow /\ attempt[j] \in Seq(AttemptRow) /\ Len(attempt[j]) = job[j].count
  BY <1>0 DEF Inv, Types, Counted
<1>4. PICK n : n = Len(attempt[j]) + 1
  OBVIOUS
<1>5. n \in 1 .. MaxAttempts /\ n = job[j].count + 1 /\ n \in Nat
  BY <1>1, <1>3, <1>4, LimitsAssumption DEF Claimable, JobRow, LimitsAssumption
<1>6. /\ attempt' \in [Jobs -> Seq(AttemptRow)]
      /\ \A k \in Jobs : k # j => attempt'[k] = attempt[k]
      /\ Len(attempt'[j]) = n /\ DOMAIN attempt'[j] = 1 .. n /\ attempt'[j][n] = row
      /\ \A i \in DOMAIN attempt[j] : i \in 1 .. n /\ i # n /\ attempt'[j][i] = attempt[j][i]
  <2>1. PICK t : t = Append(attempt[j], row)
    OBVIOUS
  <2>2. t \in Seq(AttemptRow) /\ Len(t) = n /\ DOMAIN t = 1 .. n /\ t[n] = row
        /\ \A i \in DOMAIN attempt[j] : i \in 1 .. n /\ i # n /\ t[i] = attempt[j][i]
    BY <1>2, <1>3, <1>4, <2>1
  <2>3. attempt' = [attempt EXCEPT ![j] = t]
    BY <1>1, <2>1
  <2>4. QED BY <1>0, <2>2, <2>3 DEF Types
<1>7. /\ job' \in [Jobs -> JobRow] /\ job'[j].status = "fetching" /\ job'[j].count = n
      /\ \A k \in Jobs : k # j => job'[k] = job[k]
  <2>1. PICK t : t = [job[j] EXCEPT !.status = "fetching", !.count = n, !.due = TRUE]
    OBVIOUS
  <2>2. n \in 0 .. MaxAttempts /\ "fetching" \in JobStatus
    BY <1>5 DEF JobStatus
  <2>3. t \in JobRow /\ t.status = "fetching" /\ t.count = n
    BY <1>3, <2>1, <2>2 DEF JobRow
  <2>4. job[j].count + 1 = n
    BY <1>5
  <2>5. job' = [job EXCEPT ![j] = t]
    BY <1>1, <2>1, <2>4, Zenon
  <2>6. QED BY <1>0, <2>3, <2>5 DEF Types
<1>8. PICK r : r = [proc[p] EXCEPT !.pc = "fetch", !.job = j, !.n = n]
  OBVIOUS
<1>9. r \in Process /\ r.pc = "fetch" /\ r.job = j /\ r.n = n
  BY <1>0, <1>5, <1>8 DEF Process
<1>10. proc' = [proc EXCEPT ![p] = r]
  <2>1. job[j].count + 1 = n
    BY <1>5
  <2>2. QED BY <1>1, <1>8, <2>1, Zenon
<1>11. proc' \in [Procs -> Process] /\ proc'[p] = r
      /\ \A q \in Procs : q # p => proc'[q] = proc[q]
  BY <1>0, <1>9, <1>10, ProcIsPut DEF Types
<1>12. \A k \in Jobs : \A i \in DOMAIN attempt[k] :
         i \in DOMAIN attempt'[k] /\ attempt'[k][i] = attempt[k][i]
  BY <1>6
<1>13. ShasKept /\ RawKept /\ TriesKept
  BY <1>0, <1>12 DEF ShasKept, RawKept, TriesKept
<1>14. OthersKept(p)
  <2> SUFFICES ASSUME NEW q \in Procs, q # p, proc[q].pc \in {"fetch", "validate"}
               PROVE  attempt'[proc[q].job][proc[q].n].sha = attempt[proc[q].job][proc[q].n].sha
    BY <1>11 DEF OthersKept
  <2>1. proc[q].job \in Jobs /\ proc[q].n \in DOMAIN attempt[proc[q].job]
    BY DEF Inv, Memory, Recalls, RecallsPage, Holding
  <2>2. QED BY <1>12, <2>1
<1>15. Recalls(proc[p])'
  BY <1>2, <1>5, <1>6, <1>9, <1>11
     DEF Recalls, RecallsUploads, RecallsRaw, RecallsPage, RecallsTry, Holding
<1>16. Memory'
  BY <1>0, <1>13, <1>14, <1>15, MemoryKept DEF Inv, Types
<1>17. Apart'
  <2>1. ASSUME NEW q \in Procs, q # p, proc[q].pc \in Holding
        PROVE  proc[q].job # j \/ proc[q].n # n
    <3>1. proc[q].job \in Jobs /\ proc[q].n \in DOMAIN attempt[proc[q].job]
      BY <2>1 DEF Inv, Memory, Recalls, RecallsPage
    <3>2. QED BY <1>6, <3>1
  <2>2. QED BY <1>9, <1>11, <2>1 DEF Inv, Apart
<1>18. CrewOnly'
  BY <1>0, <1>14, CrewKept DEF Inv
<1>19. ReadyHasRow' /\ FileIsServed'
  <2>1. \A k \in Jobs : job'[k].status \in Ready => raw[k].sha # None
    BY <1>7 DEF Inv, ReadyHasRow, Ready
  <2>2. QED BY <1>0, <1>13, <2>1, ServedStay
<1>20. Counted' /\ LastTryIsOpen'
  BY <1>0, <1>6, <1>7 DEF Inv, Counted, LastTryIsOpen
<1>21. UploadIsMarked'
  <2> SUFFICES ASSUME NEW k \in Jobs, NEW i \in DOMAIN attempt'[k],
                      attempt'[k][i].status = "uploading"
               PROVE  attempt'[k][i].sha # None
    BY DEF UploadIsMarked
  <2>1. CASE k = j /\ i = n
    BY <1>2, <1>6, <2>1
  <2>2. CASE k = j /\ i # n
    <3>1. i \in DOMAIN attempt[j]
      BY <1>3, <1>4, <1>6, <2>2
    <3>2. QED BY <1>12, <2>2, <3>1 DEF Inv, UploadIsMarked
  <2>3. CASE k # j
    BY <1>6, <2>3 DEF Inv, UploadIsMarked
  <2>4. QED BY <2>1, <2>2, <2>3
<1>22. UploadIsOpen'
  <2> SUFFICES ASSUME NEW k \in Jobs, job'[k].status = "uploading"
               PROVE  \E i \in DOMAIN attempt'[k] : attempt'[k][i].status = "uploading"
    BY DEF UploadIsOpen
  <2>1. k # j
    BY <1>7
  <2>2. attempt'[k] = attempt[k] /\ job'[k] = job[k]
    BY <1>6, <1>7, <2>1
  <2>3. QED BY <2>2 DEF Inv, UploadIsOpen
<1>23. Types'
  BY <1>0, <1>6, <1>7, <1>11 DEF Types
<1>24. QED BY <1>16, <1>17, <1>18, <1>19, <1>20, <1>21, <1>22, <1>23 DEF Inv

LEMMA CompleteUploadStep ==
  ASSUME Inv, NEW p \in Procs, CompleteUpload(p)
  PROVE  Inv'
<1>0. Types /\ p \in setting.crew /\ proc[p].pc = "stored" /\ RecallsPage(proc[p])
      /\ proc[p] \in Process /\ UNCHANGED <<tries, file, setting>>
  BY DEF CompleteUpload, At, Inv, Memory, Recalls, Types
<1>1. PICK j \in Jobs, n \in {proc[p].n}, c \in {proc[p].body} :
        /\ j = proc[p].job /\ n = proc[p].n /\ c = proc[p].body
        /\ n \in DOMAIN attempt[j] /\ c \in Contents /\ attempt[j][n].sha = c
  BY <1>0 DEF RecallsPage, Holding
<1>2. CASE raw[j].sha # None
  <2>1. To(p, "failed") /\ UNCHANGED <<tables, file, setting>>
    BY <1>0, <1>1, <1>2 DEF CompleteUpload, tables
  <2>2. PICK r \in Process :
          /\ r.pc = "failed" /\ r.job = proc[p].job /\ r.n = proc[p].n
          /\ proc' = [proc EXCEPT ![p] = r]
    BY <1>0, <2>1, ToKeeps DEF Types, Holding
  <2>3. proc' \in [Procs -> Process] /\ proc'[p] = r
        /\ \A q \in Procs : q # p => proc'[q] = proc[q]
    BY <1>0, <2>2, ProcIsPut DEF Types
  <2>4. OthersKept(p)
    BY <2>1, <2>3 DEF OthersKept, tables
  <2>5. Recalls(proc[p])'
    BY <1>1, <2>1, <2>2, <2>3
       DEF Recalls, RecallsUploads, RecallsRaw, RecallsPage, RecallsTry, Holding, tables
  <2>6. Memory'
    BY <1>0, <2>1, <2>4, <2>5, RowsKept, MemoryKept DEF Inv, Types
  <2>7. Apart'
    BY <1>0, <2>2, <2>3, <2>4, ApartKept DEF Inv, Holding
  <2>8. CrewOnly'
    BY <1>0, <2>4, CrewKept DEF Inv
  <2>9. FileIsServed'
    BY <2>1 DEF Inv, FileIsServed, Served, tables
  <2>10. Types'
    BY <1>0, <2>1, <2>3 DEF Types, tables
  <2>11. QED BY <2>1, <2>6, <2>7, <2>8, <2>9, <2>10, RowsKept DEF Inv
<1>3. CASE raw[j].sha = None
  <2>1. /\ raw' = [raw EXCEPT ![j] = [sha |-> c, integrity |-> "valid"]]
        /\ SetAttempt(j, n, "success")
        /\ SetJob(j, "raw_ready", TRUE)
        /\ Next1(p, "select")
    BY <1>0, <1>1, <1>3 DEF CompleteUpload
  <2>2. PICK r \in Process : r.pc = "select" /\ proc' = [proc EXCEPT ![p] = r]
    BY <1>0, <2>1, NextIsIdle DEF Types, Idle
  <2>3. proc' \in [Procs -> Process] /\ proc'[p] = r
        /\ \A q \in Procs : q # p => proc'[q] = proc[q]
    BY <1>0, <2>2, ProcIsPut DEF Types
  <2>4. /\ job' \in [Jobs -> JobRow] /\ attempt' \in [Jobs -> Seq(AttemptRow)]
        /\ job'[j].status = "raw_ready"
        /\ \A k \in Jobs : k # j => job'[k] = job[k]
        /\ \A k \in Jobs : \A i \in DOMAIN attempt[k] :
             i \in DOMAIN attempt'[k] /\ attempt'[k][i].sha = attempt[k][i].sha
        /\ ShasKept /\ Counted' /\ UploadIsMarked' /\ UploadIsOpen'
    <3>1. "success" \in AttemptStatus \ {"uploading"} /\ "raw_ready" \in JobStatus \ {"uploading"}
      BY DEF AttemptStatus, JobStatus
    <3>2. QED BY <1>1, <2>1, <3>1, AttemptCloses
  <2>5. raw' \in [Jobs -> RawRow] /\ raw'[j].sha = c
        /\ \A k \in Jobs : k # j => raw'[k] = raw[k]
    <3>1. [sha |-> c, integrity |-> "valid"] \in RawRow
      BY <1>1 DEF RawRow, Body, Integrity
    <3>2. QED BY <1>0, <2>1, <3>1 DEF Types
  <2>6. OthersKept(p)
    BY <2>3, <2>4 DEF OthersKept, Inv, Memory, Recalls, RecallsPage, Holding
  <2>7. RawKept /\ TriesKept
    BY <1>0, <1>3, <2>5 DEF RawKept, TriesKept
  <2>8. Recalls(proc[p])'
    BY <2>2, <2>3 DEF Recalls, RecallsUploads, RecallsRaw, RecallsPage, RecallsTry, Holding
  <2>9. Memory'
    BY <1>0, <2>4, <2>6, <2>7, <2>8, MemoryKept DEF Inv, Types
  <2>10. Apart'
    BY <2>2, <2>3, <2>6, ApartKept DEF Inv, Holding
  <2>11. CrewOnly'
    BY <1>0, <2>6, CrewKept DEF Inv
  <2>12. ReadyHasRow' /\ FileIsServed'
    BY <1>0, <1>1, <2>4, <2>5, RowStored
  <2>13. LastTryIsOpen'
    BY <1>0 DEF Inv, LastTryIsOpen
  <2>14. Types'
    BY <1>0, <2>3, <2>4, <2>5 DEF Types
  <2>15. QED BY <2>4, <2>9, <2>10, <2>11, <2>12, <2>13, <2>14 DEF Inv
<1>4. QED BY <1>2, <1>3

-----------------------------------------------------------------------------
(* Steps of recovery and discovery.                                          *)

LEMMA RecoverUploadStep ==
  ASSUME Inv, NEW p \in Procs, RecoverUpload(p)
  PROVE  Inv'
<1>0. Types /\ p \in setting.crew /\ proc[p].pc = "uploads" /\ proc[p] \in Process
      /\ proc[p].job # None /\ UNCHANGED <<tries, file, setting>>
      /\ proc' = [proc EXCEPT ![p].job = None, ![p].n = 0, ![p].body = None]
      /\ RecallsUploads(proc[p])
  BY DEF RecoverUpload, At, Inv, Types, Memory, Recalls
<1>1. PICK j \in Jobs, n \in Nat, c \in Body :
        /\ j = proc[p].job /\ n = proc[p].n /\ c = proc[p].body
        /\ n \in DOMAIN attempt[j]
        /\ c # None => \E i \in DOMAIN attempt[j] : attempt[j][i].sha = c
  <2>1. proc[p].job \in Jobs /\ proc[p].n \in Nat /\ proc[p].body \in Body
    BY <1>0 DEF Process
  <2>2. /\ proc[p].n \in DOMAIN attempt[proc[p].job]
        /\ proc[p].body # None => Served(proc[p].job, proc[p].body)
    BY <1>0 DEF RecallsUploads, Marked
  <2>3. QED BY <2>1, <2>2 DEF Served
<1>2. PICK z \in Nat : z = 0
  OBVIOUS
<1>3. PICK r : r = [proc[p] EXCEPT !.job = None, !.n = z, !.body = None]
  OBVIOUS
<1>4. r \in Process /\ r.pc = "uploads" /\ r.todo = proc[p].todo /\ r.job = None
  BY <1>0, <1>3 DEF Process, Body
<1>5. proc' = [proc EXCEPT ![p] = r]
  BY <1>0, <1>2, <1>3, Zenon
<1>6. proc' \in [Procs -> Process] /\ proc'[p] = r
      /\ \A q \in Procs : q # p => proc'[q] = proc[q]
  BY <1>0, <1>4, <1>5, ProcIsPut DEF Types
<1>7. \/ /\ c \in Contents /\ InsertRaw(j, c)
         /\ SetAttempt(j, n, "success") /\ SetJob(j, "raw_ready", TRUE)
      \/ /\ raw' = raw
         /\ SetAttempt(j, n, "storage_error") /\ SetJob(j, "retryable_error", FALSE)
  BY <1>1 DEF RecoverUpload, Intact, FailRecovered, Body
<1>8. PICK s \in {"success", "storage_error"}, t \in {"raw_ready", "retryable_error"},
           d \in BOOLEAN :
        /\ SetAttempt(j, n, s) /\ SetJob(j, t, d)
        /\ t = "raw_ready" => c \in Contents /\ InsertRaw(j, c)
        /\ t # "raw_ready" => raw' = raw
  <2>1. CASE c \in Contents /\ InsertRaw(j, c)
             /\ SetAttempt(j, n, "success") /\ SetJob(j, "raw_ready", TRUE)
    BY <2>1
  <2>2. CASE raw' = raw /\ SetAttempt(j, n, "storage_error")
             /\ SetJob(j, "retryable_error", FALSE)
    BY <2>2
  <2>3. QED BY <1>7, <2>1, <2>2
<1>9. /\ job' \in [Jobs -> JobRow] /\ attempt' \in [Jobs -> Seq(AttemptRow)]
      /\ job'[j].status = t
      /\ \A k \in Jobs : k # j => job'[k] = job[k]
      /\ \A k \in Jobs : \A i \in DOMAIN attempt[k] :
           i \in DOMAIN attempt'[k] /\ attempt'[k][i].sha = attempt[k][i].sha
      /\ ShasKept /\ Counted' /\ UploadIsMarked' /\ UploadIsOpen'
  <2>1. s \in AttemptStatus \ {"uploading"} /\ t \in JobStatus \ {"uploading"}
    BY DEF AttemptStatus, JobStatus
  <2>2. QED BY <1>1, <1>8, <2>1, AttemptCloses
<1>10. /\ raw' \in [Jobs -> RawRow] /\ RawKept
       /\ \A k \in Jobs : k # j => raw'[k] = raw[k]
       /\ t = "raw_ready" => raw'[j].sha = c \/ (raw[j].sha # None /\ raw'[j].sha = raw[j].sha)
  <2>1. CASE t # "raw_ready"
    BY <1>0, <1>8, <2>1 DEF Types, RawKept
  <2>2. CASE t = "raw_ready"
    <3>1. PICK row : row = IF raw[j].sha = None THEN [sha |-> c, integrity |-> "valid"]
                           ELSE raw[j]
      OBVIOUS
    <3>2. raw' = [raw EXCEPT ![j] = row]
      BY <1>8, <2>2, <3>1 DEF InsertRaw
    <3>3. raw[j] \in RawRow
      BY <1>0 DEF Types
    <3>4. row \in RawRow /\ (raw[j].sha = None => row.sha = c) /\ (raw[j].sha # None => row = raw[j])
      BY <1>8, <2>2, <3>1, <3>3 DEF RawRow, Body, Integrity
    <3>5. raw' \in [Jobs -> RawRow] /\ raw'[j] = row /\ \A k \in Jobs : k # j => raw'[k] = raw[k]
      BY <1>0, <3>2, <3>4 DEF Types
    <3>6. QED BY <3>4, <3>5 DEF RawKept
  <2>3. QED BY <2>1, <2>2
<1>11. OthersKept(p)
  BY <1>6, <1>9 DEF OthersKept, Inv, Memory, Recalls, RecallsPage, Holding
<1>12. TriesKept
  BY <1>0 DEF TriesKept
<1>13. Recalls(proc[p])'
  <2>1. RecallsUploads(r)
    BY <1>0, <1>4 DEF RecallsUploads
  <2>2. RecallsUploads(r)'
    BY <1>4, <1>9, <2>1, UploadsRecalled
  <2>3. QED BY <1>4, <1>6, <2>2
            DEF Recalls, RecallsUploads, RecallsRaw, RecallsPage, RecallsTry, Holding
<1>14. Memory'
  BY <1>0, <1>9, <1>10, <1>11, <1>12, <1>13, MemoryKept DEF Inv, Types
<1>15. Apart'
  BY <1>4, <1>6, <1>11, ApartKept DEF Inv, Holding
<1>16. CrewOnly'
  BY <1>0, <1>11, CrewKept DEF Inv
<1>17. ReadyHasRow' /\ FileIsServed'
  <2>1. CASE t = "raw_ready"
    <3>1. c \in Contents /\ c # None
      BY <1>8, <2>1, JobsAssumption DEF JobsAssumption
    <3>2. \A k \in Jobs : k # j => raw'[k].sha = raw[k].sha /\ job'[k] = job[k]
      BY <1>9, <1>10
    <3>3. QED BY <1>0, <1>1, <1>9, <1>10, <2>1, <3>1, <3>2, RowStored
  <2>2. CASE t # "raw_ready"
    <3>1. \A k \in Jobs : job'[k].status \in Ready => raw[k].sha # None
      BY <1>9, <2>2 DEF Inv, ReadyHasRow, Ready
    <3>2. \A k \in Jobs : raw'[k].sha = raw[k].sha
      BY <1>8, <2>2
    <3>3. QED BY <1>0, <1>9, <3>1, <3>2, ServedStay
  <2>3. QED BY <2>1, <2>2
<1>18. LastTryIsOpen'
  BY <1>0 DEF Inv, LastTryIsOpen
<1>19. Types'
  BY <1>0, <1>6, <1>9, <1>10 DEF Types
<1>20. QED BY <1>9, <1>14, <1>15, <1>16, <1>17, <1>18, <1>19 DEF Inv

LEMMA RecoverStaleFetchesStep ==
  ASSUME Inv, NEW p \in Procs, RecoverStaleFetches(p)
  PROVE  Inv'
<1>0. Types /\ p \in setting.crew /\ proc[p].pc = "uploads" /\ proc[p] \in Process
      /\ UNCHANGED <<raw, tries, file, setting>>
      /\ attempt' = [j \in Jobs |-> [n \in DOMAIN attempt[j] |-> Interrupted(attempt[j][n])]]
      /\ job' = [j \in Jobs |-> IF j \in Stale
                   THEN [job[j] EXCEPT !.status = "retryable_error", !.due = TRUE] ELSE job[j]]
      /\ proc' = [proc EXCEPT ![p].pc = "audit", ![p].checks = {j \in Jobs : raw[j].sha # None}]
  BY DEF RecoverStaleFetches, At, Inv, Types
<1>1. PICK S \in SUBSET Jobs : S = {j \in Jobs : raw[j].sha # None}
  OBVIOUS
<1>2. PICK r : r = [proc[p] EXCEPT !.pc = "audit", !.checks = S]
  OBVIOUS
<1>3. r \in Process /\ r.pc = "audit" /\ r.checks = S
  BY <1>0, <1>2 DEF Process
<1>4. proc' = [proc EXCEPT ![p] = r]
  BY <1>0, <1>1, <1>2, Zenon
<1>5. proc' \in [Procs -> Process] /\ proc'[p] = r
      /\ \A q \in Procs : q # p => proc'[q] = proc[q]
  BY <1>0, <1>3, <1>4, ProcIsPut DEF Types
<1>6. ASSUME NEW row \in AttemptRow
      PROVE  /\ Interrupted(row) \in AttemptRow
             /\ Interrupted(row).sha = row.sha
             /\ Interrupted(row).status = "uploading" <=> row.status = "uploading"
  BY DEF Interrupted, AttemptRow, AttemptStatus
<1>7. \A j \in Jobs :
        /\ attempt'[j] \in Seq(AttemptRow) /\ Len(attempt'[j]) = Len(attempt[j])
        /\ DOMAIN attempt'[j] = DOMAIN attempt[j]
        /\ \A n \in DOMAIN attempt[j] : attempt'[j][n] = Interrupted(attempt[j][n])
  <2> SUFFICES ASSUME NEW j \in Jobs
               PROVE  /\ attempt'[j] \in Seq(AttemptRow) /\ Len(attempt'[j]) = Len(attempt[j])
                      /\ DOMAIN attempt'[j] = DOMAIN attempt[j]
                      /\ \A n \in DOMAIN attempt[j] : attempt'[j][n] = Interrupted(attempt[j][n])
    OBVIOUS
  <2>1. attempt'[j] = [n \in DOMAIN attempt[j] |-> Interrupted(attempt[j][n])]
    BY <1>0
  <2>2. attempt[j] \in Seq(AttemptRow)
    BY <1>0 DEF Types
  <2>3. PICK m \in Nat : m = Len(attempt[j])
    BY <2>2
  <2>4. DOMAIN attempt[j] = 1 .. m /\ \A n \in 1 .. m : attempt[j][n] \in AttemptRow
    BY <2>2, <2>3
  <2>5. \A n \in 1 .. m : Interrupted(attempt[j][n]) \in AttemptRow
    BY <1>6, <2>4
  <2>6. attempt'[j] \in [1 .. m -> AttemptRow]
    BY <2>1, <2>4, <2>5
  <2>7. attempt'[j] \in Seq(AttemptRow) /\ Len(attempt'[j]) = m /\ DOMAIN attempt'[j] = 1 .. m
    BY <2>6
  <2>8. QED BY <2>1, <2>3, <2>4, <2>7
<1>8. attempt' \in [Jobs -> Seq(AttemptRow)]
  <2>1. attempt' = [j \in Jobs |-> attempt'[j]]
    BY <1>0
  <2>2. QED BY <1>7, <2>1
<1>9. \A j \in Jobs : \A n \in DOMAIN attempt[j] :
        /\ n \in DOMAIN attempt'[j] /\ attempt'[j][n].sha = attempt[j][n].sha
        /\ attempt'[j][n].status = "uploading" <=> attempt[j][n].status = "uploading"
  <2> SUFFICES ASSUME NEW j \in Jobs, NEW n \in DOMAIN attempt[j]
               PROVE  /\ n \in DOMAIN attempt'[j]
                      /\ attempt'[j][n].sha = attempt[j][n].sha
                      /\ attempt'[j][n].status = "uploading"
                           <=> attempt[j][n].status = "uploading"
    OBVIOUS
  <2>1. attempt[j] \in Seq(AttemptRow)
    BY <1>0 DEF Types
  <2>2. attempt[j][n] \in AttemptRow
    BY <2>1
  <2>3. QED BY <1>6, <1>7, <2>2
<1>10. /\ job' \in [Jobs -> JobRow]
       /\ \A j \in Jobs : /\ job'[j].count = job[j].count
                          /\ job'[j].status = job[j].status
                             \/ (j \in Stale /\ job'[j].status = "retryable_error")
                          /\ job'[j].status = "retryable_error" \/ j \notin Stale
  <2> DEFINE fix(j) == [job[j] EXCEPT !.status = "retryable_error", !.due = TRUE]
  <2>1. \A j \in Jobs : fix(j) \in JobRow /\ fix(j).count = job[j].count
                        /\ fix(j).status = "retryable_error"
    <3> SUFFICES ASSUME NEW j \in Jobs
                 PROVE  fix(j) \in JobRow /\ fix(j).count = job[j].count
                        /\ fix(j).status = "retryable_error"
      OBVIOUS
    <3>1. job[j] \in JobRow
      BY <1>0 DEF Types
    <3>2. QED BY <3>1 DEF JobRow, JobStatus
  <2>2. job' = [j \in Jobs |-> IF j \in Stale THEN fix(j) ELSE job[j]]
    BY <1>0
  <2> HIDE DEF fix
  <2>3. QED BY <1>0, <2>1, <2>2 DEF Types
<1>11. ShasKept /\ RawKept /\ TriesKept
  BY <1>0, <1>9 DEF ShasKept, RawKept, TriesKept
<1>12. OthersKept(p)
  BY <1>5, <1>9 DEF OthersKept, Inv, Memory, Recalls, RecallsPage, Holding
<1>13. Recalls(proc[p])'
  BY <1>0, <1>1, <1>3, <1>5
     DEF Recalls, RecallsUploads, RecallsRaw, RecallsPage, RecallsTry, Holding
<1>14. Memory'
  BY <1>0, <1>11, <1>12, <1>13, MemoryKept DEF Inv, Types
<1>15. Apart'
  BY <1>3, <1>5, <1>12, ApartKept DEF Inv, Holding
<1>16. CrewOnly'
  BY <1>0, <1>12, CrewKept DEF Inv
<1>17. ReadyHasRow' /\ FileIsServed'
  <2>1. \A k \in Jobs : job'[k].status \in Ready => raw[k].sha # None
    BY <1>10 DEF Inv, ReadyHasRow, Ready
  <2>2. QED BY <1>0, <1>11, <2>1, ServedStay
<1>18. Counted' /\ LastTryIsOpen'
  BY <1>0, <1>7, <1>10 DEF Inv, Counted, LastTryIsOpen
<1>19. UploadIsMarked'
  BY <1>7, <1>9 DEF Inv, UploadIsMarked
<1>20. UploadIsOpen'
  BY <1>9, <1>10 DEF Inv, UploadIsOpen
<1>21. Types'
  BY <1>0, <1>5, <1>8, <1>10 DEF Types
<1>22. QED BY <1>14, <1>15, <1>16, <1>17, <1>18, <1>19, <1>20, <1>21 DEF Inv

\* The status and the integrity a page is given when somebody looked at it.
LEMMA StatusForType ==
  ASSUME NEW i \in Integrity \ {"none"}
  PROVE  StatusFor(i) \in Ready /\ StatusFor(i) \in JobStatus \ {"uploading"}
<1>1. CASE i = "valid"
  BY <1>1 DEF StatusFor, Ready, JobStatus
<1>2. CASE i = "missing"
  BY <1>2 DEF StatusFor, Ready, JobStatus
<1>3. CASE i # "valid" /\ i # "missing"
  BY <1>3 DEF StatusFor, Ready, JobStatus
<1>4. QED BY <1>1, <1>2, <1>3

\* Integrity is written with the status that goes with it; the hash stays.
LEMMA IntegrityWritten ==
  ASSUME Inv, NEW j \in Jobs, raw[j].sha # None, NEW i \in Integrity \ {"none"},
         raw' = [raw EXCEPT ![j].integrity = i],
         job' = [job EXCEPT ![j].status = StatusFor(i)], UNCHANGED <<attempt, file>>
  PROVE  /\ raw' \in [Jobs -> RawRow] /\ job' \in [Jobs -> JobRow]
         /\ \A k \in Jobs : raw'[k].sha = raw[k].sha
         /\ \A k \in Jobs : k # j => job'[k] = job[k]
         /\ job'[j].status \in Ready
         /\ ReadyHasRow' /\ FileIsServed' /\ Counted' /\ UploadIsOpen'
<1>0. Types
  BY DEF Inv
<1>1. raw' \in [Jobs -> RawRow] /\ \A k \in Jobs : raw'[k].sha = raw[k].sha
  <2>1. PICK r : r = [raw[j] EXCEPT !.integrity = i]
    OBVIOUS
  <2>2. raw[j] \in RawRow
    BY <1>0 DEF Types
  <2>3. r \in RawRow /\ r.sha = raw[j].sha
    BY <2>1, <2>2 DEF RawRow
  <2>4. raw' = [raw EXCEPT ![j] = r]
    BY <2>1
  <2>5. QED BY <1>0, <2>3, <2>4 DEF Types
<1>2. /\ job' \in [Jobs -> JobRow]
      /\ job'[j].status \in Ready
      /\ \A k \in Jobs : job'[k].count = job[k].count /\ (k # j => job'[k] = job[k])
  <2>1. PICK t : t = StatusFor(i)
    OBVIOUS
  <2>2. t \in Ready /\ t \in JobStatus
    BY <2>1, StatusForType
  <2>3. job' = [job EXCEPT ![j].status = t]
    BY <2>1
  <2>4. QED BY <1>0, <2>2, <2>3, StatusIsSet DEF Types
<1>3. ShasKept
  BY DEF ShasKept
<1>4. ReadyHasRow' /\ FileIsServed'
  <2>1. \A k \in Jobs : job'[k].status \in Ready => raw[k].sha # None
    BY <1>2 DEF Inv, ReadyHasRow, Ready
  <2>2. QED BY <1>1, <1>3, <2>1, ServedStay
<1>5. Counted'
  BY <1>2 DEF Inv, Counted
<1>6. UploadIsOpen'
  <2> SUFFICES ASSUME NEW k \in Jobs, job'[k].status = "uploading"
               PROVE  \E n \in DOMAIN attempt[k] : attempt[k][n].status = "uploading"
    BY DEF UploadIsOpen
  <2>1. job'[k] = job[k]
    BY <1>2 DEF Ready
  <2>2. QED BY <2>1 DEF Inv, UploadIsOpen
<1>7. QED BY <1>1, <1>2, <1>4, <1>5, <1>6

LEMMA UpdateRawIntegrityStep ==
  ASSUME Inv, NEW p \in Procs, UpdateRawIntegrity(p)
  PROVE  Inv'
<1>0. Types /\ p \in setting.crew /\ proc[p].pc = "audited" /\ proc[p] \in Process
      /\ UNCHANGED <<attempt, tries, file, setting>> /\ RecallsRaw(proc[p])
  BY DEF UpdateRawIntegrity, At, Inv, Types, Memory, Recalls
<1>1. PICK j \in Jobs : j = proc[p].job /\ raw[j].sha # None
  BY <1>0 DEF RecallsRaw
<1>2. PICK i : i = Audit(proc[p].body, raw[j].sha)
  OBVIOUS
<1>3. i \in Integrity \ {"none"}
  BY <1>2 DEF Audit, Integrity
<1>4. /\ raw' = [raw EXCEPT ![j].integrity = i]
      /\ job' = [job EXCEPT ![j].status = StatusFor(i)]
      /\ proc' = [proc EXCEPT ![p].pc = "audit", ![p].checks = @ \ {j},
                              ![p].job = None, ![p].body = None]
  BY <1>1, <1>2 DEF UpdateRawIntegrity
<1>5. PICK S \in SUBSET Jobs : S = proc[p].checks \ {j}
  BY <1>0 DEF Process
<1>6. PICK r : r = [proc[p] EXCEPT !.pc = "audit", !.checks = S, !.job = None, !.body = None]
  OBVIOUS
<1>7. r \in Process /\ r.pc = "audit" /\ r.checks = S
  BY <1>0, <1>6 DEF Process, Body
<1>8. proc' = [proc EXCEPT ![p] = r]
  BY <1>4, <1>5, <1>6, Zenon
<1>9. proc' \in [Procs -> Process] /\ proc'[p] = r
      /\ \A q \in Procs : q # p => proc'[q] = proc[q]
  BY <1>0, <1>7, <1>8, ProcIsPut DEF Types
<1>10. /\ raw' \in [Jobs -> RawRow] /\ job' \in [Jobs -> JobRow]
       /\ \A k \in Jobs : raw'[k].sha = raw[k].sha
       /\ ReadyHasRow' /\ FileIsServed' /\ Counted' /\ UploadIsOpen'
  BY <1>0, <1>1, <1>3, <1>4, IntegrityWritten
<1>11. OthersKept(p)
  BY <1>0, <1>9 DEF OthersKept
<1>12. ShasKept /\ RawKept /\ TriesKept
  BY <1>0, <1>10 DEF ShasKept, RawKept, TriesKept
<1>13. Recalls(proc[p])'
  <2>1. \A k \in S : raw'[k].sha # None
    BY <1>0, <1>5, <1>10 DEF RecallsRaw
  <2>2. QED BY <1>7, <1>9, <2>1
            DEF Recalls, RecallsUploads, RecallsRaw, RecallsPage, RecallsTry, Holding
<1>14. Memory'
  BY <1>0, <1>11, <1>12, <1>13, MemoryKept DEF Inv, Types
<1>15. Apart'
  BY <1>7, <1>9, <1>11, ApartKept DEF Inv, Holding
<1>16. CrewOnly'
  BY <1>0, <1>11, CrewKept DEF Inv
<1>17. UploadIsMarked' /\ LastTryIsOpen'
  BY <1>0 DEF Inv, UploadIsMarked, LastTryIsOpen
<1>18. Types'
  BY <1>0, <1>9, <1>10 DEF Types
<1>19. QED BY <1>10, <1>14, <1>15, <1>16, <1>17, <1>18 DEF Inv

LEMMA UpsertDiscoveredJobsStep ==
  ASSUME Inv, NEW p \in Procs, UpsertDiscoveredJobs(p)
  PROVE  Inv'
<1>0. Types /\ p \in setting.crew /\ UNCHANGED <<attempt, raw, tries, file, setting>>
      /\ To(p, "select")
  BY DEF UpsertDiscoveredJobs, At, Inv
<1>1. PICK r \in Process : r.pc = "select" /\ proc' = [proc EXCEPT ![p] = r]
  BY <1>0, ToKeeps DEF Types, Idle
<1>2. proc' \in [Procs -> Process] /\ proc'[p] = r
      /\ \A q \in Procs : q # p => proc'[q] = proc[q]
  BY <1>0, <1>1, ProcIsPut DEF Types
<1>3. PICK S \in SUBSET Jobs :
        job' = [j \in Jobs |-> IF j \in S /\ job[j].status = "none"
                                 THEN [job[j] EXCEPT !.status = "pending"] ELSE job[j]]
  BY DEF UpsertDiscoveredJobs
<1>4. /\ job' \in [Jobs -> JobRow]
      /\ \A j \in Jobs : job'[j].count = job[j].count
                         /\ (job'[j].status = job[j].status \/ job'[j].status = "pending")
  <2> DEFINE listed(j) == [job[j] EXCEPT !.status = "pending"]
  <2>1. \A j \in Jobs : listed(j) \in JobRow /\ listed(j).count = job[j].count
                        /\ listed(j).status = "pending"
    <3> SUFFICES ASSUME NEW j \in Jobs
                 PROVE  listed(j) \in JobRow /\ listed(j).count = job[j].count
                        /\ listed(j).status = "pending"
      OBVIOUS
    <3>1. job[j] \in JobRow
      BY <1>0 DEF Types
    <3>2. QED BY <3>1 DEF JobRow, JobStatus
  <2>2. job' = [j \in Jobs |-> IF j \in S /\ job[j].status = "none" THEN listed(j) ELSE job[j]]
    BY <1>3
  <2> HIDE DEF listed
  <2>3. QED BY <1>0, <2>1, <2>2 DEF Types
<1>5. OthersKept(p)
  BY <1>0, <1>2 DEF OthersKept
<1>6. ShasKept /\ RawKept /\ TriesKept
  BY <1>0 DEF ShasKept, RawKept, TriesKept
<1>7. Recalls(proc[p])'
  BY <1>1, <1>2 DEF Recalls, RecallsUploads, RecallsRaw, RecallsPage, RecallsTry, Holding
<1>8. Memory'
  BY <1>0, <1>5, <1>6, <1>7, MemoryKept DEF Inv, Types
<1>9. Apart'
  BY <1>1, <1>2, <1>5, ApartKept DEF Inv, Holding
<1>10. CrewOnly'
  BY <1>0, <1>5, CrewKept DEF Inv
<1>11. ReadyHasRow' /\ FileIsServed'
  <2>1. \A k \in Jobs : job'[k].status \in Ready => raw[k].sha # None
    BY <1>4 DEF Inv, ReadyHasRow, Ready
  <2>2. QED BY <1>0, <1>6, <2>1, ServedStay
<1>12. Counted' /\ UploadIsMarked' /\ LastTryIsOpen'
  BY <1>0, <1>4 DEF Inv, Counted, UploadIsMarked, LastTryIsOpen
<1>13. UploadIsOpen'
  BY <1>0, <1>4 DEF Inv, UploadIsOpen
<1>14. Types'
  BY <1>0, <1>2, <1>4 DEF Types
<1>15. QED BY <1>8, <1>9, <1>10, <1>11, <1>12, <1>13, <1>14 DEF Inv

-----------------------------------------------------------------------------
(* Steps of a parse run.                                                     *)

\* What a step leaves that writes no attempt and no file and holds no page.
LEMMA ParseStepHolds ==
  ASSUME Inv, NEW p \in Procs, p \in setting.crew, NEW r \in Process, r.pc \notin Holding,
         proc' = [proc EXCEPT ![p] = r], UNCHANGED <<attempt, file, setting>>,
         job' \in [Jobs -> JobRow], raw' \in [Jobs -> RawRow],
         \A k \in Jobs : raw'[k].sha = raw[k].sha,
         tries' \in [Jobs -> Seq(TryRow)], TriesKept, LastTryIsOpen',
         ReadyHasRow', Counted', UploadIsOpen', Recalls(proc[p])'
  PROVE  Inv'
<1>0. Types
  BY DEF Inv
<1>1. proc' \in [Procs -> Process] /\ proc'[p] = r
      /\ \A q \in Procs : q # p => proc'[q] = proc[q]
  BY <1>0, ProcIsPut DEF Types
<1>2. OthersKept(p)
  BY <1>1 DEF OthersKept
<1>3. ShasKept /\ RawKept
  BY DEF ShasKept, RawKept
<1>4. Memory'
  BY <1>0, <1>2, <1>3, MemoryKept DEF Inv, Types
<1>5. Apart'
  BY <1>1, <1>2, ApartKept DEF Inv
<1>6. CrewOnly'
  BY <1>2, CrewKept DEF Inv
<1>7. UploadIsMarked'
  BY DEF Inv, UploadIsMarked
<1>8. FileIsServed'
  BY DEF Inv, FileIsServed, Served
<1>9. Types'
  BY <1>0, <1>1 DEF Types
<1>10. QED BY <1>4, <1>5, <1>6, <1>7, <1>8, <1>9 DEF Inv

LEMMA JobsUnread ==
  ASSUME Inv, UNCHANGED <<job, attempt, raw>>
  PROVE  ReadyHasRow' /\ Counted' /\ UploadIsOpen'
  BY DEF Inv, ReadyHasRow, Counted, UploadIsOpen

LEMMA RowsMapped ==
  ASSUME NEW S, NEW s \in Seq(S), NEW f \in [S -> S], NEW t, t = [i \in DOMAIN s |-> f[s[i]]]
  PROVE  /\ t \in Seq(S) /\ Len(t) = Len(s) /\ DOMAIN t = DOMAIN s
         /\ \A i \in DOMAIN s : s[i] \in S /\ t[i] = f[s[i]]
<1>1. PICK m \in Nat : m = Len(s)
  OBVIOUS
<1>2. DOMAIN s = 1 .. m /\ \A i \in 1 .. m : s[i] \in S
  BY <1>1
<1>3. t \in [1 .. m -> S]
  BY <1>2
<1>4. t \in Seq(S) /\ Len(t) = m /\ DOMAIN t = 1 .. m
  BY <1>3
<1>5. QED BY <1>1, <1>2, <1>4

\* Rows of tries rewritten one by one, none of them reopened.
LEMMA TriesRewritten ==
  ASSUME Inv, NEW f \in [TryRow -> TryRow],
         \A t \in TryRow : f[t].status = "parsing" => t.status = "parsing",
         tries' = [j \in Jobs |-> [i \in DOMAIN tries[j] |-> f[tries[j][i]]]]
  PROVE  tries' \in [Jobs -> Seq(TryRow)] /\ TriesKept /\ LastTryIsOpen'
<1>1. ASSUME NEW j \in Jobs
      PROVE  /\ tries'[j] \in Seq(TryRow) /\ Len(tries'[j]) = Len(tries[j])
             /\ DOMAIN tries'[j] = DOMAIN tries[j]
             /\ \A i \in DOMAIN tries[j] :
                  tries'[j][i].status = "parsing" => tries[j][i].status = "parsing"
  <2>1. tries'[j] = [i \in DOMAIN tries[j] |-> f[tries[j][i]]]
    OBVIOUS
  <2>2. tries[j] \in Seq(TryRow)
    BY DEF Inv, Types
  <2>3. PICK s \in Seq(TryRow) : s = tries[j]
    BY <2>2
  <2>4. PICK t : t = [i \in DOMAIN s |-> f[s[i]]]
    OBVIOUS
  <2>5. t \in Seq(TryRow) /\ Len(t) = Len(s) /\ DOMAIN t = DOMAIN s
        /\ \A i \in DOMAIN s : s[i] \in TryRow /\ t[i] = f[s[i]]
    BY <2>4, RowsMapped
  <2>6. tries'[j] = t
    BY <2>1, <2>3, <2>4
  <2>7. QED BY <2>3, <2>5, <2>6
<1>2. tries' \in [Jobs -> Seq(TryRow)]
  <2>1. tries' = [j \in Jobs |-> tries'[j]]
    OBVIOUS
  <2>2. QED BY <1>1, <2>1
<1>3. TriesKept
  BY <1>1 DEF TriesKept
<1>4. LastTryIsOpen'
  BY <1>1 DEF Inv, LastTryIsOpen
<1>5. QED BY <1>2, <1>3, <1>4

\* A run that ends is forgotten.
LEMMA ForgetIsRewriting ==
  ASSUME Inv, NEW p \in Procs, tries' = Forget(p)
  PROVE  tries' \in [Jobs -> Seq(TryRow)] /\ TriesKept /\ LastTryIsOpen'
<1> DEFINE g(t) == [t EXCEPT !.run = None]
           f == [t \in TryRow |-> IF t.run = p THEN g(t) ELSE t]
<1>1. \A t \in TryRow : g(t) \in TryRow /\ g(t).status = t.status
  BY DEF TryRow
<1>2. \A j \in Jobs : \A i \in DOMAIN tries[j] : tries[j][i] \in TryRow
  <2> SUFFICES ASSUME NEW j \in Jobs, NEW i \in DOMAIN tries[j]
               PROVE  tries[j][i] \in TryRow
    OBVIOUS
  <2>1. tries[j] \in Seq(TryRow)
    BY DEF Inv, Types
  <2>2. QED BY <2>1
<1>3. tries' = [j \in Jobs |-> [i \in DOMAIN tries[j] |->
                  IF tries[j][i].run = p THEN g(tries[j][i]) ELSE tries[j][i]]]
  BY DEF Forget
<1> HIDE DEF g
<1>4. f \in [TryRow -> TryRow] /\ \A t \in TryRow : f[t].status = "parsing" => t.status = "parsing"
  BY <1>1
<1>5. tries' = [j \in Jobs |-> [i \in DOMAIN tries[j] |-> f[tries[j][i]]]]
  BY <1>2, <1>3
<1> HIDE DEF f
<1>6. QED BY <1>4, <1>5, TriesRewritten

LEMMA EndOfRunStep ==
  ASSUME Inv, NEW p \in Procs, EndParse(p) \/ LoseParse(p) \/ Die(p)
  PROVE  Inv'
<1>0. p \in setting.crew /\ Next1(p, "off") /\ tries' = Forget(p)
      /\ UNCHANGED <<job, attempt, raw, file, setting>> /\ Types
  BY DEF EndParse, LoseParse, Die, At, Inv
<1>1. PICK r \in Process : r.pc = "off" /\ proc' = [proc EXCEPT ![p] = r]
  BY <1>0, NextIsIdle DEF Types, Idle
<1>2. tries' \in [Jobs -> Seq(TryRow)] /\ TriesKept /\ LastTryIsOpen'
  BY <1>0, ForgetIsRewriting
<1>3. Recalls(proc[p])'
  <2>1. proc'[p] = r
    BY <1>0, <1>1 DEF Types
  <2>2. QED BY <1>1, <2>1 DEF Recalls, RecallsUploads, RecallsRaw, RecallsPage, RecallsTry, Holding
<1>4. r.pc \notin Holding
  BY <1>1 DEF Holding
<1>5. QED BY <1>0, <1>1, <1>2, <1>3, <1>4, JobsUnread, ParseStepHolds DEF Types

LEMMA RecoverStaleParsesStep ==
  ASSUME Inv, NEW p \in Procs, RecoverStaleParses(p)
  PROVE  Inv'
<1> DEFINE g(t) == [t EXCEPT !.status = "parse_error", !.old = FALSE]
           f == [t \in TryRow |-> IF Overdue(t) THEN g(t) ELSE t]
<1>0. p \in setting.crew /\ To(p, "parse_claim")
      /\ UNCHANGED <<job, attempt, raw, file, setting>> /\ Types
  BY DEF RecoverStaleParses, At, Inv
<1>1. PICK r \in Process : r.pc = "parse_claim" /\ proc' = [proc EXCEPT ![p] = r]
  BY <1>0, ToKeeps DEF Types, Idle
<1>2. tries' \in [Jobs -> Seq(TryRow)] /\ TriesKept /\ LastTryIsOpen'
  <2>1. \A t \in TryRow : g(t) \in TryRow /\ g(t).status = "parse_error"
    BY DEF TryRow, TryStatus
  <2>2. \A j \in Jobs : \A i \in DOMAIN tries[j] : tries[j][i] \in TryRow
    <3> SUFFICES ASSUME NEW j \in Jobs, NEW i \in DOMAIN tries[j]
                 PROVE  tries[j][i] \in TryRow
      OBVIOUS
    <3>1. tries[j] \in Seq(TryRow)
      BY DEF Inv, Types
    <3>2. QED BY <3>1
  <2>3. tries' = [j \in Jobs |-> [i \in DOMAIN tries[j] |->
                    IF Overdue(tries[j][i]) THEN g(tries[j][i]) ELSE tries[j][i]]]
    BY DEF RecoverStaleParses
  <2> HIDE DEF g
  <2>4. f \in [TryRow -> TryRow]
        /\ \A t \in TryRow : f[t].status = "parsing" => t.status = "parsing"
    BY <2>1
  <2>5. tries' = [j \in Jobs |-> [i \in DOMAIN tries[j] |-> f[tries[j][i]]]]
    BY <2>2, <2>3
  <2> HIDE DEF f
  <2>6. QED BY <2>4, <2>5, TriesRewritten
<1>3. Recalls(proc[p])'
  <2>1. proc'[p] = r
    BY <1>0, <1>1 DEF Types
  <2>2. QED BY <1>1, <2>1 DEF Recalls, RecallsUploads, RecallsRaw, RecallsPage, RecallsTry, Holding
<1>4. r.pc \notin Holding
  BY <1>1 DEF Holding
<1>5. QED BY <1>0, <1>1, <1>2, <1>3, <1>4, JobsUnread, ParseStepHolds DEF Types

LEMMA ClaimNextRawStep ==
  ASSUME Inv, NEW p \in Procs, ClaimNextRaw(p)
  PROVE  Inv'
<1> DEFINE row == [run |-> p, status |-> "parsing", old |-> FALSE]
<1>0. Types /\ p \in setting.crew /\ proc[p] \in Process
      /\ UNCHANGED <<job, attempt, raw, file, setting>>
  BY DEF ClaimNextRaw, At, Inv, Types
<1>1. PICK j \in Jobs :
        /\ Parsable(p, j)
        /\ tries' = [tries EXCEPT ![j] = Append(@, row)]
        /\ proc' = [proc EXCEPT ![p].pc = "read", ![p].job = j, ![p].n = Len(tries[j]) + 1]
  BY DEF ClaimNextRaw
<1>2. row \in TryRow /\ row.status = "parsing"
  BY DEF TryRow, TryStatus
<1> HIDE DEF row
<1>3. tries[j] \in Seq(TryRow)
  BY <1>0 DEF Types
<1>4. PICK s \in Seq(TryRow) : s = tries[j]
  BY <1>3
<1>5. PICK n \in Nat \ {0} : n = Len(s) + 1
  OBVIOUS
<1>6. PICK t : t = Append(s, row)
  OBVIOUS
<1>7. t \in Seq(TryRow) /\ Len(t) = n /\ DOMAIN t = 1 .. n
      /\ DOMAIN s \subseteq 1 .. n
      /\ \A i \in 1 .. n : i # n => i \in DOMAIN s /\ t[i] = s[i]
  BY <1>2, <1>5, <1>6
<1>8. tries' = [tries EXCEPT ![j] = t]
  BY <1>1, <1>4, <1>6
<1>9. tries' \in [Jobs -> Seq(TryRow)] /\ tries'[j] = t
      /\ \A k \in Jobs : k # j => tries'[k] = tries[k]
  BY <1>0, <1>7, <1>8 DEF Types
<1>10. TriesKept
  BY <1>4, <1>7, <1>9 DEF TriesKept
<1>11. LastTryIsOpen'
  <2>1. Len(s) < MaxParses /\ \A i \in DOMAIN s : s[i].status = "parse_error"
    BY <1>1, <1>4 DEF Parsable
  <2>2. n <= MaxParses
    BY <1>5, <2>1, LimitsAssumption DEF LimitsAssumption
  <2>3. \A i \in DOMAIN t : t[i].status = "parsing" => i = n
    BY <1>7, <2>1
  <2> SUFFICES ASSUME NEW k \in Jobs
               PROVE  /\ Len(tries'[k]) <= MaxParses
                      /\ \A i \in DOMAIN tries'[k] :
                           tries'[k][i].status = "parsing" => i = Len(tries'[k])
    BY DEF LastTryIsOpen
  <2>4. CASE k = j
    BY <1>7, <1>9, <2>2, <2>3, <2>4
  <2>5. CASE k # j
    BY <1>9, <2>5 DEF Inv, LastTryIsOpen
  <2>6. QED BY <2>4, <2>5
<1>12. PICK r : r = [proc[p] EXCEPT !.pc = "read", !.job = j, !.n = n]
  OBVIOUS
<1>13. r \in Process /\ r.pc = "read" /\ r.job = j /\ r.n = n
  BY <1>0, <1>12 DEF Process
<1>14. proc' = [proc EXCEPT ![p] = r]
  <2>1. Len(tries[j]) + 1 = n
    BY <1>4, <1>5
  <2>2. QED BY <1>1, <1>12, <2>1, Zenon
<1>15. proc'[p] = r
  BY <1>0, <1>13, <1>14 DEF Types
<1>16. raw[j].sha # None
  BY <1>1 DEF Parsable, Inv, ReadyHasRow
<1>17. n \in 1 .. n
  BY <1>5
<1>18. Recalls(proc[p])'
  BY <1>0, <1>7, <1>9, <1>13, <1>15, <1>16, <1>17
     DEF Recalls, RecallsUploads, RecallsRaw, RecallsPage, RecallsTry, Holding
<1>19. r.pc \notin Holding
  BY <1>13 DEF Holding
<1>20. QED BY <1>0, <1>9, <1>10, <1>11, <1>13, <1>14, <1>18, <1>19, JobsUnread, ParseStepHolds
           DEF Types

LEMMA CloseParseStep ==
  ASSUME Inv, NEW p \in Procs, CloseParse(p)
  PROVE  Inv'
<1>0. Types /\ p \in setting.crew /\ proc[p] \in Process /\ RecallsTry(proc[p])
      /\ proc[p].pc = "verdict" /\ Next1(p, "parse_claim")
      /\ UNCHANGED <<attempt, file, setting>>
  BY DEF CloseParse, At, Inv, Types, Memory, Recalls
<1>1. PICK j \in Jobs, n \in Nat :
        j = proc[p].job /\ n = proc[p].n /\ n \in DOMAIN tries[j] /\ raw[j].sha # None
  BY <1>0 DEF RecallsTry, Process
<1>2. PICK v \in Verdicts(proc[p].body, raw[j].sha) :
        /\ tries' = [tries EXCEPT ![j][n].status = v, ![j][n].old = FALSE]
        /\ \/ UNCHANGED <<raw, job>>
           \/ LET i == IntegrityAfter(proc[p].body, raw[j].sha)
              IN  /\ raw' = [raw EXCEPT ![j].integrity = i]
                  /\ job' = [job EXCEPT ![j].status = StatusFor(i)]
  BY <1>1 DEF CloseParse
<1>3. v \in TryStatus /\ v # "parsing"
  BY DEF Verdicts, TryStatus, Final
<1>4. PICK s \in Seq(TryRow) : s = tries[j]
  BY <1>0 DEF Types
<1>5. n \in DOMAIN s /\ s[n] \in TryRow
  BY <1>1, <1>4
<1>6. PICK row : row = [s[n] EXCEPT !.status = v, !.old = FALSE]
  OBVIOUS
<1>7. row \in TryRow /\ row.status = v
  BY <1>3, <1>5, <1>6 DEF TryRow
<1>8. PICK t : t = [s EXCEPT ![n] = row]
  OBVIOUS
<1>9. t \in Seq(TryRow) /\ Len(t) = Len(s) /\ DOMAIN t = DOMAIN s
      /\ t[n] = row /\ \A i \in DOMAIN s : i # n => t[i] = s[i]
  BY <1>5, <1>7, <1>8
<1>10. tries' = [tries EXCEPT ![j] = t]
  <2>1. PICK row1 : row1 = [s[n] EXCEPT !.status = v]
    OBVIOUS
  <2>2. row = [row1 EXCEPT !.old = FALSE]
    BY <1>5, <1>6, <2>1 DEF TryRow
  <2>3. PICK m : m = [tries EXCEPT ![j][n] = row1]
    OBVIOUS
  <2>4. tries' = [m EXCEPT ![j][n].old = FALSE]
    BY <1>2, <1>4, <2>1, <2>3
  <2>5. m[j][n] = row1 /\ m[j] = [s EXCEPT ![n] = row1]
    BY <1>0, <1>4, <1>5, <2>3 DEF Types
  <2>6. tries' = [m EXCEPT ![j] = [m[j] EXCEPT ![n] = row]]
    BY <2>2, <2>4, <2>5
  <2>7. [m[j] EXCEPT ![n] = row] = t
    BY <1>5, <1>8, <2>5
  <2>8. QED BY <1>0, <2>3, <2>6, <2>7 DEF Types
<1>11. tries' \in [Jobs -> Seq(TryRow)] /\ tries'[j] = t
       /\ \A k \in Jobs : k # j => tries'[k] = tries[k]
  BY <1>0, <1>9, <1>10 DEF Types
<1>12. TriesKept
  BY <1>4, <1>9, <1>11 DEF TriesKept
<1>13. LastTryIsOpen'
  <2>1. Len(t) <= MaxParses /\ \A i \in DOMAIN t : t[i].status = "parsing" => i = Len(t)
    BY <1>3, <1>4, <1>7, <1>9 DEF Inv, LastTryIsOpen
  <2>2. QED BY <1>11, <2>1 DEF Inv, LastTryIsOpen
<1>14. /\ job' \in [Jobs -> JobRow] /\ raw' \in [Jobs -> RawRow]
       /\ \A k \in Jobs : raw'[k].sha = raw[k].sha
       /\ ReadyHasRow' /\ Counted' /\ UploadIsOpen'
  <2>1. CASE UNCHANGED <<raw, job>>
    BY <1>0, <2>1, JobsUnread DEF Types
  <2>2. CASE \E i : /\ i = IntegrityAfter(proc[p].body, raw[j].sha)
                    /\ raw' = [raw EXCEPT ![j].integrity = i]
                    /\ job' = [job EXCEPT ![j].status = StatusFor(i)]
    <3>1. PICK i : /\ i = IntegrityAfter(proc[p].body, raw[j].sha)
                   /\ raw' = [raw EXCEPT ![j].integrity = i]
                   /\ job' = [job EXCEPT ![j].status = StatusFor(i)]
      BY <2>2
    <3>2. i \in Integrity \ {"none"}
      BY <3>1 DEF IntegrityAfter, Integrity
    <3>3. QED BY <1>0, <1>1, <3>1, <3>2, IntegrityWritten
  <2>3. QED BY <1>2, <2>1, <2>2
<1>15. PICK r \in Process : r.pc = "parse_claim" /\ proc' = [proc EXCEPT ![p] = r]
  BY <1>0, NextIsIdle DEF Types, Idle
<1>16. Recalls(proc[p])'
  <2>1. proc'[p] = r
    BY <1>0, <1>15 DEF Types
  <2>2. QED BY <1>15, <2>1
            DEF Recalls, RecallsUploads, RecallsRaw, RecallsPage, RecallsTry, Holding
<1>17. r.pc \notin Holding
  BY <1>15 DEF Holding
<1>18. QED BY <1>0, <1>11, <1>12, <1>13, <1>14, <1>15, <1>16, <1>17, ParseStepHolds

-----------------------------------------------------------------------------
(* Time passes and files are lost.                                           *)

LEMMA EnvironmentStep ==
  ASSUME Inv, NEW j \in Jobs, RetryDue(j) \/ GrowOld(j) \/ LoseFile(j)
  PROVE  Inv'
<1>0. Types /\ UNCHANGED <<attempt, raw, proc, setting>>
  BY DEF Inv, RetryDue, GrowOld, LoseFile, tables
<1>1. job' \in [Jobs -> JobRow]
      /\ \A k \in Jobs : job'[k].status = job[k].status /\ job'[k].count = job[k].count
  <2>1. CASE job' = job
    BY <1>0, <2>1 DEF Types
  <2>2. CASE job' = [job EXCEPT ![j].due = TRUE]
    <3>1. job[j] \in JobRow
      BY <1>0 DEF Types
    <3>2. PICK r : r = [job[j] EXCEPT !.due = TRUE]
      OBVIOUS
    <3>3. r \in JobRow /\ r.status = job[j].status /\ r.count = job[j].count
      BY <3>1, <3>2 DEF JobRow
    <3>4. job' = [job EXCEPT ![j] = r]
      BY <2>2, <3>2
    <3>5. QED BY <1>0, <3>3, <3>4 DEF Types
  <2>3. QED BY <2>1, <2>2 DEF RetryDue, GrowOld, LoseFile, tables
<1>2. tries' \in [Jobs -> Seq(TryRow)] /\ TriesKept /\ LastTryIsOpen'
  <2>1. CASE tries' = tries
    BY <1>0, <2>1 DEF Types, TriesKept, Inv, LastTryIsOpen
  <2>2. CASE GrowOld(j)
    <3>1. PICK i \in DOMAIN tries[j] : tries' = [tries EXCEPT ![j][i].old = TRUE]
      BY <2>2 DEF GrowOld
    <3>2. PICK s \in Seq(TryRow) : s = tries[j]
      BY <1>0 DEF Types
    <3>3. i \in DOMAIN s /\ s[i] \in TryRow
      BY <3>1, <3>2
    <3>4. PICK row : row = [s[i] EXCEPT !.old = TRUE]
      OBVIOUS
    <3>5. row \in TryRow /\ row.status = s[i].status
      BY <3>3, <3>4 DEF TryRow
    <3>6. PICK t : t = [s EXCEPT ![i] = row]
      OBVIOUS
    <3>7. t \in Seq(TryRow) /\ Len(t) = Len(s) /\ DOMAIN t = DOMAIN s
          /\ \A k \in DOMAIN s : t[k].status = s[k].status
      BY <3>3, <3>5, <3>6
    <3>8. tries' = [tries EXCEPT ![j] = t]
      BY <3>1, <3>2, <3>4, <3>6, Zenon
    <3>9. tries' \in [Jobs -> Seq(TryRow)] /\ tries'[j] = t
          /\ \A k \in Jobs : k # j => tries'[k] = tries[k]
      BY <1>0, <3>7, <3>8 DEF Types
    <3>10. TriesKept
      BY <3>2, <3>7, <3>9 DEF TriesKept
    <3>11. Len(t) <= MaxParses /\ \A k \in DOMAIN t : t[k].status = "parsing" => k = Len(t)
      BY <3>2, <3>7 DEF Inv, LastTryIsOpen
    <3>12. LastTryIsOpen'
      BY <3>9, <3>11 DEF Inv, LastTryIsOpen
    <3>13. QED BY <3>9, <3>10, <3>12
  <2>3. QED BY <2>1, <2>2 DEF RetryDue, LoseFile, tables
<1>3. file' \in [Jobs -> Body] /\ \A k \in Jobs : file'[k] = file[k] \/ file'[k] = None
  <2>1. CASE file' = file
    BY <1>0, <2>1 DEF Types
  <2>2. CASE file' = [file EXCEPT ![j] = None]
    BY <1>0, <2>2 DEF Types, Body
  <2>3. QED BY <2>1, <2>2 DEF RetryDue, GrowOld, LoseFile
<1>4. Types'
  BY <1>0, <1>1, <1>2, <1>3 DEF Types
<1>5. Memory'
  <2> SUFFICES ASSUME NEW q \in Procs
               PROVE  Recalls(proc[q])'
    BY DEF Memory
  <2>1. PICK me \in Process : me = proc[q]
    BY <1>0 DEF Types
  <2>2. Recalls(me)
    BY <2>1 DEF Inv, Memory
  <2>3. ShasKept /\ RawKept
    BY <1>0 DEF ShasKept, RawKept
  <2>4. RecallsUploads(me)' /\ RecallsRaw(me)' /\ RecallsTry(me)'
    BY <1>2, <2>2, <2>3, UploadsRecalled, RawRecalled, TryRecalled DEF Recalls
  <2>5. RecallsPage(me)'
    BY <1>0, <2>2, <2>3, PageRecalled DEF Recalls
  <2>6. proc'[q] = me
    BY <1>0, <2>1
  <2>7. Recalls(me)'
    BY <2>4, <2>5 DEF Recalls
  <2>8. QED BY <2>6, <2>7 DEF Recalls, RecallsUploads, RecallsRaw, RecallsPage, RecallsTry
<1>6. CrewOnly' /\ Apart' /\ UploadIsMarked'
  BY <1>0 DEF Inv, CrewOnly, Apart, UploadIsMarked
<1>7. ReadyHasRow' /\ Counted' /\ UploadIsOpen'
  BY <1>0, <1>1 DEF Inv, ReadyHasRow, Counted, UploadIsOpen
<1>8. FileIsServed'
  BY <1>0, <1>3 DEF Inv, FileIsServed, Served
<1>9. QED BY <1>2, <1>4, <1>5, <1>6, <1>7, <1>8 DEF Inv

-----------------------------------------------------------------------------
(* The invariant, whatever processes are at work.                            *)

LEMMA InvInit == Init => Inv
<1> SUFFICES ASSUME Init PROVE Inv
  OBVIOUS
<1>1. Off \in Process /\ Off.pc = "off"
  BY DEF Off, Process, Body
<1>2. Types
  <2>1. [status |-> "none", count |-> 0, due |-> TRUE] \in JobRow
    BY LimitsAssumption DEF JobRow, JobStatus, LimitsAssumption
  <2>2. [sha |-> None, integrity |-> "none"] \in RawRow
    BY DEF RawRow, Body, Integrity
  <2>3. attempt \in [Jobs -> Seq(AttemptRow)] /\ tries \in [Jobs -> Seq(TryRow)]
    BY DEF Init
  <2>4. file \in [Jobs -> Body]
    BY DEF Init, Body
  <2>5. job \in [Jobs -> JobRow] /\ raw \in [Jobs -> RawRow] /\ proc \in [Procs -> Process]
    BY <1>1, <2>1, <2>2 DEF Init
  <2>6. QED BY <2>3, <2>4, <2>5 DEF Init, Types
<1>3. CrewOnly /\ Apart
  BY <1>1 DEF Init, CrewOnly, Apart, Holding
<1>4. Memory
  <2>1. Recalls(Off)
    BY <1>1, IdleRecalls DEF Idle
  <2>2. \A p \in Procs : proc[p] = Off
    BY DEF Init
  <2>3. QED BY <2>1, <2>2 DEF Memory
<1>5. Counted /\ ReadyHasRow /\ FileIsServed /\ UploadIsMarked /\ UploadIsOpen
  BY DEF Init, Counted, ReadyHasRow, FileIsServed, UploadIsMarked, UploadIsOpen
<1>6. LastTryIsOpen
  BY LimitsAssumption DEF Init, LastTryIsOpen, LimitsAssumption
<1>7. QED BY <1>2, <1>3, <1>4, <1>5, <1>6 DEF Inv

LEMMA InvStep == Inv /\ [Next]_vars => Inv'
<1> SUFFICES ASSUME Inv, [Next]_vars PROVE Inv'
  OBVIOUS
<1>1. CASE UNCHANGED vars
  BY <1>1 DEF vars, tables, Inv, Types, CrewOnly, Counted, Memory, Recalls, RecallsUploads,
              RecallsRaw, RecallsPage, RecallsTry, Marked, Served, Apart, ReadyHasRow,
              FileIsServed, UploadIsMarked, UploadIsOpen, LastTryIsOpen
<1>2. ASSUME NEW p \in Procs, StartCrawl(p) \/ StartParse(p) \/ Die(p)
      PROVE  Inv'
  BY <1>2, StartCrawlStep, TurnStep, EndOfRunStep
<1>3. ASSUME NEW p \in Procs, Crawl(p)
      PROVE  Inv'
  BY <1>3, StatUploadStep, RecoverUploadStep, RecoverStaleFetchesStep, StatRawStep,
     UpdateRawIntegrityStep, TurnStep, UpsertDiscoveredJobsStep, ClaimNextJobStep,
     FetchPageStep, FailuresStep, MarkUploadingStep, SavePageStep, CompleteUploadStep
     DEF Crawl
<1>4. ASSUME NEW p \in Procs, Parse(p)
      PROVE  Inv'
  BY <1>4, RecoverStaleParsesStep, ClaimNextRawStep, EndOfRunStep, ReadFileStep, CloseParseStep
     DEF Parse
<1>5. ASSUME NEW j \in Jobs, RetryDue(j) \/ GrowOld(j) \/ LoseFile(j)
      PROVE  Inv'
  BY <1>5, EnvironmentStep
<1>6. QED BY <1>1, <1>2, <1>3, <1>4, <1>5 DEF Next

LEMMA InvHolds == Spec => []Inv
<1>1. QED BY InvInit, InvStep, PTL DEF Spec

\* Every table, file and process memory keeps its type.
THEOREM TypeCorrect == Spec => []TypeOK
<1>1. Inv => TypeOK
  BY DEF Inv, Types, TypeOK
<1>2. QED BY <1>1, InvHolds, PTL

\* A job is ready, or its page said to be lost or corrupt, only with a raw row that
\* names a body some attempt fetched, whatever processes race for it.
THEOREM ReadyHasRowHolds == Spec => []ReadyHasRow
<1>1. Inv => ReadyHasRow
  BY DEF Inv
<1>2. QED BY <1>1, InvHolds, PTL

\* However many processes parse, a page is never parsed twice at a time nor more
\* often than MaxParses.
THEOREM ParseBudgetHolds == Spec => []ParseBudget
<1>1. ASSUME Inv PROVE ParseBudget
  <2> SUFFICES ASSUME NEW j \in Jobs
               PROVE  /\ Len(tries[j]) <= MaxParses
                      /\ Cardinality({i \in DOMAIN tries[j] :
                                        tries[j][i].status = "parsing"}) <= 1
    BY DEF ParseBudget
  <2>1. PICK S : S = {i \in DOMAIN tries[j] : tries[j][i].status = "parsing"}
    OBVIOUS
  <2>2. S = {} \/ S = {Len(tries[j])}
    BY <1>1, <2>1 DEF Inv, LastTryIsOpen
  <2>3. CASE S = {}
    <3>1. Cardinality(S) = 0
      BY <2>3, FS_EmptySet
    <3>2. QED BY <1>1, <2>1, <3>1 DEF Inv, LastTryIsOpen
  <2>4. CASE S = {Len(tries[j])}
    <3>1. Cardinality(S) = 1
      BY <2>4, FS_Singleton
    <3>2. QED BY <1>1, <2>1, <3>1 DEF Inv, LastTryIsOpen
  <2>5. QED BY <2>2, <2>3, <2>4
<1>2. QED BY <1>1, InvHolds, PTL

-----------------------------------------------------------------------------
(* What a step may never do to a row.                                        *)

\* A raw row may be written when there is none; afterwards only its integrity.
LEMMA RawWritten ==
  ASSUME raw \in [Jobs -> RawRow], NEW j, NEW r,
         raw' = [raw EXCEPT ![j] = r], raw[j].sha # None => r.sha = raw[j].sha
  PROVE  RawKept
  BY DEF RawKept

LEMMA RawIntegrityWritten ==
  ASSUME raw \in [Jobs -> RawRow], NEW j \in Jobs, NEW i, raw' = [raw EXCEPT ![j].integrity = i]
  PROVE  RawKept
<1>1. PICK r : r = [raw[j] EXCEPT !.integrity = i]
  OBVIOUS
<1>2. r.sha = raw[j].sha
  BY <1>1 DEF RawRow
<1>3. QED BY <1>1, <1>2, RawWritten

LEMMA RawStep == Inv /\ [Next]_vars => RawKept
<1> SUFFICES ASSUME Inv, [Next]_vars PROVE RawKept
  OBVIOUS
<1>0. raw \in [Jobs -> RawRow]
  BY DEF Inv, Types
<1>1. CASE raw' = raw
  BY <1>1 DEF RawKept
<1>2. ASSUME NEW p \in Procs, RecoverUpload(p)
      PROVE  RawKept
  <2>1. CASE raw' = raw
    BY <2>1 DEF RawKept
  <2>2. CASE InsertRaw(proc[p].job, proc[p].body)
    BY <1>0, <2>2 DEF InsertRaw, RawKept
  <2>3. QED BY <1>2, <2>1, <2>2 DEF RecoverUpload
<1>3. ASSUME NEW p \in Procs, UpdateRawIntegrity(p)
      PROVE  RawKept
  <2>1. PICK j, i : j \in Jobs /\ raw' = [raw EXCEPT ![j].integrity = i]
    <3>1. proc[p].job \in Jobs
      BY <1>3 DEF UpdateRawIntegrity, At, Inv, Memory, Recalls, RecallsRaw
    <3>2. QED BY <1>3, <3>1 DEF UpdateRawIntegrity
  <2>2. QED BY <1>0, <2>1, RawIntegrityWritten
<1>4. ASSUME NEW p \in Procs, CompleteUpload(p)
      PROVE  RawKept
  <2>1. CASE raw' = raw
    BY <2>1 DEF RawKept
  <2>2. CASE raw[proc[p].job].sha = None
    BY <1>0, <1>4, <2>2 DEF CompleteUpload, RawKept
  <2>3. QED BY <1>4, <2>1, <2>2 DEF CompleteUpload
<1>5. ASSUME NEW p \in Procs, CloseParse(p)
      PROVE  RawKept
  <2>1. CASE raw' = raw
    BY <2>1 DEF RawKept
  <2>2. CASE raw' # raw
    <3>1. proc[p].job \in Jobs
      BY <1>5 DEF CloseParse, At, Inv, Memory, Recalls, RecallsTry
    <3>2. PICK j, i : j \in Jobs /\ raw' = [raw EXCEPT ![j].integrity = i]
      BY <1>5, <2>2, <3>1 DEF CloseParse
    <3>3. QED BY <1>0, <3>2, RawIntegrityWritten
  <2>3. QED BY <2>1, <2>2
<1>6. CASE UNCHANGED vars
  BY <1>1, <1>6 DEF vars, tables
<1>7. ASSUME NEW p \in Procs, FetchFails(p) \/ RejectPage(p) \/ StorageFails(p)
      PROVE  RawKept
  BY <1>1, <1>7 DEF FetchFails, RejectPage, StorageFails, FailAttempt
<1>8. ASSUME NEW p \in Procs, StartCrawl(p) \/ StartParse(p) \/ Crawl(p) \/ Parse(p) \/ Die(p)
      PROVE  RawKept
  BY <1>1, <1>2, <1>3, <1>4, <1>5, <1>7, <1>8
     DEF Crawl, Parse, tables, StartCrawl, StartParse, Die, StatUpload, RecoverStaleFetches,
         StatRaw, EndRecovery, UpsertDiscoveredJobs, ClaimNextJob, EndCrawl, FetchPage,
         MarkUploading, SavePage, RecoverStaleParses, ClaimNextRaw, EndParse, ReadFile, LoseParse
<1>9. ASSUME NEW j \in Jobs, RetryDue(j) \/ GrowOld(j) \/ LoseFile(j)
      PROVE  RawKept
  BY <1>1, <1>9 DEF RetryDue, GrowOld, LoseFile, tables
<1>10. QED BY <1>6, <1>8, <1>9 DEF Next

\* A raw row, once there, names its body for ever, however many processes recover,
\* upload and record the page.
THEOREM RawIsWrittenOnceHolds == Spec => RawIsWrittenOnce
<1>1. Inv /\ [Next]_vars
        => [\A j \in Jobs : raw[j].sha # None => raw'[j].sha = raw[j].sha]_raw
  BY RawStep DEF RawKept
<1>2. QED BY <1>1, InvHolds, PTL DEF Spec, RawIsWrittenOnce

OutcomesKept ==
    \A j \in Jobs : \A i \in DOMAIN tries[j] :
        tries[j][i].status # "parsing" => tries'[j][i].status = tries[j][i].status

LEMMA ForgetKeepsOutcomes ==
  ASSUME Inv, NEW p, tries' = Forget(p)
  PROVE  OutcomesKept
<1> SUFFICES ASSUME NEW j \in Jobs, NEW i \in DOMAIN tries[j]
             PROVE  tries'[j][i].status = tries[j][i].status
  BY DEF OutcomesKept
<1>1. tries[j] \in Seq(TryRow)
  BY DEF Inv, Types
<1>2. tries[j][i] \in TryRow
  BY <1>1
<1>3. tries'[j][i] = IF tries[j][i].run = p THEN [tries[j][i] EXCEPT !.run = None]
                     ELSE tries[j][i]
  BY DEF Forget
<1>4. QED BY <1>2, <1>3 DEF TryRow

LEMMA OutcomesStep == Inv /\ [Next]_vars => OutcomesKept
<1> SUFFICES ASSUME Inv, [Next]_vars PROVE OutcomesKept
  OBVIOUS
<1>0. tries \in [Jobs -> Seq(TryRow)]
  BY DEF Inv, Types
<1>1. CASE tries' = tries
  BY <1>1 DEF OutcomesKept
<1>2. ASSUME NEW p \in Procs, EndParse(p) \/ LoseParse(p) \/ Die(p)
      PROVE  OutcomesKept
  BY <1>2, ForgetKeepsOutcomes DEF EndParse, LoseParse, Die
<1>3. ASSUME NEW p \in Procs, RecoverStaleParses(p)
      PROVE  OutcomesKept
  <2> SUFFICES ASSUME NEW j \in Jobs, NEW i \in DOMAIN tries[j],
                      tries[j][i].status # "parsing"
               PROVE  tries'[j][i].status = tries[j][i].status
    BY DEF OutcomesKept
  <2>1. ~Overdue(tries[j][i])
    BY DEF Overdue
  <2>2. tries'[j][i] = tries[j][i]
    BY <1>3, <2>1 DEF RecoverStaleParses
  <2>3. QED BY <2>2
<1>4. ASSUME NEW p \in Procs, ClaimNextRaw(p)
      PROVE  OutcomesKept
  <2>1. PICK j \in Jobs : \E row : tries' = [tries EXCEPT ![j] = Append(@, row)]
    BY <1>4 DEF ClaimNextRaw
  <2>2. PICK row : tries' = [tries EXCEPT ![j] = Append(@, row)]
    BY <2>1
  <2>3. PICK s \in Seq(TryRow) : s = tries[j]
    BY <1>0
  <2>4. PICK t : t = Append(s, row)
    OBVIOUS
  <2>5. \A i \in DOMAIN s : t[i] = s[i]
    BY <2>4
  <2>6. tries' = [tries EXCEPT ![j] = t]
    BY <2>2, <2>3, <2>4
  <2>7. tries'[j] = t /\ \A k \in Jobs : k # j => tries'[k] = tries[k]
    BY <1>0, <2>6
  <2>8. QED BY <2>3, <2>5, <2>7 DEF OutcomesKept
<1>5. ASSUME NEW p \in Procs, CloseParse(p)
      PROVE  OutcomesKept
  <2>1. PICK j, n, v :
          /\ j = proc[p].job /\ n = proc[p].n /\ tries[j][n].status = "parsing"
          /\ tries' = [tries EXCEPT ![j][n].status = v, ![j][n].old = FALSE]
    BY <1>5 DEF CloseParse, Mine
  <2> SUFFICES ASSUME NEW k \in Jobs, NEW i \in DOMAIN tries[k],
                      tries[k][i].status # "parsing"
               PROVE  tries'[k][i] = tries[k][i]
    BY DEF OutcomesKept
  <2>2. k # j \/ i # n
    BY <2>1
  <2>3. PICK m : m = [tries EXCEPT ![j][n].status = v]
    OBVIOUS
  <2>4. m[k][i] = tries[k][i] /\ DOMAIN m = Jobs /\ DOMAIN m[k] = DOMAIN tries[k]
    BY <1>0, <2>2, <2>3
  <2>5. tries' = [m EXCEPT ![j][n].old = FALSE]
    BY <2>1, <2>3
  <2>6. tries'[k][i] = m[k][i]
    BY <2>2, <2>4, <2>5
  <2>7. QED BY <2>4, <2>6
<1>6. ASSUME NEW j \in Jobs, GrowOld(j)
      PROVE  OutcomesKept
  <2>1. PICK i \in DOMAIN tries[j] : /\ tries[j][i].status = "parsing"
                                     /\ tries' = [tries EXCEPT ![j][i].old = TRUE]
    BY <1>6 DEF GrowOld
  <2> SUFFICES ASSUME NEW k \in Jobs, NEW l \in DOMAIN tries[k],
                      tries[k][l].status # "parsing"
               PROVE  tries'[k][l] = tries[k][l]
    BY DEF OutcomesKept
  <2>2. k # j \/ l # i
    BY <2>1
  <2>3. QED BY <1>0, <2>1, <2>2
<1>7. CASE UNCHANGED vars
  BY <1>1, <1>7 DEF vars, tables
<1>8. ASSUME NEW p \in Procs, FetchFails(p) \/ RejectPage(p) \/ StorageFails(p)
      PROVE  OutcomesKept
  BY <1>1, <1>8 DEF FetchFails, RejectPage, StorageFails, FailAttempt
<1>9. ASSUME NEW p \in Procs, StartCrawl(p) \/ StartParse(p) \/ Crawl(p) \/ Parse(p) \/ Die(p)
      PROVE  OutcomesKept
  BY <1>1, <1>2, <1>3, <1>4, <1>5, <1>8, <1>9
     DEF Crawl, Parse, tables, StartCrawl, StartParse, StatUpload, RecoverUpload,
         RecoverStaleFetches, StatRaw, UpdateRawIntegrity, EndRecovery, UpsertDiscoveredJobs,
         ClaimNextJob, EndCrawl, FetchPage, MarkUploading, SavePage, CompleteUpload, ReadFile
<1>10. ASSUME NEW j \in Jobs, RetryDue(j) \/ GrowOld(j) \/ LoseFile(j)
       PROVE  OutcomesKept
  BY <1>1, <1>6, <1>10 DEF RetryDue, LoseFile, tables
<1>11. QED BY <1>7, <1>9, <1>10 DEF Next

\* A parse attempt that is closed keeps its outcome, also when the process that began
\* it comes back after another one recovered it.
THEOREM ClosedParseIsFinalHolds == Spec => ClosedParseIsFinal
<1>1. Inv /\ [Next]_vars
        => [\A j \in Jobs : \A i \in DOMAIN tries[j] :
              tries[j][i].status # "parsing" => tries'[j][i].status = tries[j][i].status]_tries
  BY OutcomesStep DEF OutcomesKept
<1>2. QED BY <1>1, InvHolds, PTL DEF Spec, ClosedParseIsFinal

-----------------------------------------------------------------------------
(* One process at a time.                                                    *)

SoloAt(p) ==
    NewestOpen /\ RawIsSettled /\ FileIsRaw /\ KnowsUploads(proc[p]) /\ KnowsRest(proc[p])

After == {"audit", "audited", "discover", "select"}

LEMMA Single ==
  ASSUME setting \in Settings, Alone, NEW p \in setting.crew, NEW q \in setting.crew
  PROVE  p = q
<1>1. setting.crew \subseteq Procs
  BY SettingsAssumption DEF SettingsAssumption
<1>2. IsFiniteSet(Procs)
  BY ProcsAssumption DEF ProcsAssumption
<1>3. IsFiniteSet(setting.crew)
  BY <1>1, <1>2, FS_Subset
<1>4. Cardinality(setting.crew) = 1
  BY DEF Alone
<1>5. \E x : setting.crew = {x}
  BY <1>3, <1>4, FS_Singleton
<1>6. QED BY <1>5

\* A step of a process of the crew is the step of the one that works alone.
LEMMA SoloFrame ==
  ASSUME Inv, Solo, setting' = setting, NEW p \in setting.crew,
         SoloAt(p) => SoloAt(p)'
  PROVE  Solo'
<1> SUFFICES ASSUME Alone
             PROVE  NewestOpen' /\ RawIsSettled' /\ FileIsRaw' /\ Knows'
  BY DEF Solo, Alone
<1>1. SoloAt(p)
  BY DEF Solo, SoloAt, Knows
<1>2. SoloAt(p)'
  BY <1>1
<1>3. \A q \in setting.crew : q = p
  BY Single DEF Inv, Types
<1>4. QED BY <1>2, <1>3 DEF SoloAt, Knows

\* A process that leaves pages alone, or has finished with them.
LEMMA SoloTurn ==
  ASSUME NEW p \in Procs, SoloAt(p), UNCHANGED <<job, attempt, raw, file, setting>>,
         proc'[p].pc \notin Holding \cup {"uploads"},
         proc'[p].pc \in After => proc[p].pc \in After
  PROVE  SoloAt(p)'
<1>1. NewestOpen' /\ RawIsSettled' /\ FileIsRaw'
  BY DEF SoloAt, NewestOpen, RawIsSettled, FileIsRaw, Closed
<1>2. KnowsUploads(proc[p])'
  BY DEF KnowsUploads
<1>3. proc[p].pc \in After => \A j \in Jobs : Quiet(j)
  BY DEF SoloAt, KnowsRest, After
<1>4. proc'[p].pc \in After => \A j \in Jobs : Quiet(j)'
  BY <1>3 DEF Quiet, Closed
<1>5. KnowsRest(proc[p])'
  BY <1>4 DEF KnowsRest, After, Holding
<1>6. QED BY <1>1, <1>2, <1>5 DEF SoloAt

LEMMA SoloTurns ==
  ASSUME Inv, NEW p \in Procs, SoloAt(p),
         \/ EndRecovery(p) \/ EndCrawl(p) \/ StartParse(p) \/ StatRaw(p) \/ ReadFile(p)
         \/ EndParse(p) \/ LoseParse(p) \/ Die(p) \/ RecoverStaleParses(p) \/ ClaimNextRaw(p)
  PROVE  SoloAt(p)'
<1>0. proc[p] \in Process /\ proc \in [Procs -> Process]
  BY DEF Inv, Types
<1>1. UNCHANGED <<job, attempt, raw, file, setting>>
  BY DEF EndRecovery, EndCrawl, StartParse, StatRaw, ReadFile, EndParse, LoseParse, Die,
         RecoverStaleParses, ClaimNextRaw, tables
<1>2. CASE EndCrawl(p) \/ StartParse(p) \/ EndParse(p) \/ LoseParse(p) \/ Die(p)
  <2>1. proc'[p].pc \in {"off", "parse_recover"}
    BY <1>0, <1>2 DEF EndCrawl, StartParse, EndParse, LoseParse, Die, Next1, Off
  <2>2. QED BY <1>1, <2>1, SoloTurn DEF Holding, After
<1>3. CASE RecoverStaleParses(p) \/ EndRecovery(p)
  <2>1. \/ proc'[p].pc = "parse_claim"
        \/ proc'[p].pc = "discover" /\ proc[p].pc = "audit"
    BY <1>0, <1>3 DEF RecoverStaleParses, EndRecovery, To, At, Process
  <2>2. QED BY <1>1, <2>1, SoloTurn DEF Holding, After
<1>4. CASE StatRaw(p)
  <2>1. proc'[p].pc = "audited" /\ proc[p].pc = "audit"
    <3>1. PICK j, c :
            proc' = [proc EXCEPT ![p].pc = "audited", ![p].job = j, ![p].body = c]
      BY <1>4 DEF StatRaw
    <3>2. PICK r : r = [proc[p] EXCEPT !.pc = "audited", !.job = j, !.body = c]
      OBVIOUS
    <3>3. proc' = [proc EXCEPT ![p] = r]
      BY <3>1, <3>2, Zenon
    <3>4. r.pc = "audited"
      BY <1>0, <3>2 DEF Process
    <3>5. QED BY <1>0, <1>4, <3>3, <3>4 DEF StatRaw, At
  <2>2. QED BY <1>1, <2>1, SoloTurn DEF Holding, After
<1>5. CASE ClaimNextRaw(p)
  <2>1. PICK j, n : proc' = [proc EXCEPT ![p].pc = "read", ![p].job = j, ![p].n = n]
    BY <1>5 DEF ClaimNextRaw
  <2>2. PICK r : r = [proc[p] EXCEPT !.pc = "read", !.job = j, !.n = n]
    OBVIOUS
  <2>3. proc' = [proc EXCEPT ![p] = r]
    BY <2>1, <2>2, Zenon
  <2>4. r.pc = "read"
    BY <1>0, <2>2 DEF Process
  <2>5. proc'[p].pc = "read"
    BY <1>0, <2>3, <2>4
  <2>6. QED BY <1>1, <2>5, SoloTurn DEF Holding, After
<1>6. CASE ReadFile(p)
  <2>1. PICK c : proc' = [proc EXCEPT ![p].pc = "verdict", ![p].body = c]
    BY <1>6 DEF ReadFile
  <2>2. PICK r : r = [proc[p] EXCEPT !.pc = "verdict", !.body = c]
    OBVIOUS
  <2>3. proc' = [proc EXCEPT ![p] = r]
    BY <2>1, <2>2, Zenon
  <2>4. r.pc = "verdict"
    BY <1>0, <2>2 DEF Process
  <2>5. proc'[p].pc = "verdict"
    BY <1>0, <2>3, <2>4
  <2>6. QED BY <1>1, <2>5, SoloTurn DEF Holding, After
<1>7. QED BY <1>2, <1>3, <1>4, <1>5, <1>6

LEMMA SoloStartCrawl ==
  ASSUME Inv, NEW p \in Procs, SoloAt(p), StartCrawl(p)
  PROVE  SoloAt(p)'
<1>0. proc[p] \in Process /\ proc \in [Procs -> Process]
      /\ UNCHANGED <<job, attempt, raw, file, setting>>
  BY DEF StartCrawl, tables, Inv, Types
<1>1. proc'[p].pc = "uploads" /\ proc'[p].todo = PendingUploads /\ proc'[p].job = None
      /\ proc'[p].n = 0
  BY <1>0 DEF StartCrawl, Off
<1>2. NewestOpen' /\ RawIsSettled' /\ FileIsRaw'
  BY <1>0 DEF SoloAt, NewestOpen, RawIsSettled, FileIsRaw, Closed
<1>3. ASSUME NEW j \in Jobs, NEW n \in DOMAIN attempt[j]
      PROVE  attempt[j][n].status = "uploading" <=> <<j, n>> \in PendingUploads
  <2>1. attempt[j] \in Seq(AttemptRow) /\ Len(attempt[j]) <= MaxAttempts
        /\ MaxAttempts \in Nat
    BY LimitsAssumption DEF Inv, Types, Counted, JobRow, LimitsAssumption
  <2>2. n \in 1 .. MaxAttempts
    BY <2>1
  <2>3. QED BY <2>2 DEF PendingUploads, Pending
<1>4. None \notin Jobs
  BY JobsAssumption DEF JobsAssumption
<1>5. <<None, 0>> \notin PendingUploads
  BY <1>4 DEF PendingUploads, Pending
<1>6. KnowsUploads(proc[p])'
  BY <1>0, <1>1, <1>3, <1>4, <1>5 DEF KnowsUploads
<1>7. KnowsRest(proc[p])'
  BY <1>1 DEF KnowsRest, Holding
<1>8. QED BY <1>2, <1>6, <1>7 DEF SoloAt

LEMMA SoloStatUpload ==
  ASSUME Inv, NEW p \in Procs, SoloAt(p), StatUpload(p)
  PROVE  SoloAt(p)'
<1>0. proc[p] \in Process /\ proc \in [Procs -> Process]
      /\ UNCHANGED <<job, attempt, raw, file, setting>>
      /\ proc[p].pc = "uploads" /\ proc[p].job = None
  BY DEF StatUpload, At, tables, Inv, Types
<1>1. PICK u \in proc[p].todo :
        proc' = [proc EXCEPT ![p].todo = @ \ {u}, ![p].job = u[1], ![p].n = u[2],
                             ![p].body = file[u[1]]]
  BY DEF StatUpload
<1>2. PICK r : r = [proc[p] EXCEPT !.todo = @ \ {u}, !.job = u[1], !.n = u[2], !.body = file[u[1]]]
  OBVIOUS
<1>3. r.pc = "uploads" /\ r.todo = proc[p].todo \ {u} /\ r.job = u[1] /\ r.n = u[2]
      /\ r.body = file[u[1]]
  BY <1>0, <1>2 DEF Process
<1>4. proc'[p] = r
  <2>1. proc' = [proc EXCEPT ![p] = r]
    BY <1>1, <1>2, Zenon
  <2>2. QED BY <1>0, <2>1
<1>5. NewestOpen' /\ RawIsSettled' /\ FileIsRaw'
  BY <1>0 DEF SoloAt, NewestOpen, RawIsSettled, FileIsRaw, Closed
<1>6. u = <<u[1], u[2]>> /\ u[1] \in Jobs
  BY <1>0 DEF Process, Pending
<1>7. ASSUME NEW j \in Jobs, NEW n \in DOMAIN attempt[j]
      PROVE  attempt[j][n].status = "uploading"
               <=> <<j, n>> \in r.todo \/ (j = r.job /\ n = r.n)
  <2>1. attempt[j][n].status = "uploading" <=> <<j, n>> \in proc[p].todo
    BY <1>0, JobsAssumption DEF SoloAt, KnowsUploads, JobsAssumption
  <2>2. <<j, n>> = u <=> j = u[1] /\ n = u[2]
    BY <1>6
  <2>3. QED BY <1>3, <2>1, <2>2
<1>8. <<r.job, r.n>> \notin r.todo
  BY <1>3, <1>6
<1>9. KnowsUploads(proc[p])'
  BY <1>0, <1>3, <1>4, <1>7, <1>8 DEF KnowsUploads
<1>10. KnowsRest(proc[p])'
  BY <1>3, <1>4 DEF KnowsRest, Holding
<1>11. QED BY <1>5, <1>9, <1>10 DEF SoloAt

\* The newest attempt of a job is closed and the job moves on: ready, with a raw row
\* that names what its file holds, or with no raw row as before.
LEMMA SoloCloses ==
  ASSUME Inv, NewestOpen, RawIsSettled, FileIsRaw, NEW j \in Jobs,
         NEW n \in DOMAIN attempt[j], n = Len(attempt[j]), Open(attempt[j][n]),
         NEW s \in AttemptStatus \ {"fetching", "uploading"}, SetAttempt(j, n, s),
         NEW t \in JobStatus \ InFlight, NEW d \in BOOLEAN, SetJob(j, t, d),
         UNCHANGED <<file, setting>>,
         \A k \in Jobs : k # j => raw'[k] = raw[k],
         \/ raw' = raw
         \/ t = "raw_ready" /\ (~setting.lossy => raw'[j].sha = file[j])
  PROVE  /\ NewestOpen' /\ RawIsSettled' /\ FileIsRaw' /\ Quiet(j)'
         /\ \A k \in Jobs : k # j => attempt'[k] = attempt[k] /\ (Quiet(k) => Quiet(k)')
         /\ DOMAIN attempt'[j] = DOMAIN attempt[j]
         /\ attempt'[j][n].status = s
         /\ \A i \in DOMAIN attempt[j] : i # n => attempt'[j][i] = attempt[j][i]
<1>0. Types
  BY DEF Inv
<1>1. /\ job'[j].status = t
      /\ \A k \in Jobs : k # j => job'[k] = job[k]
  BY <1>0, JobIsSet DEF Types
<1>2. /\ \A k \in Jobs : Len(attempt'[k]) = Len(attempt[k])
                         /\ DOMAIN attempt'[k] = DOMAIN attempt[k]
                         /\ (k # j => attempt'[k] = attempt[k])
      /\ attempt'[j][n].status = s
      /\ \A i \in DOMAIN attempt[j] : i # n => attempt'[j][i] = attempt[j][i]
  BY <1>0, AttemptIsSet DEF Types
<1>3. Closed(j)'
  <2> SUFFICES ASSUME NEW i \in DOMAIN attempt[j]
               PROVE  ~Open(attempt'[j][i])
    BY <1>2 DEF Closed
  <2>1. CASE i = n
    BY <1>2, <2>1 DEF Open
  <2>2. CASE i # n
    <3>1. attempt'[j][i] = attempt[j][i]
      BY <1>2, <2>2
    <3>2. ~Open(attempt[j][i])
      BY <2>2 DEF NewestOpen
    <3>3. QED BY <3>1, <3>2
  <2>3. QED BY <2>1, <2>2
<1>4. Quiet(j)'
  BY <1>1, <1>3 DEF Quiet
<1>5. \A k \in Jobs : k # j => (Quiet(k) => Quiet(k)') /\ (Closed(k) => Closed(k)')
  BY <1>1, <1>2 DEF Quiet, Closed
<1>6. NewestOpen'
  BY <1>2, <1>3 DEF NewestOpen, Closed
<1>7. raw[j].sha = None
  BY DEF RawIsSettled, Closed
<1>8. RawIsSettled'
  <2>1. raw'[j].sha # None => t = "raw_ready"
    BY <1>7
  <2>2. QED BY <1>1, <1>3, <1>5, <2>1 DEF RawIsSettled, Ready
<1>9. FileIsRaw'
  BY <1>7 DEF FileIsRaw
<1>10. QED BY <1>2, <1>4, <1>5, <1>6, <1>8, <1>9

LEMMA SoloRecoverUpload ==
  ASSUME Inv, NEW p \in Procs, SoloAt(p), RecoverUpload(p)
  PROVE  SoloAt(p)'
<1>0. Types /\ proc[p] \in Process /\ UNCHANGED <<file, setting>>
      /\ proc[p].pc = "uploads" /\ proc[p].job # None
      /\ proc' = [proc EXCEPT ![p].job = None, ![p].n = 0, ![p].body = None]
  BY DEF RecoverUpload, At, Inv, Types
<1>1. PICK j \in Jobs, n \in Nat, c \in Body :
        j = proc[p].job /\ n = proc[p].n /\ c = proc[p].body
  BY <1>0 DEF Process
<1>2. n \in DOMAIN attempt[j]
  BY <1>0, <1>1 DEF Inv, Memory, Recalls, RecallsUploads, Marked
<1>3. attempt[j][n].status = "uploading"
  BY <1>0, <1>1, <1>2 DEF SoloAt, KnowsUploads
<1>4. Open(attempt[j][n]) /\ n = Len(attempt[j]) /\ raw[j].sha = None
  BY <1>2, <1>3 DEF SoloAt, NewestOpen, RawIsSettled, Closed, Open
<1>5. ~setting.lossy => c = file[j]
  BY <1>0, <1>1 DEF SoloAt, KnowsUploads
<1>6. PICK s \in {"success", "storage_error"}, t \in {"raw_ready", "retryable_error"},
           d \in BOOLEAN :
        /\ SetAttempt(j, n, s) /\ SetJob(j, t, d)
        /\ raw' = raw \/ (t = "raw_ready" /\ InsertRaw(j, c))
  <2>1. CASE InsertRaw(j, c) /\ SetAttempt(j, n, "success") /\ SetJob(j, "raw_ready", TRUE)
    BY <2>1
  <2>2. CASE raw' = raw /\ SetAttempt(j, n, "storage_error")
             /\ SetJob(j, "retryable_error", FALSE)
    BY <2>2
  <2>3. QED BY <1>0, <1>1, <2>1, <2>2 DEF RecoverUpload, FailRecovered
<1>7. /\ \A k \in Jobs : k # j => raw'[k] = raw[k]
      /\ \/ raw' = raw
         \/ t = "raw_ready" /\ (~setting.lossy => raw'[j].sha = file[j])
  <2>1. CASE raw' = raw
    BY <2>1
  <2>2. CASE t = "raw_ready" /\ InsertRaw(j, c)
    <3>1. raw' = [raw EXCEPT ![j] = [sha |-> c, integrity |-> "valid"]]
      BY <1>4, <2>2 DEF InsertRaw
    <3>2. raw'[j].sha = c /\ \A k \in Jobs : k # j => raw'[k] = raw[k]
      BY <1>0, <3>1 DEF Types
    <3>3. QED BY <1>5, <2>2, <3>2
  <2>3. QED BY <1>6, <2>1, <2>2
<1>8. /\ NewestOpen' /\ RawIsSettled' /\ FileIsRaw'
      /\ \A k \in Jobs : k # j => attempt'[k] = attempt[k]
      /\ DOMAIN attempt'[j] = DOMAIN attempt[j]
      /\ attempt'[j][n].status = s
      /\ \A i \in DOMAIN attempt[j] : i # n => attempt'[j][i] = attempt[j][i]
  <2>1. s \in AttemptStatus \ {"fetching", "uploading"} /\ t \in JobStatus \ InFlight
    BY DEF AttemptStatus, JobStatus, InFlight
  <2>2. NewestOpen /\ RawIsSettled /\ FileIsRaw
    BY DEF SoloAt
  <2>3. QED BY <1>0, <1>2, <1>4, <1>6, <1>7, <2>1, <2>2, SoloCloses
<1>9. PICK r : r = [proc[p] EXCEPT !.job = None, !.n = 0, !.body = None]
  OBVIOUS
<1>10. r.pc = "uploads" /\ r.todo = proc[p].todo /\ r.job = None /\ r.n = 0
  BY <1>0, <1>9 DEF Process
<1>11. proc'[p] = r
  <2>1. proc' = [proc EXCEPT ![p] = r]
    BY <1>0, <1>9, Zenon
  <2>2. QED BY <1>0, <2>1 DEF Types
<1>12. None \notin Jobs
  BY JobsAssumption DEF JobsAssumption
<1>13. <<j, n>> \notin proc[p].todo
  BY <1>0, <1>1 DEF SoloAt, KnowsUploads
<1>14. ASSUME NEW k \in Jobs, NEW i \in DOMAIN attempt'[k]
       PROVE  attempt'[k][i].status = "uploading"
                <=> <<k, i>> \in r.todo \/ (k = r.job /\ i = r.n)
  <2>1. CASE k = j /\ i = n
    BY <1>8, <1>10, <1>12, <1>13, <2>1
  <2>2. CASE k # j \/ i # n
    <3>1. attempt'[k][i] = attempt[k][i] /\ i \in DOMAIN attempt[k]
      BY <1>8, <2>2
    <3>2. attempt[k][i].status = "uploading" <=> <<k, i>> \in proc[p].todo
      BY <1>0, <1>1, <2>2, <3>1 DEF SoloAt, KnowsUploads
    <3>3. QED BY <1>10, <1>12, <3>1, <3>2
  <2>3. QED BY <2>1, <2>2
<1>15. <<r.job, r.n>> \notin r.todo
  BY <1>0, <1>10, <1>12 DEF Process, Pending
<1>16. KnowsUploads(proc[p])'
  BY <1>10, <1>11, <1>14, <1>15 DEF KnowsUploads
<1>17. KnowsRest(proc[p])'
  BY <1>10, <1>11 DEF KnowsRest, Holding
<1>18. QED BY <1>8, <1>16, <1>17 DEF SoloAt

LEMMA SoloRecoverStaleFetches ==
  ASSUME Inv, NEW p \in Procs, SoloAt(p), RecoverStaleFetches(p)
  PROVE  SoloAt(p)'
<1>0. Types /\ UNCHANGED <<raw, file, setting>>
      /\ proc[p].pc = "uploads" /\ proc[p].job = None /\ proc[p].todo = {}
  BY DEF RecoverStaleFetches, At, Inv
<1>1. proc'[p].pc = "audit"
  <2>1. PICK S : proc' = [proc EXCEPT ![p].pc = "audit", ![p].checks = S]
    BY DEF RecoverStaleFetches
  <2>2. PICK r : r = [proc[p] EXCEPT !.pc = "audit", !.checks = S]
    OBVIOUS
  <2>3. proc' = [proc EXCEPT ![p] = r]
    BY <2>1, <2>2, Zenon
  <2>4. r.pc = "audit"
    BY <1>0, <2>2 DEF Types, Process
  <2>5. QED BY <1>0, <2>3, <2>4 DEF Types
<1>2. \A j \in Jobs : \A n \in DOMAIN attempt[j] : attempt[j][n].status # "uploading"
  BY <1>0, JobsAssumption DEF SoloAt, KnowsUploads, JobsAssumption
<1>3. \A j \in Jobs : Quiet(j)'
  <2> SUFFICES ASSUME NEW j \in Jobs
               PROVE  Quiet(j)'
    OBVIOUS
  <2>1. job'[j] = IF j \in Stale THEN [job[j] EXCEPT !.status = "retryable_error", !.due = TRUE]
                  ELSE job[j]
    BY DEF RecoverStaleFetches
  <2>2. job[j].status # "uploading" /\ job[j] \in JobRow
    BY <1>0, <1>2 DEF Inv, UploadIsOpen, Types
  <2>3. job'[j].status \notin InFlight
    <3>1. CASE j \in Stale
      BY <2>1, <2>2, <3>1 DEF InFlight, JobRow
    <3>2. CASE j \notin Stale
      BY <2>1, <2>2, <3>2 DEF InFlight, Stale
    <3>3. QED BY <3>1, <3>2
  <2>4. attempt'[j] = [n \in DOMAIN attempt[j] |-> Interrupted(attempt[j][n])]
    BY DEF RecoverStaleFetches
  <2>5. ASSUME NEW n \in DOMAIN attempt[j]
        PROVE  ~Open(Interrupted(attempt[j][n]))
    <3>1. attempt[j] \in Seq(AttemptRow)
      BY <1>0 DEF Types
    <3>2. attempt[j][n] \in AttemptRow
      BY <3>1
    <3>3. attempt[j][n].status # "uploading"
      BY <1>2
    <3>4. QED BY <3>2, <3>3 DEF Open, Interrupted, AttemptRow
  <2>6. QED BY <2>3, <2>4, <2>5 DEF Quiet, Closed
<1>4. NewestOpen'
  BY <1>3 DEF NewestOpen, Quiet, Closed
<1>5. RawIsSettled'
  <2> SUFFICES ASSUME NEW j \in Jobs, raw[j].sha # None
               PROVE  job'[j].status \in Ready
    BY <1>0, <1>3 DEF RawIsSettled, Quiet
  <2>1. job[j].status \in Ready
    BY DEF SoloAt, RawIsSettled
  <2>2. job'[j] = job[j]
    BY <2>1 DEF RecoverStaleFetches, Stale, Ready
  <2>3. QED BY <2>1, <2>2
<1>6. FileIsRaw'
  BY <1>0 DEF SoloAt, FileIsRaw
<1>7. KnowsUploads(proc[p])'
  BY <1>1 DEF KnowsUploads
<1>8. KnowsRest(proc[p])'
  BY <1>1, <1>3 DEF KnowsRest, Holding
<1>9. QED BY <1>4, <1>5, <1>6, <1>7, <1>8 DEF SoloAt

\* What the process holds is the newest attempt, open; every other job is quiet.
LEMMA SoloHolds ==
  ASSUME Inv, NEW p \in Procs, SoloAt(p), proc[p].pc \in Holding
  PROVE  /\ proc[p].job \in Jobs /\ proc[p].n \in DOMAIN attempt[proc[p].job]
         /\ proc[p].n = Len(attempt[proc[p].job])
         /\ Open(attempt[proc[p].job][proc[p].n])
         /\ raw[proc[p].job].sha = None
         /\ \A k \in Jobs : k # proc[p].job => Quiet(k)
<1>1. proc[p].job \in Jobs /\ proc[p].n \in DOMAIN attempt[proc[p].job]
  BY DEF Inv, Memory, Recalls, RecallsPage
<1>2. /\ proc[p].n = Len(attempt[proc[p].job])
      /\ Open(attempt[proc[p].job][proc[p].n])
      /\ \A k \in Jobs : k # proc[p].job => Quiet(k)
  BY DEF SoloAt, KnowsRest, Open
<1>3. raw[proc[p].job].sha = None
  BY <1>1, <1>2 DEF SoloAt, RawIsSettled, Closed
<1>4. QED BY <1>1, <1>2, <1>3

LEMMA SoloFails ==
  ASSUME Inv, NEW p \in Procs, SoloAt(p), FetchFails(p) \/ RejectPage(p) \/ StorageFails(p)
  PROVE  SoloAt(p)'
<1>0. Types /\ proc[p].pc \in Holding
  BY DEF FetchFails, RejectPage, StorageFails, At, Holding, Inv
<1>1. PICK s \in {"fetch_error", "blocked", "invalid_response", "storage_error"},
           retryable \in BOOLEAN : FailAttempt(p, s, retryable)
  BY DEF FetchFails, RejectPage, StorageFails
<1>2. PICK j \in Jobs, n \in {proc[p].n} : j = proc[p].job /\ n = proc[p].n
  BY <1>0, SoloHolds
<1>3. n \in DOMAIN attempt[j] /\ n = Len(attempt[j]) /\ Open(attempt[j][n])
      /\ \A k \in Jobs : k # j => Quiet(k)
  BY <1>0, <1>2, SoloHolds
<1>4. PICK t \in {"blocked", "permanent_error", "retryable_error"}, d \in BOOLEAN :
        SetAttempt(j, n, s) /\ SetJob(j, t, d)
  <2>1. PICK t : t = AfterFailure(n, s, retryable)
    OBVIOUS
  <2>2. t \in {"blocked", "permanent_error", "retryable_error"}
    BY <2>1 DEF AfterFailure
  <2>3. PICK d \in BOOLEAN : d = (t = "permanent_error")
    OBVIOUS
  <2>4. SetAttempt(j, n, s) /\ SetJob(j, t, d)
    BY <1>1, <1>2, <2>1, <2>3 DEF FailAttempt
  <2>5. QED BY <2>2, <2>4
<1>5. UNCHANGED <<raw, file, setting>>
  BY <1>1 DEF FailAttempt
<1>6. proc'[p].pc \in {"off", "select"}
  BY <1>0, <1>1 DEF FailAttempt, Next1, Off, Types
<1>7. /\ NewestOpen' /\ RawIsSettled' /\ FileIsRaw' /\ Quiet(j)'
      /\ \A k \in Jobs : k # j => (Quiet(k) => Quiet(k)')
  <2>1. s \in AttemptStatus \ {"fetching", "uploading"} /\ t \in JobStatus \ InFlight
    BY DEF AttemptStatus, JobStatus, InFlight
  <2>2. NewestOpen /\ RawIsSettled /\ FileIsRaw
    BY DEF SoloAt
  <2>3. QED BY <1>3, <1>4, <1>5, <2>1, <2>2, SoloCloses
<1>8. \A k \in Jobs : Quiet(k)'
  BY <1>3, <1>7
<1>9. KnowsUploads(proc[p])'
  BY <1>6 DEF KnowsUploads
<1>10. KnowsRest(proc[p])'
  BY <1>6, <1>8 DEF KnowsRest, Holding
<1>11. QED BY <1>7, <1>9, <1>10 DEF SoloAt

LEMMA SoloCompletes ==
  ASSUME Inv, NEW p \in Procs, SoloAt(p), CompleteUpload(p)
  PROVE  SoloAt(p)'
<1>0. Types /\ proc[p].pc = "stored" /\ UNCHANGED <<file, setting>>
  BY DEF CompleteUpload, At, Inv
<1>1. PICK j \in Jobs, n \in {proc[p].n}, c \in {proc[p].body} :
        j = proc[p].job /\ n = proc[p].n /\ c = proc[p].body
  BY <1>0, SoloHolds DEF Holding
<1>2. n \in DOMAIN attempt[j] /\ n = Len(attempt[j]) /\ Open(attempt[j][n])
      /\ raw[j].sha = None /\ \A k \in Jobs : k # j => Quiet(k)
  BY <1>0, <1>1, SoloHolds DEF Holding
<1>3. /\ raw' = [raw EXCEPT ![j] = [sha |-> c, integrity |-> "valid"]]
      /\ SetAttempt(j, n, "success") /\ SetJob(j, "raw_ready", TRUE) /\ Next1(p, "select")
  BY <1>1, <1>2 DEF CompleteUpload
<1>4. raw'[j].sha = c /\ \A k \in Jobs : k # j => raw'[k] = raw[k]
  BY <1>0, <1>3 DEF Types
<1>5. ~setting.lossy => c = file[j]
  BY <1>0, <1>1 DEF SoloAt, KnowsRest
<1>6. proc'[p].pc = "select"
  BY <1>0, <1>3 DEF Next1, Off, Types
<1>7. /\ NewestOpen' /\ RawIsSettled' /\ FileIsRaw' /\ Quiet(j)'
      /\ \A k \in Jobs : k # j => (Quiet(k) => Quiet(k)')
  <2>1. "success" \in AttemptStatus \ {"fetching", "uploading"}
        /\ "raw_ready" \in JobStatus \ InFlight
    BY DEF AttemptStatus, JobStatus, InFlight
  <2>2. NewestOpen /\ RawIsSettled /\ FileIsRaw
    BY DEF SoloAt
  <2>3. PICK s \in AttemptStatus \ {"fetching", "uploading"}, t \in JobStatus \ InFlight,
             d \in BOOLEAN :
          s = "success" /\ t = "raw_ready" /\ SetAttempt(j, n, s) /\ SetJob(j, t, d)
    BY <1>3, <2>1
  <2>4. t = "raw_ready" /\ (~setting.lossy => raw'[j].sha = file[j])
    BY <1>4, <1>5, <2>3
  <2>5. QED BY <1>0, <1>2, <1>4, <2>2, <2>3, <2>4, SoloCloses
<1>8. \A k \in Jobs : Quiet(k)'
  BY <1>2, <1>7
<1>9. KnowsUploads(proc[p])'
  BY <1>6 DEF KnowsUploads
<1>10. KnowsRest(proc[p])'
  BY <1>6, <1>8 DEF KnowsRest, Holding
<1>11. QED BY <1>7, <1>9, <1>10 DEF SoloAt

\* A job whose page somebody looked at has its raw row and is settled either way.
LEMMA SoloIntegrity ==
  ASSUME Inv, NewestOpen, RawIsSettled, FileIsRaw, NEW j \in Jobs, raw[j].sha # None,
         NEW i \in Integrity \ {"none"}, raw' = [raw EXCEPT ![j].integrity = i],
         job' = [job EXCEPT ![j].status = StatusFor(i)], UNCHANGED <<attempt, file, setting>>
  PROVE  /\ NewestOpen' /\ RawIsSettled' /\ FileIsRaw'
         /\ \A k \in Jobs : Quiet(k) => Quiet(k)'
<1>1. /\ \A k \in Jobs : raw'[k].sha = raw[k].sha
      /\ \A k \in Jobs : k # j => job'[k] = job[k]
      /\ job'[j].status \in Ready
  BY IntegrityWritten
<1>2. NewestOpen'
  BY DEF NewestOpen
<1>3. RawIsSettled'
  BY <1>1 DEF RawIsSettled, Closed
<1>4. FileIsRaw'
  BY <1>1 DEF FileIsRaw
<1>5. \A k \in Jobs : Quiet(k) => Quiet(k)'
  BY <1>1 DEF Quiet, Closed, Ready, InFlight
<1>6. QED BY <1>2, <1>3, <1>4, <1>5

LEMMA SoloUpdateRawIntegrity ==
  ASSUME Inv, NEW p \in Procs, SoloAt(p), UpdateRawIntegrity(p)
  PROVE  SoloAt(p)'
<1>0. Types /\ proc[p].pc = "audited" /\ UNCHANGED <<attempt, file, setting>>
  BY DEF UpdateRawIntegrity, At, Inv
<1>1. PICK j \in Jobs : j = proc[p].job /\ raw[j].sha # None
  BY <1>0 DEF Inv, Memory, Recalls, RecallsRaw
<1>2. PICK i : i = Audit(proc[p].body, raw[j].sha)
  OBVIOUS
<1>3. i \in Integrity \ {"none"}
  BY <1>2 DEF Audit, Integrity
<1>4. /\ raw' = [raw EXCEPT ![j].integrity = i]
      /\ job' = [job EXCEPT ![j].status = StatusFor(i)]
  BY <1>1, <1>2 DEF UpdateRawIntegrity
<1>5. /\ NewestOpen' /\ RawIsSettled' /\ FileIsRaw'
      /\ \A k \in Jobs : Quiet(k) => Quiet(k)'
  <2>1. NewestOpen /\ RawIsSettled /\ FileIsRaw
    BY DEF SoloAt
  <2>2. QED BY <1>0, <1>1, <1>3, <1>4, <2>1, SoloIntegrity
<1>6. proc'[p].pc = "audit"
  <2>1. PICK S : proc' = [proc EXCEPT ![p].pc = "audit", ![p].checks = S,
                                      ![p].job = None, ![p].body = None]
    BY <1>1 DEF UpdateRawIntegrity
  <2>2. PICK r : r = [proc[p] EXCEPT !.pc = "audit", !.checks = S, !.job = None, !.body = None]
    OBVIOUS
  <2>3. proc' = [proc EXCEPT ![p] = r]
    BY <2>1, <2>2, Zenon
  <2>4. r.pc = "audit"
    BY <1>0, <2>2 DEF Types, Process
  <2>5. QED BY <1>0, <2>3, <2>4 DEF Types
<1>7. \A k \in Jobs : Quiet(k)'
  BY <1>0, <1>5 DEF SoloAt, KnowsRest
<1>8. KnowsUploads(proc[p])'
  BY <1>6 DEF KnowsUploads
<1>9. KnowsRest(proc[p])'
  BY <1>6, <1>7 DEF KnowsRest, Holding
<1>10. QED BY <1>5, <1>8, <1>9 DEF SoloAt

LEMMA SoloCloseParse ==
  ASSUME Inv, NEW p \in Procs, SoloAt(p), CloseParse(p)
  PROVE  SoloAt(p)'
<1>0. Types /\ proc[p].pc = "verdict" /\ UNCHANGED <<attempt, file, setting>>
  BY DEF CloseParse, At, Inv
<1>1. PICK j \in Jobs : j = proc[p].job /\ raw[j].sha # None
  BY <1>0 DEF Inv, Memory, Recalls, RecallsTry
<1>2. proc'[p].pc = "parse_claim"
  BY <1>0 DEF CloseParse, Next1, Off, Types
<1>3. NewestOpen /\ RawIsSettled /\ FileIsRaw
  BY DEF SoloAt
<1>4. NewestOpen' /\ RawIsSettled' /\ FileIsRaw'
  <2>1. CASE UNCHANGED <<raw, job>>
    BY <1>0, <1>3, <2>1 DEF NewestOpen, RawIsSettled, FileIsRaw, Closed
  <2>2. CASE \E i : /\ i = IntegrityAfter(proc[p].body, raw[j].sha)
                    /\ raw' = [raw EXCEPT ![j].integrity = i]
                    /\ job' = [job EXCEPT ![j].status = StatusFor(i)]
    <3>1. PICK i : /\ i = IntegrityAfter(proc[p].body, raw[j].sha)
                   /\ raw' = [raw EXCEPT ![j].integrity = i]
                   /\ job' = [job EXCEPT ![j].status = StatusFor(i)]
      BY <2>2
    <3>2. i \in Integrity \ {"none"}
      BY <3>1 DEF IntegrityAfter, Integrity
    <3>3. QED BY <1>0, <1>1, <1>3, <3>1, <3>2, SoloIntegrity
  <2>3. QED BY <1>1, <2>1, <2>2 DEF CloseParse
<1>5. KnowsUploads(proc[p])' /\ KnowsRest(proc[p])'
  BY <1>2 DEF KnowsUploads, KnowsRest, Holding
<1>6. QED BY <1>4, <1>5 DEF SoloAt

LEMMA SoloUpsert ==
  ASSUME Inv, NEW p \in Procs, SoloAt(p), UpsertDiscoveredJobs(p)
  PROVE  SoloAt(p)'
<1>0. Types /\ proc[p].pc = "discover" /\ UNCHANGED <<attempt, raw, file, setting>>
  BY DEF UpsertDiscoveredJobs, At, Inv
<1>1. proc'[p].pc = "select"
  BY <1>0 DEF UpsertDiscoveredJobs, To, Types, Process
<1>2. \A j \in Jobs : job'[j] = job[j] \/ (job[j].status = "none" /\ job'[j].status = "pending")
  <2> SUFFICES ASSUME NEW j \in Jobs
               PROVE  job'[j] = job[j] \/ (job[j].status = "none" /\ job'[j].status = "pending")
    OBVIOUS
  <2>1. job[j] \in JobRow
    BY <1>0 DEF Types
  <2>2. \/ job'[j] = job[j]
        \/ job[j].status = "none" /\ job'[j] = [job[j] EXCEPT !.status = "pending"]
    BY DEF UpsertDiscoveredJobs
  <2>3. QED BY <2>1, <2>2 DEF JobRow
<1>3. \A j \in Jobs : Quiet(j)'
  BY <1>0, <1>2 DEF SoloAt, KnowsRest, Quiet, Closed, InFlight
<1>4. NewestOpen' /\ FileIsRaw'
  BY <1>0 DEF SoloAt, NewestOpen, FileIsRaw
<1>5. RawIsSettled'
  BY <1>0, <1>2 DEF SoloAt, RawIsSettled, Closed, Ready
<1>6. KnowsUploads(proc[p])'
  BY <1>1 DEF KnowsUploads
<1>7. KnowsRest(proc[p])'
  BY <1>1, <1>3 DEF KnowsRest, Holding
<1>8. QED BY <1>4, <1>5, <1>6, <1>7 DEF SoloAt

LEMMA SoloClaim ==
  ASSUME Inv, NEW p \in Procs, SoloAt(p), ClaimNextJob(p)
  PROVE  SoloAt(p)'
<1> DEFINE row == [status |-> "fetching", sha |-> None]
<1>0. Types /\ proc[p].pc = "select" /\ UNCHANGED <<raw, file, setting>>
  BY DEF ClaimNextJob, At, Inv
<1>1. PICK j \in Jobs :
        /\ Claimable(j)
        /\ job' = [job EXCEPT ![j].status = "fetching", ![j].count = @ + 1, ![j].due = TRUE]
        /\ attempt' = [attempt EXCEPT ![j] = Append(@, row)]
        /\ proc' = [proc EXCEPT ![p].pc = "fetch", ![p].job = j, ![p].n = job[j].count + 1]
  BY DEF ClaimNextJob
<1>2. row.status = "fetching"
  OBVIOUS
<1> HIDE DEF row
<1>3. PICK s \in Seq(AttemptRow) : s = attempt[j]
  BY <1>0 DEF Types
<1>4. PICK n \in Nat : n = Len(s) + 1
  OBVIOUS
<1>5. n = job[j].count + 1
  BY <1>3, <1>4 DEF Inv, Counted
<1>6. PICK t : t = Append(s, row)
  OBVIOUS
<1>7. Len(t) = n /\ DOMAIN t = 1 .. n /\ t[n] = row
      /\ \A i \in 1 .. n : i # n => i \in DOMAIN s /\ t[i] = s[i]
  BY <1>4, <1>6
<1>8. attempt' = [attempt EXCEPT ![j] = t]
  BY <1>1, <1>3, <1>6
<1>9. attempt'[j] = t /\ \A k \in Jobs : k # j => attempt'[k] = attempt[k]
  BY <1>0, <1>8 DEF Types
<1>10. \A k \in Jobs : k # j => job'[k] = job[k]
  BY <1>0, <1>1 DEF Types
<1>11. \A k \in Jobs : Quiet(k)
  BY <1>0 DEF SoloAt, KnowsRest
<1>12. \A k \in Jobs : k # j => Quiet(k)'
  BY <1>9, <1>10, <1>11 DEF Quiet, Closed
<1>13. NewestOpen'
  <2>1. \A i \in DOMAIN t : Open(t[i]) => i = n
    BY <1>3, <1>7, <1>11 DEF Quiet, Closed
  <2>2. QED BY <1>7, <1>9, <2>1 DEF SoloAt, NewestOpen
<1>14. raw[j].sha = None
  BY <1>1 DEF Claimable, SoloAt, RawIsSettled, Ready
<1>15. RawIsSettled'
  BY <1>0, <1>9, <1>10, <1>14 DEF SoloAt, RawIsSettled, Closed
<1>16. FileIsRaw'
  BY <1>0 DEF SoloAt, FileIsRaw
<1>17. PICK r : r = [proc[p] EXCEPT !.pc = "fetch", !.job = j, !.n = n]
  OBVIOUS
<1>18. r.pc = "fetch" /\ r.job = j /\ r.n = n
  BY <1>0, <1>17 DEF Types, Process
<1>19. proc'[p] = r
  <2>1. job[j].count + 1 = n
    BY <1>5
  <2>2. proc' = [proc EXCEPT ![p] = r]
    BY <1>1, <1>17, <2>1, Zenon
  <2>3. QED BY <1>0, <2>2 DEF Types
<1>20. KnowsUploads(proc[p])'
  BY <1>18, <1>19 DEF KnowsUploads
<1>21. KnowsRest(proc[p])'
  BY <1>2, <1>7, <1>9, <1>12, <1>18, <1>19 DEF KnowsRest, Holding
<1>22. QED BY <1>13, <1>15, <1>16, <1>20, <1>21 DEF SoloAt

LEMMA SoloFetchPage ==
  ASSUME Inv, NEW p \in Procs, SoloAt(p), FetchPage(p)
  PROVE  SoloAt(p)'
<1>0. Types /\ proc[p].pc = "fetch" /\ UNCHANGED <<attempt, raw, file, setting>>
  BY DEF FetchPage, At, Inv
<1>1. PICK j \in Jobs, n \in {proc[p].n} : j = proc[p].job /\ n = proc[p].n
  BY <1>0, SoloHolds DEF Holding
<1>2. n = Len(attempt[j]) /\ raw[j].sha = None /\ \A k \in Jobs : k # j => Quiet(k)
  BY <1>0, <1>1, SoloHolds DEF Holding
<1>3. attempt[j][n].status = "fetching"
  BY <1>0, <1>1 DEF SoloAt, KnowsRest, Holding
<1>4. \A k \in Jobs : k # j => job'[k] = job[k]
  BY <1>0, <1>1 DEF FetchPage, SetJob, Types
<1>5. PICK c : proc' = [proc EXCEPT ![p].pc = "validate", ![p].body = c]
  BY DEF FetchPage
<1>6. PICK r : r = [proc[p] EXCEPT !.pc = "validate", !.body = c]
  OBVIOUS
<1>7. r.pc = "validate" /\ r.job = j /\ r.n = n
  BY <1>0, <1>1, <1>6 DEF Types, Process
<1>8. proc'[p] = r
  <2>1. proc' = [proc EXCEPT ![p] = r]
    BY <1>5, <1>6, Zenon
  <2>2. QED BY <1>0, <2>1 DEF Types
<1>9. NewestOpen' /\ FileIsRaw'
  BY <1>0 DEF SoloAt, NewestOpen, FileIsRaw
<1>10. RawIsSettled'
  BY <1>0, <1>2, <1>4 DEF SoloAt, RawIsSettled, Closed
<1>11. KnowsUploads(proc[p])'
  BY <1>7, <1>8 DEF KnowsUploads
<1>12. \A k \in Jobs : k # j => Quiet(k)'
  BY <1>0, <1>2, <1>4 DEF Quiet, Closed
<1>13. KnowsRest(proc[p])'
  BY <1>0, <1>2, <1>3, <1>7, <1>8, <1>12 DEF KnowsRest, Holding
<1>14. QED BY <1>9, <1>10, <1>11, <1>13 DEF SoloAt

LEMMA SoloMarkUploading ==
  ASSUME Inv, NEW p \in Procs, SoloAt(p), MarkUploading(p)
  PROVE  SoloAt(p)'
<1>0. Types /\ proc[p].pc = "validate" /\ UNCHANGED <<raw, file, setting>>
  BY DEF MarkUploading, At, Inv
<1>1. PICK j \in Jobs, n \in {proc[p].n} : j = proc[p].job /\ n = proc[p].n
  BY <1>0, SoloHolds DEF Holding
<1>2. n \in DOMAIN attempt[j] /\ n = Len(attempt[j]) /\ raw[j].sha = None
      /\ \A k \in Jobs : k # j => Quiet(k)
  BY <1>0, <1>1, SoloHolds DEF Holding
<1>3. PICK row : row = [status |-> "uploading", sha |-> proc[p].body]
  OBVIOUS
<1>4. row.status = "uploading"
  BY <1>3
<1>5. attempt' = [attempt EXCEPT ![j][n] = row]
      /\ job' = [job EXCEPT ![j].status = "uploading"]
  BY <1>1, <1>3 DEF MarkUploading
<1>6. PICK s \in Seq(AttemptRow) : s = attempt[j]
  BY <1>0 DEF Types
<1>7. PICK t : t = [s EXCEPT ![n] = row]
  OBVIOUS
<1>8. n \in DOMAIN s /\ n = Len(s) /\ \E m \in Nat : DOMAIN s = 1 .. m /\ Len(s) = m
  BY <1>2, <1>6
<1>9. DOMAIN t = DOMAIN s /\ Len(t) = n /\ t[n] = row /\ \A i \in DOMAIN s : i # n => t[i] = s[i]
  BY <1>7, <1>8
<1>10. attempt'[j] = t /\ \A k \in Jobs : k # j => attempt'[k] = attempt[k] /\ job'[k] = job[k]
  <2>1. attempt' = [attempt EXCEPT ![j] = t]
    BY <1>5, <1>6, <1>7
  <2>2. QED BY <1>0, <1>5, <2>1 DEF Types
<1>11. NewestOpen'
  <2>1. \A i \in DOMAIN t : Open(t[i]) => i = n
    BY <1>6, <1>8, <1>9 DEF SoloAt, NewestOpen
  <2>2. QED BY <1>9, <1>10, <2>1 DEF SoloAt, NewestOpen
<1>12. RawIsSettled'
  BY <1>0, <1>2, <1>10 DEF SoloAt, RawIsSettled, Closed
<1>13. FileIsRaw'
  BY <1>0 DEF SoloAt, FileIsRaw
<1>14. proc'[p].pc = "upload" /\ proc'[p].job = j /\ proc'[p].n = n
  BY <1>0, <1>1 DEF MarkUploading, To, Types, Process
<1>15. KnowsUploads(proc[p])'
  BY <1>14 DEF KnowsUploads
<1>16. \A k \in Jobs : k # j => Quiet(k)'
  BY <1>2, <1>10 DEF Quiet, Closed
<1>17. KnowsRest(proc[p])'
  BY <1>4, <1>9, <1>10, <1>14, <1>16 DEF KnowsRest, Holding
<1>18. QED BY <1>11, <1>12, <1>13, <1>15, <1>17 DEF SoloAt

LEMMA SoloSavePage ==
  ASSUME Inv, NEW p \in Procs, SoloAt(p), SavePage(p)
  PROVE  SoloAt(p)'
<1>0. Types /\ proc[p].pc = "upload" /\ UNCHANGED <<job, attempt, raw, setting>>
  BY DEF SavePage, At, tables, Inv
<1>1. PICK j \in Jobs, n \in {proc[p].n} : j = proc[p].job /\ n = proc[p].n
  BY <1>0, SoloHolds DEF Holding
<1>2. n = Len(attempt[j]) /\ raw[j].sha = None /\ \A k \in Jobs : k # j => Quiet(k)
  BY <1>0, <1>1, SoloHolds DEF Holding
<1>3. attempt[j][n].status = "uploading"
  BY <1>0, <1>1 DEF SoloAt, KnowsRest, Holding
<1>4. \/ proc'[p].pc = "stored" /\ file' = [file EXCEPT ![j] = proc[p].body]
      \/ proc'[p].pc = "failed" /\ file' = file
  BY <1>0, <1>1 DEF SavePage, To, Types, Process
<1>5. proc'[p].job = j /\ proc'[p].n = n /\ proc'[p].body = proc[p].body
  BY <1>0, <1>1 DEF SavePage, To, Types, Process
<1>6. NewestOpen' /\ RawIsSettled'
  BY <1>0 DEF SoloAt, NewestOpen, RawIsSettled, Closed
<1>7. FileIsRaw'
  BY <1>0, <1>2, <1>4 DEF SoloAt, FileIsRaw, Types
<1>8. KnowsUploads(proc[p])'
  BY <1>4 DEF KnowsUploads
<1>9. \A k \in Jobs : k # j => Quiet(k)'
  BY <1>0, <1>2 DEF Quiet, Closed
<1>10. proc'[p].pc = "stored" => file'[j] = proc'[p].body
  BY <1>0, <1>4, <1>5 DEF Types
<1>11. KnowsRest(proc[p])'
  BY <1>0, <1>2, <1>3, <1>4, <1>5, <1>9, <1>10 DEF KnowsRest, Holding
<1>12. QED BY <1>6, <1>7, <1>8, <1>11 DEF SoloAt

LEMMA SoloEnvironment ==
  ASSUME Inv, Solo, NEW j \in Jobs, RetryDue(j) \/ GrowOld(j) \/ LoseFile(j)
  PROVE  Solo'
<1>0. Types /\ UNCHANGED <<attempt, raw, proc, setting>>
      /\ (~setting.lossy => file' = file)
  BY DEF Inv, RetryDue, GrowOld, LoseFile, tables
<1>1. \A k \in Jobs : job'[k].status = job[k].status
  <2>1. CASE job' = job
    BY <2>1
  <2>2. CASE job' = [job EXCEPT ![j].due = TRUE]
    <3>1. PICK r : r = [job[j] EXCEPT !.due = TRUE]
      OBVIOUS
    <3>2. r.status = job[j].status
      BY <1>0, <3>1 DEF Types, JobRow
    <3>3. job' = [job EXCEPT ![j] = r]
      BY <2>2, <3>1
    <3>4. QED BY <1>0, <3>2, <3>3 DEF Types
  <2>3. QED BY <2>1, <2>2 DEF RetryDue, GrowOld, LoseFile, tables
<1> SUFFICES ASSUME Alone
             PROVE  NewestOpen' /\ RawIsSettled' /\ FileIsRaw' /\ Knows'
  BY <1>0 DEF Solo, Alone
<1>2. NewestOpen' /\ RawIsSettled' /\ FileIsRaw'
  BY <1>0, <1>1 DEF Solo, NewestOpen, RawIsSettled, FileIsRaw, Closed
<1>3. Knows'
  <2> SUFFICES ASSUME NEW q \in setting.crew
               PROVE  KnowsUploads(proc[q])' /\ KnowsRest(proc[q])'
    BY <1>0 DEF Knows
  <2>1. KnowsUploads(proc[q]) /\ KnowsRest(proc[q])
    BY DEF Solo, Knows
  <2>2. \A k \in Jobs : Quiet(k) => Quiet(k)'
    BY <1>0, <1>1 DEF Quiet, Closed
  <2>3. KnowsUploads(proc[q])'
    BY <1>0, <2>1 DEF KnowsUploads
  <2>4. KnowsRest(proc[q])'
    BY <1>0, <2>1, <2>2 DEF KnowsRest
  <2>5. QED BY <2>3, <2>4
<1>4. QED BY <1>2, <1>3

-----------------------------------------------------------------------------
(* What one process at a time may rely on.                                   *)

LEMMA SoloInit == Init => Solo
<1> SUFFICES ASSUME Init PROVE NewestOpen /\ RawIsSettled /\ FileIsRaw /\ Knows
  BY DEF Solo
<1>1. NewestOpen /\ RawIsSettled /\ FileIsRaw
  BY DEF Init, NewestOpen, RawIsSettled, FileIsRaw
<1>2. setting.crew \subseteq Procs
  BY SettingsAssumption DEF Init, SettingsAssumption
<1>3. \A p \in setting.crew : proc[p].pc = "off"
  BY <1>2 DEF Init, Off
<1>4. Knows
  BY <1>3 DEF Knows, KnowsUploads, KnowsRest, Holding
<1>5. QED BY <1>1, <1>4

LEMMA SoloStep == Inv /\ Solo /\ [Next]_vars => Solo'
<1> SUFFICES ASSUME Inv, Solo, [Next]_vars PROVE Solo'
  OBVIOUS
<1>1. CASE UNCHANGED vars
  BY <1>1 DEF vars, tables, Solo, Alone, NewestOpen, RawIsSettled, FileIsRaw, Knows,
              KnowsUploads, KnowsRest, Closed, Quiet
<1>2. ASSUME NEW p \in Procs, StartCrawl(p) \/ StartParse(p) \/ Crawl(p) \/ Parse(p) \/ Die(p)
      PROVE  Solo'
  <2>1. p \in setting.crew /\ setting' = setting
    <3>1. CASE StartCrawl(p) \/ StartParse(p) \/ Die(p)
      BY <3>1 DEF StartCrawl, StartParse, Die, At
    <3>2. CASE Parse(p)
      BY <3>2 DEF Parse, At, RecoverStaleParses, ClaimNextRaw, EndParse, ReadFile, CloseParse,
                  LoseParse
    <3>3. CASE FetchFails(p) \/ RejectPage(p) \/ StorageFails(p)
      BY <3>3 DEF At, FetchFails, RejectPage, StorageFails, FailAttempt
    <3>4. CASE Crawl(p)
      BY <3>3, <3>4
         DEF Crawl, At, StatUpload, RecoverUpload, RecoverStaleFetches, StatRaw,
             UpdateRawIntegrity, EndRecovery, UpsertDiscoveredJobs, ClaimNextJob, EndCrawl,
             FetchPage, MarkUploading, SavePage, CompleteUpload
    <3>5. QED BY <1>2, <3>1, <3>2, <3>4
  <2>2. ASSUME SoloAt(p)
        PROVE  SoloAt(p)'
    <3>1. CASE StartCrawl(p) \/ StartParse(p) \/ Die(p)
      BY <2>2, <3>1, SoloStartCrawl, SoloTurns
    <3>2. CASE Parse(p)
      BY <2>2, <3>2, SoloTurns, SoloCloseParse DEF Parse
    <3>3. CASE Crawl(p)
      BY <2>2, <3>3, SoloTurns, SoloStatUpload, SoloRecoverUpload, SoloRecoverStaleFetches,
         SoloUpdateRawIntegrity, SoloUpsert, SoloClaim, SoloFetchPage, SoloFails,
         SoloMarkUploading, SoloSavePage, SoloCompletes DEF Crawl
    <3>4. QED BY <1>2, <3>1, <3>2, <3>3
  <2>3. QED BY <2>1, <2>2, SoloFrame
<1>3. ASSUME NEW j \in Jobs, RetryDue(j) \/ GrowOld(j) \/ LoseFile(j)
      PROVE  Solo'
  BY <1>3, SoloEnvironment
<1>4. QED BY <1>1, <1>2, <1>3 DEF Next

LEMMA SoloAlways == Spec => [](Inv /\ Solo)
<1>1. QED BY InvInit, SoloInit, InvStep, SoloStep, PTL DEF Spec

\* Fetch and parse attempts are accounted for: one process at a time leaves only the
\* newest attempt of a job open and none at all once its recovery is through, wherever
\* the one before it died, and no crew parses a page twice at a time or too often.
THEOREM AttemptsAgreeHolds == Spec => []AttemptsAgree
<1>1. Inv /\ Solo => NewestAttemptIsOpen
  BY DEF Inv, Solo, Counted, NewestOpen, NewestAttemptIsOpen
<1>2. ASSUME Inv, Solo PROVE RecoveryIsComplete
  <2> SUFFICES ASSUME Alone, NEW p \in Procs, NEW j \in Jobs,
                      proc[p].pc \in {"discover", "select"}
               PROVE  Quiet(j)
    BY DEF RecoveryIsComplete, Quiet, Closed
  <2>1. p \in setting.crew
    BY <1>2 DEF Inv, CrewOnly
  <2>2. KnowsRest(proc[p])
    BY <1>2, <2>1 DEF Solo, Knows
  <2>3. QED BY <2>2 DEF KnowsRest
<1>3. QED BY <1>1, <1>2, SoloAlways, ParseBudgetHolds, PTL DEF AttemptsAgree

\* What the tables say of pages is borne out: for one process at a time, in a directory
\* that loses nothing, the file of a ready page holds the body its raw row names.
THEOREM PagesAgreeHolds == Spec => []PagesAgree
<1>1. ASSUME Inv, Solo PROVE ReadyPageIsIntact
  <2> SUFFICES ASSUME Alone, ~setting.lossy, NEW j \in Jobs, job[j].status = "raw_ready"
               PROVE  file[j] = raw[j].sha
    BY DEF ReadyPageIsIntact
  <2>1. raw[j].sha # None
    BY <1>1 DEF Inv, ReadyHasRow
  <2>2. QED BY <1>1, <2>1 DEF Solo, FileIsRaw
<1>2. QED BY <1>1, SoloAlways, TypeCorrect, ReadyHasRowHolds, PTL DEF PagesAgree
=============================================================================
