--------------------------- MODULE DiscoveryCrawl ---------------------------
(***************************************************************************)
(* The discovery phase of one crawl run (discovery.py and the discovery    *)
(* branch of pipeline.py): target after target, page after page, each page *)
(* fetched by one of the fetchers, its urls stored in one transaction, and *)
(* at the end of a target a verdict on whether its listing was covered.    *)
(* What the coverage is then used for is in ListingCdc.                    *)
(*                                                                         *)
(* The site may change its listing while it is read: a setting says so.    *)
(*                                                                         *)
(* Abstractions: delays, and the copy of each listing page in raw storage, *)
(* are left out, except that the copy may fail.  The state store may fail  *)
(* at the transaction of a page; that it fails when the row of a target is *)
(* opened or closed (which leaves the row open and ends the run), and that *)
(* the process dies, is left out.                                          *)
(***************************************************************************)
EXTENDS ListingPager, Sequences

CONSTANTS
    TargetCount, \* the targets of the configuration, in its order
    Listings,    \* the job urls a site lists for each, best first
    PageSize,    \* urls on a page
    EmptyStop, StaleStop,  \* stop_after_empty_pages, stop_after_stale_pages
    Settings     \* configurations and sites: a behaviour has one of them

ASSUME LimitsAssumption == {TargetCount, PageSize, EmptyStop, StaleStop} \subseteq Nat \ {0}

VARIABLES
    setting,   \* the setting of this behaviour
    listing,   \* what the site lists now
    stored,    \* crawl_state.jobs: the urls known to the state store
    row,       \* crawl_state.discovery_targets: the row of each target
    crawl,     \* the crawler and _TargetProgress
    outcome    \* the status of the run, when it is over

vars == <<fetcher, dom, pager, setting, listing, stored, row, crawl, outcome>>
crawlVars == <<setting, listing, stored, row, crawl, outcome>>
pageVars == <<dom, pager>>

Targets == 1 .. TargetCount
Setting == [transport : {"requests", "browser", "pager"},
            strategy : {"configured", "detect_last_page", "until_empty"},
            targets : Targets,    \* how many of them are enabled
            start : Nat \ {0}, total : Nat, limit : Nat,  \* start_page, total_pages, max_auto_pages
            continue : BOOLEAN,   \* continue_on_target_error
            announced : BOOLEAN,  \* the site's pages say which page is the last
            beyond : {"empty", "first"},  \* what it serves after the last page
            shifting : BOOLEAN]

ASSUME ListingsAssumption == Listings \in [Targets -> Seq(Urls)]

\* The client-side listing has one target and says when a page is past its end, as
\* the configuration that selects its fetcher and that fetcher expect.
ASSUME SettingsAssumption ==
    /\ Settings \subseteq Setting
    /\ \A s \in Settings : s.transport = "pager" => s.targets = 1 /\ s.beyond = "empty"

Reason == {"none", "configured_page_limit", "detected_last_page", "partial_start_page",
           "confirmed_empty", "unconfirmed_empty", "stale_pages", "max_page_limit",
           "repeated_page", "blocked", "failed"}
Row == [status : {"none", "running", "completed", "suspicious", "failed", "blocked"},
        complete : BOOLEAN, reason : Reason]
Crawl == [pc : {"open", "target", "page", "fetching", "finish", "error", "close", "over"},
          target : Nat, page : Nat, last : Nat, seen : SUBSET Urls,
          empties : Nat, stales : Nat, empty : BOOLEAN, invalid : BOOLEAN, repeated : BOOLEAN,
          content : BOOLEAN, limited : BOOLEAN, reason : Reason,
          suspicious : BOOLEAN, failed : BOOLEAN,
          exit : {"none", "blocked", "failed", "raised"}]

Start == [pc |-> "open", target |-> 0, page |-> 0, last |-> 0, seen |-> {},
          empties |-> 0, stales |-> 0, empty |-> FALSE, invalid |-> FALSE, repeated |-> FALSE,
          content |-> FALSE, limited |-> FALSE, reason |-> "none", suspicious |-> FALSE, failed |-> FALSE,
          exit |-> "none"]

Init ==
    /\ FetcherInit /\ PagerInit
    /\ setting \in Settings
    /\ listing = Listings
    /\ stored = {}
    /\ row = [t \in Targets |-> [status |-> "none", complete |-> FALSE, reason |-> "none"]]
    /\ crawl = Start
    /\ outcome = "running"

-----------------------------------------------------------------------------
(* The site.                                                               *)

PageCount(t) == (Len(listing[t]) + PageSize - 1) \div PageSize
Slice(t, n) == {listing[t][i] : i \in {k \in DOMAIN listing[t] :
                                         (k + PageSize - 1) \div PageSize = n}}
Served(t, n) == IF n > PageCount(t) /\ setting.beyond = "first" THEN Slice(t, 1) ELSE Slice(t, n)

\* The best job leaves the listing: all others move up.
Shift ==
    /\ setting.shifting /\ crawl.pc # "over"
    /\ \E t \in Targets :
         /\ listing[t] = Listings[t] /\ listing[t] # <<>>
         /\ listing' = [listing EXCEPT ![t] = Tail(@)]
    /\ UNCHANGED <<fetcher, pageVars, setting, stored, row, crawl, outcome>>

-----------------------------------------------------------------------------
(* The crawler.                                                            *)

Step(c) == crawl' = c
Pause == UNCHANGED <<setting, listing, outcome>>

\* The browser is launched; a failure to launch is no FetchError.
OpenFetcher ==
    /\ crawl.pc = "open"
    /\ \/ /\ Step([crawl EXCEPT !.pc = "target"])
          /\ IF setting.transport = "requests" THEN UNCHANGED <<browser, jar>> ELSE StartBrowser
       \/ /\ setting.transport # "requests"
          /\ Step([crawl EXCEPT !.pc = "close", !.exit = "raised"])
          /\ UNCHANGED <<browser, jar>>
    /\ UNCHANGED <<call, pageVars, stored, row>> /\ Pause

StartTarget ==
    /\ crawl.pc = "target" /\ crawl.target < setting.targets
    /\ Step([Start EXCEPT !.pc = "page", !.target = crawl.target + 1, !.page = setting.start,
                          !.suspicious = crawl.suspicious, !.failed = crawl.failed])
    /\ row' = [row EXCEPT ![crawl.target + 1].status = "running"]
    /\ UNCHANGED <<fetcher, pageVars, stored>> /\ Pause

SendRequest ==
    /\ crawl.pc = "page"
    /\ Step([crawl EXCEPT !.pc = "fetching"])
    /\ call' = [NoCall EXCEPT !.pc = "send", !.page = crawl.page, !.try = 1]
    /\ pager' = [pager EXCEPT !.reload = FALSE]
    /\ UNCHANGED <<browser, jar, dom, stored, row>> /\ Pause

Fetch ==
    /\ crawl.pc = "fetching"
    /\ LET body == Served(crawl.target, call.page)
       IN  \/ setting.transport = "requests" /\ RequestsFetch(body) /\ UNCHANGED pageVars
           \/ setting.transport = "browser" /\ BrowserFetch(body) /\ UNCHANGED pageVars
           \/ setting.transport = "pager" /\ PagerFetch
    /\ UNCHANGED crawlVars

Render ==
    /\ setting.transport = "pager" /\ crawl.pc = "fetching" /\ call.pc # "done"
    /\ LET body == Served(crawl.target, dom.goal)
       IN  RenderActive(body) \/ RenderLinks(body)
    /\ UNCHANGED crawlVars

\* What the page adds to the progress of the target before its urls are stored,
Noted ==
    LET body == call.body
    IN  [crawl EXCEPT !.seen = @ \cup body,
                      !.repeated = @ \/ (body # {} /\ body \ crawl.seen = {}),
                      !.invalid = @ \/ (body = {} /\ ~call.confirmed) \/ call.odd]

\* and afterwards.
Counted ==
    LET body == call.body
        new == body \ crawl.seen
    IN  [Noted EXCEPT !.empty = @ \/ body = {},
                      !.empties = IF body = {} THEN @ + 1 ELSE 0,
                      !.stales = IF body # {} /\ new = {} THEN @ + 1 ELSE 0]

Finish(c, reason) == [c EXCEPT !.pc = "finish", !.reason = reason]
Fail(c) == [c EXCEPT !.pc = "error", !.exit = "failed"]
Raise(c) == [c EXCEPT !.pc = "error", !.exit = "raised"]

AfterConfigured(c) ==
    IF c.page < setting.start + setting.total - 1 THEN [c EXCEPT !.pc = "page", !.page = @ + 1]
    ELSE Finish(c, "configured_page_limit")

\* The last page the first page announces, or 0.
Announced(t) == IF setting.announced /\ call.body # {} THEN PageCount(t) ELSE 0

AfterDetected_Short(c) ==
    LET last == IF c.last = 0 THEN Announced(c.target) ELSE c.last
        next == [c EXCEPT !.pc = "page", !.page = @ + 1, !.last = last]
    IN  IF last < setting.start \/ last - setting.start + 1 > setting.limit THEN Fail(c)
        ELSE IF c.page + 1 < last THEN next
        ELSE Finish(c, IF setting.start = 1 THEN "detected_last_page" ELSE "partial_start_page")

\* No last page, one before the first, or too many of them: PaginationDetectionError.
AfterDetected(c) ==
    LET last == IF c.last = 0 THEN Announced(c.target) ELSE c.last
        next == [c EXCEPT !.pc = "page", !.page = @ + 1, !.last = last]
    IN  IF last < setting.start \/ last - setting.start + 1 > setting.limit THEN Fail(c)
        ELSE IF c.page < last THEN next
        ELSE Finish(c, IF setting.start = 1 THEN "detected_last_page" ELSE "partial_start_page")

AfterUntilEmpty(c) ==
    LET partial(reason) == IF setting.start = 1 THEN reason ELSE "partial_start_page"
    IN  IF c.empties >= EmptyStop
          THEN Finish([c EXCEPT !.content = TRUE],
                      partial(IF call.confirmed THEN "confirmed_empty" ELSE "unconfirmed_empty"))
        ELSE IF c.stales >= StaleStop
          THEN Finish([c EXCEPT !.content = TRUE], partial("stale_pages"))
        ELSE IF c.page < setting.start + setting.limit - 1
          THEN [c EXCEPT !.pc = "page", !.page = @ + 1]
        ELSE Finish([c EXCEPT !.limited = TRUE], partial("max_page_limit"))

AfterPage(c) ==
    CASE setting.strategy = "configured" -> AfterConfigured(c)
      [] setting.strategy = "detect_last_page" -> AfterDetected(c)
      [] setting.strategy = "until_empty" -> AfterUntilEmpty(c)

StorePage_AtTheEnd(c) ==
    stored' = IF c.pc = "finish" THEN stored \cup c.seen ELSE stored

\* The urls of every page are upserted in a transaction of their own.
StorePage(c) == stored' = stored \cup call.body

ReadPage ==
    /\ crawl.pc = "fetching" /\ call.pc = "done" /\ call.kind = "ok"
    /\ call' = NoCall
    /\ \/ LET c == AfterPage(Counted)
          IN  Step(c) /\ StorePage(c)
       \/ /\ Step(Raise(crawl))   \* the copy cannot be saved, or the page not be read
          /\ UNCHANGED stored
       \/ /\ Step(Raise(Noted))   \* the transaction fails, or its commit is not answered
          /\ stored' \in {stored, stored \cup call.body}
    /\ UNCHANGED <<browser, jar, pageVars, row>> /\ Pause

FetchFails ==
    /\ crawl.pc = "fetching" /\ call.pc = "done" /\ call.kind # "ok"
    /\ call' = NoCall
    /\ Step([crawl EXCEPT !.pc = "error",
                          !.exit = IF call.kind \in {"blocked", "raised"} THEN call.kind
                                   ELSE "failed"])
    /\ UNCHANGED <<browser, jar, pageVars, stored, row>> /\ Pause

IsComplete_AnyReason(c, status) == status = "completed" /\ ~c.repeated /\ ~c.invalid

IsComplete(c, status) ==
    /\ status = "completed"
    /\ c.reason \in {"detected_last_page", "confirmed_empty"}
    /\ ~c.repeated /\ ~c.invalid

\* Empty pages that no rule explains, no urls at all, or the page limit.
TargetStatus(c) ==
    IF (c.empty /\ ~c.content) \/ c.seen = {} \/ c.limited
      THEN "suspicious" ELSE "completed"

FinishTarget ==
    /\ crawl.pc = "finish"
    /\ LET status == TargetStatus(crawl)
       IN  /\ row' = [row EXCEPT ![crawl.target] =
                        [status |-> status, complete |-> IsComplete(crawl, status),
                         reason |-> IF crawl.repeated THEN "repeated_page" ELSE crawl.reason]]
           /\ Step([crawl EXCEPT !.pc = "target",
                                 !.suspicious = @ \/ status = "suspicious"])
    /\ UNCHANGED <<fetcher, pageVars, stored>> /\ Pause

\* A block, like any error that is no FetchError, ends discovery; the others end
\* it only if the configuration says so.
Continues_EvenBlocked == setting.continue /\ crawl.exit # "raised"

Continues == setting.continue /\ crawl.exit = "failed"

RowFails_Later(status) == UNCHANGED row

RowFails(status) ==
    row' = [row EXCEPT ![crawl.target] =
              [status |-> status, complete |-> FALSE, reason |-> status]]

FailTarget ==
    /\ crawl.pc = "error"
    /\ RowFails(IF crawl.exit = "blocked" THEN "blocked" ELSE "failed")
    /\ Step(IF Continues
              THEN [crawl EXCEPT !.pc = "target", !.failed = TRUE, !.exit = "none"]
              ELSE [crawl EXCEPT !.pc = "close", !.failed = @ \/ crawl.exit = "failed"])
    /\ UNCHANGED <<fetcher, pageVars, stored>> /\ Pause

EndTargets ==
    /\ crawl.pc = "target" /\ crawl.target = setting.targets
    /\ Step([crawl EXCEPT !.pc = "close"])
    /\ UNCHANGED <<fetcher, pageVars, stored, row>> /\ Pause

RunStatus_LastTarget ==
    IF crawl.exit # "none" THEN crawl.exit
    ELSE IF row[crawl.target].status = "suspicious" THEN "suspicious" ELSE "completed"

RunStatus ==
    IF crawl.exit # "none" THEN crawl.exit
    ELSE IF crawl.suspicious \/ crawl.failed THEN "suspicious" ELSE "completed"

\* Leaving the with statement closes the fetcher; the run then gets its status.
EndDiscovery ==
    /\ crawl.pc = "close"
    /\ Step([crawl EXCEPT !.pc = "over"])
    /\ outcome' = RunStatus
    /\ CloseBrowser
    /\ UNCHANGED <<call, pageVars, setting, listing, stored, row>>

-----------------------------------------------------------------------------

Discover ==
    \/ OpenFetcher \/ StartTarget \/ SendRequest \/ Fetch \/ ReadPage \/ FetchFails
    \/ FinishTarget \/ FailTarget \/ EndTargets \/ EndDiscovery

Next == Discover \/ Render \/ Shift

\* The process runs on; what the site renders is up to the site.
Spec == Init /\ [][Next]_vars /\ WF_vars(Discover)

-----------------------------------------------------------------------------
(* Properties.                                                             *)

TypeOK ==
    /\ call \in Call /\ browser \in Browser /\ jar \in BOOLEAN
    /\ dom \in Dom /\ pager \in Pager
    /\ setting \in Settings
    /\ listing \in [Targets -> Seq(Urls)]
    /\ stored \subseteq Urls
    /\ row \in [Targets -> Row]
    /\ crawl \in Crawl
    /\ outcome \in {"running", "completed", "suspicious", "failed", "blocked", "raised"}

Listed(t) == {Listings[t][i] : i \in DOMAIN Listings[t]}

\* A target whose coverage is recorded as complete was read to its end: every url
\* the site listed for it is in the state store.  Only for a listing that does not
\* change while it is read: when a job leaves, another moves to a page already read.
CompleteSeesAll ==
    ~setting.shifting =>
        \A t \in Targets : row[t].complete => Listed(t) \subseteq stored

\* What was read of a target is in the state store at every moment of the run, with
\* one exception: the urls of a page whose own transaction fails.  They are counted as
\* seen already and are lost to this run, which then raises: the row of their target
\* says failed and not complete, and the run is not called completed.  The pages before
\* are stored, since that holds until this step.
SeenIsStored ==
    \/ crawl.seen \subseteq stored
    \/ /\ crawl.exit = "raised" /\ outcome \in {"running", "raised"}
       /\ \/ crawl.pc = "error"
          \/ /\ crawl.pc \in {"close", "over"}
             /\ row[crawl.target].status = "failed" /\ ~row[crawl.target].complete

\* The urls taken from a page of the client-side listing are those the site lists
\* on that page: none is of the page shown before, though its links may still be
\* there when the page number has changed already; and the listing is said to end
\* only at a page that is empty.
PagerReadsItsPage ==
    setting.transport = "pager" /\ ~setting.shifting /\ call.pc = "done" /\ call.kind = "ok" =>
        call.body = Slice(crawl.target, call.page)

\* The site said no to this session: it is not kept for the next run.
KeptSessionIsWelcome == ~jar

\* A run is completed only if every target is, and is complete or limited by its
\* configuration; the failure of an earlier target is not forgotten.
CompletedMeansEveryTarget ==
    outcome = "completed" => \A t \in 1 .. setting.targets : row[t].status = "completed"

\* Once a target is blocked the source is left alone: no further one is started.
BlockEndsDiscovery ==
    \A t, u \in Targets : row[t].status = "blocked" /\ u > t => row[u].status = "none"

\* What is reported of targets and of the run is what happened to them.
CoverageIsHonest ==
    TypeOK /\ CompleteSeesAll /\ CompletedMeansEveryTarget /\ BlockEndsDiscovery

\* Every target row that was opened is closed, whatever exception ended the run,
\* and the run ends: retries, pages and targets are bounded.
DiscoveryEnds ==
    <>(outcome # "running" /\ \A t \in Targets : row[t].status # "running")

=============================================================================
