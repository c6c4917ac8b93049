------------------------ MODULE DiscoveryCrawl_proofs ------------------------
(***************************************************************************)
(* Proofs about DiscoveryCrawl: the safety invariants of the discovery     *)
(* phase, for any number of targets, listings of any length and pages of   *)
(* any size, over all three fetchers.                                      *)
(*                                                                         *)
(* Inv is a conjunction of parts that are shown to be kept one after the   *)
(* other: what the loop over the targets knows, what their rows say, what  *)
(* the fetch in progress is for, what the client-side listing shows, and   *)
(* which pages of a target were read.                                      *)
(***************************************************************************)
EXTENDS DiscoveryCrawl, TLAPS

-----------------------------------------------------------------------------
(* The inductive invariant.                                                *)

\* The loop over the targets: which one it is at, and how it was left.
Loop ==
    /\ crawl.target <= setting.targets
    /\ crawl.pc = "open" => crawl.target = 0
    /\ crawl.pc \in {"page", "fetching", "finish", "error"} => crawl.target > 0
    /\ crawl.pc \in {"open", "target", "page", "fetching", "finish"} => crawl.exit = "none"
    /\ crawl.pc = "error" => crawl.exit # "none"
    /\ crawl.pc \in {"close", "over"} /\ crawl.exit = "none" => crawl.target = setting.targets
    /\ outcome = IF crawl.pc = "over" THEN RunStatus ELSE "running"

AllWell == ~crawl.suspicious /\ ~crawl.failed

\* The current target came to its end by a rule, not by an error.
Ended == crawl.pc = "target" \/ (crawl.pc \in {"close", "over"} /\ crawl.exit = "none")

\* Rows up to the target the loop is at are settled; those after it are untouched.
Rows ==
    \A u \in Targets :
        /\ u > crawl.target => row[u].status = "none" /\ ~row[u].complete
        /\ u < crawl.target => row[u].status # "blocked"
        /\ row[u].status = "blocked" => crawl.pc \in {"close", "over"}
        /\ AllWell /\ u < crawl.target => row[u].status = "completed"
        /\ AllWell /\ u = crawl.target /\ Ended => row[u].status = "completed"

\* A challenge the session met is noted as a block until the browser is closed.
Session == ~jar /\ (browser.challenged => browser.blocked)

\* The fetch in progress is for the page the crawler is at; only the client-side
\* listing confirms its end.
Asked ==
    /\ crawl.pc = "fetching" => call.page = crawl.page
    /\ crawl.pc # "fetching" => call.pc = "idle"
    /\ setting.transport # "pager" => ~call.confirmed

Steady == ~setting.shifting

\* The pages of the listings, and how many there are.
Sheets == [t \in Targets |-> [n \in Nat |-> Slice(t, n)]]
Counts == [t \in Targets |-> PageCount(t)]

Answered == crawl.pc = "fetching" /\ call.pc = "done" /\ call.kind = "ok"

\* What the client-side listing shows is nothing, the page read last, or the one its
\* scripts are heading for.
Shown ==
    /\ pager.links = Sheets[1][pager.last]
    /\ dom.links \in {{}, pager.links, Sheets[1][dom.goal]}
    /\ dom.active \in {0, dom.goal, pager.last}
    /\ dom.empty => dom.active = 0 /\ Sheets[1][dom.goal] = {}

\* Where its scripts are heading for when the crawler is about to ask for a page,
\* while that page is asked for, and when it was read.
Resting == dom.goal \in {0, pager.last} \/ Sheets[1][dom.goal] = {}

Headed ==
    /\ crawl.pc = "open" \/ (crawl.pc = "target" /\ crawl.target = 0)
         => pager.last = 0 /\ dom = Blank
    /\ crawl.pc = "page" => Resting /\ crawl.page > pager.last
    /\ crawl.pc = "fetching" /\ call.pc # "done"
         => crawl.page > pager.last /\ (Resting \/ dom.goal = crawl.page)
    /\ crawl.pc = "fetching" /\ call.pc \in {"wait", "collect"} => dom.goal = crawl.page
    /\ crawl.pc = "fetching" /\ call.pc = "collect" => dom.active \in {0, crawl.page}
    /\ Answered
         => Resting /\ crawl.page >= pager.last /\ call.body = Sheets[1][crawl.page]

OnScreen == setting.transport = "pager" /\ Steady => Shown /\ Headed

\* Every page from the first one to the one before the current was read, and a
\* fetch that succeeded read all that the site lists on its page.
Reading ==
    crawl.pc \in {"page", "fetching"} =>
        /\ crawl.page >= setting.start
        /\ crawl.last \in {0, Counts[crawl.target]}
        /\ \A n \in setting.start .. crawl.page - 1 : Sheets[crawl.target][n] \subseteq crawl.seen

ReadSoFar ==
    /\ listing = Listings
    /\ Reading
    /\ Answered => Sheets[crawl.target][crawl.page] \subseteq call.body
    /\ crawl.pc = "finish" /\ crawl.reason \in {"detected_last_page", "confirmed_empty"}
         => Listed(crawl.target) \subseteq crawl.seen
    /\ \A t \in Targets : row[t].complete => Listed(t) \subseteq stored

Coverage == Steady => ReadSoFar

Basics == TypeOK /\ Loop /\ Rows /\ Session /\ SeenIsStored /\ Asked

Inv == Basics /\ OnScreen /\ Coverage

-----------------------------------------------------------------------------
(* The pages of a listing.                                                 *)

LEMMA LimitsAre ==
    /\ TargetCount \in Nat \ {0} /\ PageSize \in Nat \ {0}
    /\ EmptyStop \in Nat \ {0} /\ StaleStop \in Nat \ {0}
<1>1. QED BY LimitsAssumption

\* Division rounds down.
LEMMA Rounded ==
    ASSUME NEW a \in Nat, NEW b \in Nat \ {0}
    PROVE  (a \div b) \in Nat /\ b * (a \div b) <= a /\ a < b * (a \div b) + b
<1>1. QED OBVIOUS

LEMMA RoundedIs ==
    ASSUME NEW a \in Nat, NEW b \in Nat \ {0}, NEW q \in Nat, b * q <= a, a < b * q + b
    PROVE  a \div b = q
<1>1. QED OBVIOUS

LEMMA RoundedGrows ==
    ASSUME NEW a \in Nat, NEW c \in Nat, NEW b \in Nat \ {0}, a <= c
    PROVE  a \div b <= c \div b
<1>1. QED BY Rounded

LEMMA PageCountIsNat ==
    ASSUME NEW t \in Targets, listing[t] \in Seq(Urls)
    PROVE  PageCount(t) \in Nat
<1>1. (Len(listing[t]) + PageSize - 1) \in Nat /\ PageSize \in Nat \ {0}
  BY LimitsAre
<1>2. QED BY <1>1, Rounded DEF PageCount

\* Page zero and pages past the last are empty.
LEMMA OffTheList ==
    ASSUME NEW t \in Targets, listing[t] \in Seq(Urls), NEW n \in Nat,
           n = 0 \/ n > PageCount(t)
    PROVE  Slice(t, n) = {}
<1>1. SUFFICES ASSUME NEW k \in 1 .. Len(listing[t]), (k + PageSize - 1) \div PageSize = n
               PROVE  FALSE
  BY DEF Slice
<1>2. Len(listing[t]) \in Nat /\ PageSize \in Nat \ {0}
  BY LimitsAre
<1>3. (k + PageSize - 1) \in Nat /\ (Len(listing[t]) + PageSize - 1) \in Nat
  BY <1>2
<1>4. PICK a \in Nat : a = k + PageSize - 1
  BY <1>3
<1>5. PICK b \in Nat : b = Len(listing[t]) + PageSize - 1
  BY <1>3
<1>6. PageCount(t) = b \div PageSize /\ n = a \div PageSize /\ a <= b
  BY <1>1, <1>2, <1>4, <1>5 DEF PageCount
<1>7. n <= PageCount(t)
  BY <1>2, <1>6, RoundedGrows
<1>8. a < PageSize * n + PageSize
  BY <1>2, <1>6, Rounded
<1>9. n # 0
  BY <1>1, <1>2, <1>4, <1>8
<1>10. QED BY <1>7, <1>9, PageCountIsNat

\* Every url of a listing is on one of its pages.
LEMMA OnTheList ==
    ASSUME NEW t \in Targets, listing[t] \in Seq(Urls), NEW i \in DOMAIN listing[t]
    PROVE  \E n \in 1 .. PageCount(t) : listing[t][i] \in Slice(t, n)
<1>1. Len(listing[t]) \in Nat /\ PageSize \in Nat \ {0} /\ i \in 1 .. Len(listing[t])
  BY LimitsAre
<1>2. (i + PageSize - 1) \in Nat /\ (Len(listing[t]) + PageSize - 1) \in Nat
  BY <1>1
<1>3. PICK a \in Nat : a = i + PageSize - 1
  BY <1>2
<1>4. PICK b \in Nat : b = Len(listing[t]) + PageSize - 1
  BY <1>2
<1>5. PICK n \in Nat : n = a \div PageSize
  BY <1>1, Rounded
<1>6. n <= PageCount(t)
  <2>1. PageCount(t) = b \div PageSize /\ a <= b
    BY <1>1, <1>3, <1>4 DEF PageCount
  <2>2. QED BY <1>1, <1>5, <2>1, RoundedGrows
<1>7. a < PageSize * n + PageSize
  BY <1>1, <1>5, Rounded
<1>8. n >= 1
  BY <1>1, <1>3, <1>5, <1>7
<1>9. listing[t][i] \in Slice(t, n)
  BY <1>3, <1>5 DEF Slice
<1>10. QED BY <1>5, <1>6, <1>8, <1>9, PageCountIsNat

\* A page that is empty is past the last one.
LEMMA EmptyIsPastTheEnd ==
    ASSUME NEW t \in Targets, listing[t] \in Seq(Urls), NEW n \in Nat \ {0}, Slice(t, n) = {}
    PROVE  n > PageCount(t)
<1>1. SUFFICES ASSUME n <= PageCount(t)
               PROVE  FALSE
  BY PageCountIsNat
<1>2. Len(listing[t]) \in Nat /\ PageSize \in Nat \ {0}
  BY LimitsAre
<1>3. PICK len \in Nat : len = Len(listing[t])
  BY <1>2
<1>4. PICK p \in Nat : p = PageCount(t)
  BY PageCountIsNat
<1>5. PageSize * p <= len + PageSize - 1
  <2>1. (len + PageSize - 1) \in Nat
    BY <1>2
  <2>2. PICK b \in Nat : b = len + PageSize - 1
    BY <2>1
  <2>3. p = b \div PageSize
    BY <1>3, <1>4, <2>2 DEF PageCount
  <2>4. QED BY <1>2, <2>2, <2>3, Rounded
<1>6. PageSize * n <= PageSize * p
  BY <1>1, <1>2, <1>4
<1>7. PageSize * (n - 1) = PageSize * n - PageSize /\ PageSize * (n - 1) \in Nat
  BY <1>2
<1>8. PICK k \in Nat : k = PageSize * (n - 1) + 1
  BY <1>7
<1>9. k \in 1 .. len
  BY <1>2, <1>5, <1>6, <1>7, <1>8
<1>10. PICK a \in Nat : a = k + PageSize - 1
  BY <1>2, <1>8
<1>11. (k + PageSize - 1) \div PageSize = n
  <2>1. a = PageSize * n
    BY <1>2, <1>7, <1>8, <1>10
  <2>2. a \div PageSize = n
    BY <1>2, <2>1, RoundedIs
  <2>3. QED BY <1>10, <2>2
<1>12. listing[t][k] \in Slice(t, n)
  BY <1>3, <1>9, <1>11 DEF Slice
<1>13. QED BY <1>12

-----------------------------------------------------------------------------
(* One fetch.                                                              *)

\* A request is repeated only while tries are left.
LEMMA VerdictsAre ==
    ASSUME NEW answer \in Answers, NEW v \in Verdicts(answer)
    PROVE  /\ v \in {"ok", "blocked", "http_error", "retry"}
           /\ v = "retry" => ShouldRetry
<1>1. CASE answer \in {"ok", "odd"}
  BY <1>1 DEF Verdicts
<1>2. CASE answer = "denied"
  BY <1>2 DEF Verdicts
<1>3. CASE answer \in {"gone", "client_error"}
  BY <1>3 DEF Verdicts
<1>4. CASE answer \in {"rate_limited", "unavailable"}
  BY <1>4 DEF Verdicts
<1>5. QED BY <1>1, <1>2, <1>3, <1>4 DEF Answers

\* A fetch stays a fetch of its page, and the tries are counted.
GoesOn == call' \in Call /\ call'.page = call.page /\ call'.confirmed = call.confirmed

LEMMA RetryGoesOn ==
    ASSUME call \in Call, ShouldRetry, Retry
    PROVE  GoesOn /\ call'.pc = "send"
<1>1. call.try + 1 \in 0 .. MaxTries
  BY MaxTriesAssumption DEF ShouldRetry, Call
<1>2. PICK n \in 0 .. MaxTries : n = call.try + 1
  BY <1>1
<1>3. call' = [call EXCEPT !.pc = "send", !.try = n, !.odd = FALSE]
  BY <1>2 DEF Retry
<1>4. QED BY <1>3 DEF GoesOn, Call

LEMMA EndGoesOn ==
    ASSUME call \in Call, NEW kind \in {"http_error", "fetch_error", "blocked", "raised"}, End(kind)
    PROVE  GoesOn /\ call'.pc = "done" /\ call'.kind = kind
<1>1. QED BY DEF GoesOn, End, Call

LEMMA RetryOrEndGoesOn ==
    ASSUME call \in Call, NEW kind \in {"http_error", "fetch_error", "blocked", "raised"},
           RetryOrEnd(kind)
    PROVE  GoesOn /\ call'.pc \in {"send", "done"} /\ (call'.pc = "done" => call'.kind # "ok")
<1>1. CASE ShouldRetry
  BY <1>1, RetryGoesOn DEF RetryOrEnd
<1>2. CASE ~ShouldRetry
  BY <1>2, EndGoesOn DEF RetryOrEnd
<1>3. QED BY <1>1, <1>2

\* A fetch of the plain transport or of a browser that succeeds returns the page.
Fetched(body) ==
    /\ call' \in Call /\ call'.page = call.page
    /\ call'.confirmed => call.confirmed
    /\ call'.pc = "done" /\ call'.kind = "ok" => call'.body = body

LEMMA RequestsFetchReads ==
    ASSUME call \in Call, NEW body \in SUBSET Urls, RequestsFetch(body)
    PROVE  Fetched(body) /\ UNCHANGED <<browser, jar>>
<1>1. UNCHANGED <<browser, jar>>
  BY DEF RequestsFetch
<1>2. CASE RetryOrEnd("fetch_error") \/ End("fetch_error")
  <2>1. GoesOn /\ (call'.pc = "done" => call'.kind # "ok")
    BY <1>2, RetryOrEndGoesOn, EndGoesOn
  <2>2. QED BY <1>1, <2>1 DEF GoesOn, Fetched
<1>3. ASSUME NEW answer \in Answers, NEW v \in Verdicts(answer), v = "retry", Retry
      PROVE  Fetched(body)
  BY <1>3, VerdictsAre, RetryGoesOn DEF GoesOn, Fetched
<1>4. ASSUME NEW answer \in Answers,
             call' = [call EXCEPT !.pc = "done", !.kind = "ok", !.body = body,
                                  !.odd = answer = "odd"]
      PROVE  Fetched(body)
  BY <1>4 DEF Fetched, Call
<1>5. ASSUME NEW answer \in Answers, NEW v \in Verdicts(answer), v \notin {"retry", "ok"}, End(v)
      PROVE  Fetched(body)
  BY <1>5, VerdictsAre, EndGoesOn DEF GoesOn, Fetched
<1>6. QED BY <1>1, <1>2, <1>3, <1>4, <1>5 DEF RequestsFetch

LEMMA BlockedIsNoted ==
    ASSUME call \in Call, browser \in Browser, Session, UNCHANGED jar, Blocked
    PROVE  /\ GoesOn /\ call'.pc = "done" /\ call'.kind # "ok"
           /\ browser' \in Browser /\ Session'
<1>1. GoesOn /\ call'.pc = "done" /\ call'.kind = "blocked"
  BY EndGoesOn DEF Blocked
<1>2. browser' \in Browser /\ browser'.blocked
  BY DEF Blocked, Browser
<1>3. QED BY <1>1, <1>2 DEF Session

LEMMA TroubleGoesOn ==
    ASSUME call \in Call, browser \in Browser, Session, UNCHANGED jar, Trouble
    PROVE  /\ GoesOn /\ call'.pc # "done"
           /\ browser' \in Browser /\ Session'
<1>1. GoesOn /\ call'.pc # "done"
  BY DEF Trouble, GoesOn, Call
<1>2. browser' = browser \/ browser' = [browser EXCEPT !.state = "broken"]
  BY DEF Trouble
<1>3. browser' \in Browser /\ browser'.challenged = browser.challenged
                           /\ browser'.blocked = browser.blocked
  BY <1>2 DEF Browser
<1>4. QED BY <1>1, <1>3 DEF Session

LEMMA BrowserFetchReads ==
    ASSUME call \in Call, browser \in Browser, jar \in BOOLEAN, Session,
           NEW body \in SUBSET Urls, BrowserFetch(body)
    PROVE  Fetched(body) /\ UNCHANGED jar /\ browser' \in Browser /\ Session'
<1> DEFINE Kept == Fetched(body) /\ browser' \in Browser /\ Session'
<1>1. UNCHANGED jar
  BY DEF BrowserFetch, Navigate, NoPage, Capture, BrowserTimeout, BrowserError
<1>2. ASSUME UNCHANGED browser
      PROVE  browser' \in Browser /\ Session'
  BY <1>1, <1>2 DEF Session
<1>3. ASSUME Blocked \/ Trouble
      PROVE  Kept
  BY <1>1, <1>3, BlockedIsNoted, TroubleGoesOn DEF GoesOn, Fetched
<1>4. ASSUME NEW kind \in {"http_error", "fetch_error", "blocked", "raised"},
             RetryOrEnd(kind) \/ End(kind), UNCHANGED browser
      PROVE  Kept
  BY <1>2, <1>4, RetryOrEndGoesOn, EndGoesOn DEF GoesOn, Fetched
<1>5. CASE Navigate
  <2>1. ASSUME NEW answer \in Answers, NEW v \in Verdicts(answer), v = "blocked", Blocked
        PROVE  Kept
    BY <1>3, <2>1
  <2>2. ASSUME NEW answer \in Answers, NEW v \in Verdicts(answer), v = "retry",
               Retry, UNCHANGED browser
        PROVE  Kept
    BY <1>2, <2>2, VerdictsAre, RetryGoesOn DEF GoesOn, Fetched
  <2>3. ASSUME NEW answer \in Answers, UNCHANGED browser,
               call' = [call EXCEPT !.pc = "capture", !.odd = answer = "odd"]
        PROVE  Kept
    BY <1>2, <2>3 DEF Fetched, Call
  <2>4. ASSUME NEW answer \in Answers, NEW v \in Verdicts(answer), v \notin {"blocked", "retry", "ok"},
               End(v), UNCHANGED browser
        PROVE  Kept
    BY <1>4, <2>4, VerdictsAre
  <2>5. QED BY <1>3, <1>5, <2>1, <2>2, <2>3, <2>4 DEF Navigate
<1>6. CASE NoPage
  <2>1. CASE browser.state = "gone"
    BY <1>4, <1>6, <2>1 DEF NoPage
  <2>2. CASE browser.state # "gone"
    <3>1. call' = [call EXCEPT !.pc = "error"] /\ UNCHANGED browser
      BY <1>6, <2>2 DEF NoPage
    <3>2. Fetched(body)
      BY <3>1 DEF Fetched, Call
    <3>3. QED BY <1>1, <1>2, <3>1, <3>2
  <2>3. QED BY <2>1, <2>2
<1>7. CASE Capture(body)
  <2>1. ASSUME Return(body, FALSE), UNCHANGED browser
        PROVE  Kept
    BY <1>2, <2>1 DEF Return, Fetched, Call
  <2>2. QED BY <1>3, <1>4, <1>7, <2>1 DEF Capture
<1>8. CASE BrowserTimeout
  BY <1>4, <1>8 DEF BrowserTimeout
<1>9. CASE BrowserError
  <2>1. CASE ShouldRetry /\ browser.state = "broken"
    <3>1. ASSUME Retry, browser' = [NewBrowser EXCEPT !.blocked = browser.blocked]
          PROVE  Kept
      <4>1. Fetched(body)
        BY <2>1, <3>1, RetryGoesOn DEF GoesOn, Fetched
      <4>2. browser' \in Browser /\ browser'.challenged = jar
        BY <3>1 DEF NewBrowser, Browser
      <4>3. QED BY <1>1, <4>1, <4>2 DEF Session
    <3>2. ASSUME End("fetch_error"), browser' = [browser EXCEPT !.state = "gone"]
          PROVE  Kept
      <4>1. Fetched(body)
        BY <3>2, EndGoesOn DEF GoesOn, Fetched
      <4>2. /\ browser' \in Browser /\ browser'.challenged = browser.challenged
            /\ browser'.blocked = browser.blocked
        BY <3>2 DEF Browser
      <4>3. QED BY <1>1, <4>1, <4>2 DEF Session
    <3>3. QED BY <1>9, <2>1, <3>1, <3>2 DEF BrowserError
  <2>2. CASE ~(ShouldRetry /\ browser.state = "broken")
    BY <1>4, <1>9, <2>2 DEF BrowserError
  <2>3. QED BY <2>1, <2>2
<1>10. QED BY <1>1, <1>5, <1>6, <1>7, <1>8, <1>9 DEF BrowserFetch

\* The fetcher of the client-side listing, whatever the site has shown so far.
LEMMA PagerFetchKeeps ==
    ASSUME call \in Call, browser \in Browser, jar \in BOOLEAN, dom \in Dom, pager \in Pager,
           Session, PagerFetch
    PROVE  /\ call' \in Call /\ call'.page = call.page
           /\ browser' \in Browser /\ UNCHANGED jar /\ Session'
           /\ dom' \in Dom /\ pager' \in Pager
<1> DEFINE Asks == call' \in Call /\ call'.page = call.page
<1> DEFINE Kept == Asks /\ browser' \in Browser /\ Session'
<1>1. UNCHANGED jar
  BY DEF PagerFetch, OpenUrl, ReadControls, ClickControl, ProbeUrl, WaitResult,
         CollectLinks, PagerTimeout
<1>2. ASSUME UNCHANGED browser
      PROVE  browser' \in Browser /\ Session'
  BY <1>1, <1>2 DEF Session
<1>3. ASSUME Blocked
      PROVE  Kept
  BY <1>1, <1>3, BlockedIsNoted DEF GoesOn
<1>4. ASSUME NEW kind \in {"http_error", "fetch_error", "blocked", "raised"},
             RetryOrEnd(kind) \/ End(kind)
      PROVE  Asks
  BY <1>4, RetryOrEndGoesOn, EndGoesOn DEF GoesOn
<1>5. ASSUME NEW pc \in {"wait", "collect", "timeout"}, call' = [call EXCEPT !.pc = pc]
      PROVE  Asks
  BY <1>5 DEF Call
<1>6. ASSUME NEW body \in SUBSET Urls, NEW confirmed \in BOOLEAN, Return(body, confirmed)
      PROVE  Asks
  BY <1>6 DEF Return, Call
<1>7. Blank \in Dom /\ dom.links \in SUBSET Urls /\ call.page \in Nat
  BY DEF Blank, Dom, Call
<1>8. ASSUME NEW reload \in BOOLEAN, Goto(reload)
      PROVE  Kept /\ dom' \in Dom /\ pager' \in Pager
  <2>1. pager' \in Pager
    BY <1>8 DEF Goto, Pager
  <2>2. dom' = Blank \/ dom' = [Blank EXCEPT !.goal = call.page]
    BY <1>8 DEF Goto
  <2>3. dom' \in Dom
    BY <1>7, <2>2 DEF Dom
  <2>4. CASE Blocked
    BY <1>3, <2>1, <2>3, <2>4
  <2>5. CASE ~Blocked
    <3>1. UNCHANGED browser
      BY <1>8, <2>5 DEF Goto
    <3>2. Asks
      BY <1>4, <1>5, <1>8, <2>5 DEF Goto
    <3>3. QED BY <1>2, <2>1, <2>3, <3>1, <3>2
  <2>6. QED BY <2>4, <2>5
<1>9. CASE OpenUrl \/ ProbeUrl
  <2>1. pager.reload \in BOOLEAN
    BY DEF Pager
  <2>2. QED BY <1>1, <1>8, <1>9, <2>1 DEF OpenUrl, ProbeUrl
<1>10. CASE ReadControls
  BY <1>1, <1>2, <1>4, <1>5, <1>10 DEF ReadControls
<1>11. CASE ClickControl
  <2>1. dom' \in Dom
    BY <1>7, <1>11 DEF ClickControl, Dom
  <2>2. QED BY <1>1, <1>2, <1>4, <1>5, <1>11, <2>1 DEF ClickControl
<1>12. CASE WaitResult
  <2>1. CASE Blocked
    BY <1>1, <1>3, <1>12, <2>1 DEF WaitResult
  <2>2. CASE ~Blocked
    BY <1>1, <1>2, <1>4, <1>5, <1>6, <1>12, <2>2 DEF WaitResult
  <2>3. QED BY <2>1, <2>2
<1>13. CASE CollectLinks
  <2>1. dom' \in Dom
    BY <1>13 DEF CollectLinks
  <2>2. pager' \in Pager
    BY <1>7, <1>13 DEF CollectLinks, Pager
  <2>3. CASE Blocked
    BY <1>1, <1>3, <2>1, <2>2, <2>3
  <2>4. CASE ~Blocked
    BY <1>1, <1>2, <1>4, <1>5, <1>6, <1>7, <1>13, <2>1, <2>2, <2>4 DEF CollectLinks
  <2>5. QED BY <2>3, <2>4
<1>14. CASE PagerTimeout
  BY <1>1, <1>2, <1>4, <1>14 DEF PagerTimeout
<1>15. QED BY <1>9, <1>10, <1>11, <1>12, <1>13, <1>14 DEF PagerFetch

-----------------------------------------------------------------------------
(* The progress of a target.                                               *)

LEMMA SettingIsTyped ==
    ASSUME TypeOK
    PROVE  /\ setting \in Setting
           /\ setting.transport = "pager" => setting.targets = 1 /\ setting.beyond = "empty"
<1>1. QED BY SettingsAssumption DEF TypeOK

\* What a page adds leaves the crawler at its target and its page.
LEMMA NotedKeeps ==
    ASSUME TypeOK
    PROVE  /\ Noted \in Crawl /\ Noted.pc = crawl.pc
           /\ Noted.target = crawl.target /\ Noted.page = crawl.page
           /\ Noted.last = crawl.last /\ Noted.exit = crawl.exit
           /\ Noted.suspicious = crawl.suspicious /\ Noted.failed = crawl.failed
           /\ Noted.seen = crawl.seen \cup call.body
<1> DEFINE body == call.body
<1>1. crawl \in Crawl /\ body \in SUBSET Urls
  BY DEF TypeOK, Call
<1>2. PICK seen \in SUBSET Urls : seen = crawl.seen \cup body
  BY <1>1 DEF Crawl
<1>3. PICK repeated \in BOOLEAN :
        repeated = (crawl.repeated \/ (body # {} /\ body \ crawl.seen = {}))
  OBVIOUS
<1>4. PICK invalid \in BOOLEAN : invalid = ((crawl.invalid \/ (body = {} /\ ~call.confirmed))
                                              \/ call.odd)
  OBVIOUS
<1>5. Noted = [crawl EXCEPT !.seen = seen, !.repeated = repeated, !.invalid = invalid]
  BY <1>2, <1>3, <1>4, Zenon DEF Noted
<1>6. QED BY <1>1, <1>2, <1>5 DEF Crawl

LEMMA CountedKeeps ==
    ASSUME TypeOK, crawl.pc = "fetching"
    PROVE  /\ Counted \in Crawl /\ Counted.pc = "fetching"
           /\ Counted.target = crawl.target /\ Counted.page = crawl.page
           /\ Counted.last = crawl.last /\ Counted.exit = crawl.exit
           /\ Counted.suspicious = crawl.suspicious /\ Counted.failed = crawl.failed
           /\ Counted.seen = crawl.seen \cup call.body
           /\ call.body # {} => Counted.empties = 0
<1> DEFINE body == call.body
           new == body \ crawl.seen
<1>1. PICK c \in Crawl : c = Noted
  BY NotedKeeps
<1>2. PICK empty \in BOOLEAN : empty = (c.empty \/ body = {})
  OBVIOUS
<1>3. PICK empties \in Nat : empties = IF body = {} THEN c.empties + 1 ELSE 0
  BY <1>1 DEF Crawl
<1>4. PICK stales \in Nat : stales = IF body # {} /\ new = {} THEN c.stales + 1 ELSE 0
  BY <1>1 DEF Crawl
<1>5. Counted = [c EXCEPT !.empty = empty, !.empties = empties, !.stales = stales]
  BY <1>1, <1>2, <1>3, <1>4, Zenon DEF Counted
<1>6. PICK r : r = Counted
  OBVIOUS
<1>7. /\ r \in Crawl /\ r.pc = c.pc /\ r.target = c.target /\ r.page = c.page
      /\ r.last = c.last /\ r.exit = c.exit
      /\ r.suspicious = c.suspicious /\ r.failed = c.failed
      /\ r.seen = c.seen /\ r.empties = empties
  BY <1>1, <1>5, <1>6 DEF Crawl
<1>8. QED BY <1>1, <1>3, <1>6, <1>7, NotedKeeps

LEMMA RaiseEnds ==
    ASSUME TypeOK
    PROVE  Raise(crawl).pc = "error" /\ Raise(Noted).pc = "error"
<1>1. crawl \in Crawl /\ Noted \in Crawl
  BY NotedKeeps DEF TypeOK
<1>2. \A c \in Crawl : Raise(c).pc = "error"
  BY DEF Raise, Crawl
<1>3. QED BY <1>1, <1>2

\* What follows a page: the next one, the end of the target by a rule, or an error.
Follows(c, r) ==
    /\ r \in Crawl /\ r.pc \in {"page", "finish", "error"}
    /\ r.target = c.target /\ r.seen = c.seen
    /\ r.suspicious = c.suspicious /\ r.failed = c.failed
    /\ r.exit = IF r.pc = "error" THEN "failed" ELSE c.exit
    /\ r.pc = "page" => r.page = c.page + 1 /\ r.last \in {c.last, 0, PageCount(c.target)}
    /\ r.pc = "finish" /\ r.reason = "detected_last_page" =>
         /\ setting.start = 1
         /\ \E last \in {c.last, 0, PageCount(c.target)} : 1 <= last /\ last <= c.page
    /\ r.pc = "finish" /\ r.reason = "confirmed_empty" =>
         setting.start = 1 /\ call.confirmed /\ c.empties >= EmptyStop

LEMMA FinishFollows ==
    ASSUME NEW c \in Crawl, NEW reason \in Reason,
           NEW content \in BOOLEAN, NEW limited \in BOOLEAN,
           reason = "detected_last_page" =>
             /\ setting.start = 1
             /\ \E last \in {c.last, 0, PageCount(c.target)} : 1 <= last /\ last <= c.page,
           reason = "confirmed_empty" =>
             setting.start = 1 /\ call.confirmed /\ c.empties >= EmptyStop
    PROVE  Follows(c, Finish([c EXCEPT !.content = content, !.limited = limited], reason))
<1>1. PICK r : r = [c EXCEPT !.pc = "finish", !.reason = reason,
                             !.content = content, !.limited = limited]
  OBVIOUS
<1>2. r = Finish([c EXCEPT !.content = content, !.limited = limited], reason)
  BY <1>1 DEF Finish, Crawl
<1>3. /\ r \in Crawl /\ r.pc = "finish" /\ r.target = c.target /\ r.seen = c.seen
      /\ r.suspicious = c.suspicious /\ r.failed = c.failed /\ r.exit = c.exit
      /\ r.reason = reason
  BY <1>1 DEF Crawl
<1>4. QED BY <1>2, <1>3 DEF Follows

LEMMA NextPageFollows ==
    ASSUME NEW c \in Crawl, NEW last \in Nat, last \in {c.last, 0, PageCount(c.target)}
    PROVE  Follows(c, [c EXCEPT !.pc = "page", !.page = @ + 1, !.last = last])
<1>1. PICK n \in Nat : n = c.page + 1
  BY DEF Crawl
<1>2. PICK r : r = [c EXCEPT !.pc = "page", !.page = n, !.last = last]
  OBVIOUS
<1>3. /\ r \in Crawl /\ r.pc = "page" /\ r.target = c.target /\ r.seen = c.seen
      /\ r.suspicious = c.suspicious /\ r.failed = c.failed /\ r.exit = c.exit
      /\ r.page = n /\ r.last = last
  BY <1>2 DEF Crawl
<1>4. r = [c EXCEPT !.pc = "page", !.page = @ + 1, !.last = last]
  BY <1>1, <1>2
<1>5. QED BY <1>1, <1>3, <1>4 DEF Follows

LEMMA FailFollows ==
    ASSUME NEW c \in Crawl
    PROVE  Follows(c, Fail(c))
<1>1. PICK r : r = Fail(c)
  OBVIOUS
<1>2. /\ r \in Crawl /\ r.pc = "error" /\ r.target = c.target /\ r.seen = c.seen
      /\ r.suspicious = c.suspicious /\ r.failed = c.failed /\ r.exit = "failed"
  BY <1>1 DEF Fail, Crawl
<1>3. QED BY <1>1, <1>2 DEF Follows

LEMMA AfterConfiguredFollows ==
    ASSUME NEW c \in Crawl
    PROVE  Follows(c, AfterConfigured(c))
<1>1. c.last \in Nat /\ c.content \in BOOLEAN /\ c.limited \in BOOLEAN
  BY DEF Crawl
<1>2. [c EXCEPT !.pc = "page", !.page = @ + 1]
        = [c EXCEPT !.pc = "page", !.page = @ + 1, !.last = c.last]
  BY DEF Crawl
<1>3. Finish(c, "configured_page_limit")
        = Finish([c EXCEPT !.content = c.content, !.limited = c.limited], "configured_page_limit")
  BY DEF Finish, Crawl
<1>4. Follows(c, Finish(c, "configured_page_limit"))
  BY <1>1, <1>3, FinishFollows DEF Reason
<1>5. Follows(c, [c EXCEPT !.pc = "page", !.page = @ + 1])
  BY <1>1, <1>2, NextPageFollows
<1>6. QED BY <1>4, <1>5 DEF AfterConfigured

LEMMA AfterDetectedFollows ==
    ASSUME TypeOK, NEW c \in Crawl, c.target \in Targets
    PROVE  Follows(c, AfterDetected(c))
<1>1. c.last \in Nat /\ c.page \in Nat /\ c.content \in BOOLEAN /\ c.limited \in BOOLEAN
  BY DEF Crawl
<1>2. setting.start \in Nat \ {0} /\ setting.limit \in Nat
  BY SettingIsTyped DEF Setting
<1>3. Announced(c.target) \in {0, PageCount(c.target)} /\ PageCount(c.target) \in Nat
  BY PageCountIsNat DEF TypeOK, Announced
<1>4. PICK last \in Nat : last = IF c.last = 0 THEN Announced(c.target) ELSE c.last
  BY <1>1, <1>3
<1>5. last \in {c.last, 0, PageCount(c.target)}
  BY <1>3, <1>4
<1>6. PICK reason : reason = IF setting.start = 1 THEN "detected_last_page" ELSE "partial_start_page"
  OBVIOUS
<1>7. AfterDetected(c) =
        IF last < setting.start \/ last - setting.start + 1 > setting.limit THEN Fail(c)
        ELSE IF c.page < last THEN [c EXCEPT !.pc = "page", !.page = @ + 1, !.last = last]
        ELSE Finish(c, reason)
  BY <1>4, <1>6, Zenon DEF AfterDetected
<1>8. ASSUME ~(last < setting.start), ~(c.page < last)
      PROVE  Follows(c, Finish(c, reason))
  <2>1. Finish(c, reason)
          = Finish([c EXCEPT !.content = c.content, !.limited = c.limited], reason)
    BY DEF Finish, Crawl
  <2>2. reason = "detected_last_page" =>
          setting.start = 1 /\ \E n \in {c.last, 0, PageCount(c.target)} : 1 <= n /\ n <= c.page
    BY <1>1, <1>2, <1>5, <1>6, <1>8
  <2>3. reason \in Reason /\ reason # "confirmed_empty"
    BY <1>6 DEF Reason
  <2>4. QED BY <1>1, <2>1, <2>2, <2>3, FinishFollows
<1>9. QED BY <1>5, <1>7, <1>8, FailFollows, NextPageFollows

LEMMA AfterUntilEmptyFollows ==
    ASSUME NEW c \in Crawl
    PROVE  Follows(c, AfterUntilEmpty(c))
<1>1. c.last \in Nat /\ c.content \in BOOLEAN /\ c.limited \in BOOLEAN
  BY DEF Crawl
<1> DEFINE partial(reason) == IF setting.start = 1 THEN reason ELSE "partial_start_page"
<1>2. /\ partial("stale_pages") \in Reason \ {"detected_last_page", "confirmed_empty"}
      /\ partial("max_page_limit") \in Reason \ {"detected_last_page", "confirmed_empty"}
  BY DEF Reason
<1>3. PICK reason : reason = IF call.confirmed THEN "confirmed_empty" ELSE "unconfirmed_empty"
  OBVIOUS
<1>4. /\ partial(reason) \in Reason \ {"detected_last_page"}
      /\ partial(reason) = "confirmed_empty" => setting.start = 1 /\ call.confirmed
  BY <1>3 DEF Reason
<1> HIDE DEF partial
<1>5. /\ [c EXCEPT !.content = TRUE] = [c EXCEPT !.content = TRUE, !.limited = c.limited]
      /\ [c EXCEPT !.limited = TRUE] = [c EXCEPT !.content = c.content, !.limited = TRUE]
      /\ [c EXCEPT !.pc = "page", !.page = @ + 1]
           = [c EXCEPT !.pc = "page", !.page = @ + 1, !.last = c.last]
  BY DEF Crawl
<1>6. ASSUME c.empties >= EmptyStop
      PROVE  Follows(c, Finish([c EXCEPT !.content = TRUE], partial(reason)))
  BY <1>1, <1>4, <1>5, <1>6, FinishFollows
<1>7. Follows(c, Finish([c EXCEPT !.content = TRUE], partial("stale_pages")))
  BY <1>1, <1>2, <1>5, FinishFollows
<1>8. Follows(c, Finish([c EXCEPT !.limited = TRUE], partial("max_page_limit")))
  BY <1>1, <1>2, <1>5, FinishFollows
<1>9. Follows(c, [c EXCEPT !.pc = "page", !.page = @ + 1])
  BY <1>1, <1>5, NextPageFollows
<1>10. AfterUntilEmpty(c) =
         IF c.empties >= EmptyStop THEN Finish([c EXCEPT !.content = TRUE], partial(reason))
         ELSE IF c.stales >= StaleStop
           THEN Finish([c EXCEPT !.content = TRUE], partial("stale_pages"))
         ELSE IF c.page < setting.start + setting.limit - 1
           THEN [c EXCEPT !.pc = "page", !.page = @ + 1]
         ELSE Finish([c EXCEPT !.limited = TRUE], partial("max_page_limit"))
  BY <1>3, Zenon DEF AfterUntilEmpty, partial
<1>11. QED BY <1>6, <1>7, <1>8, <1>9, <1>10

\* A page that was read is followed by the next, by the end of its target, or by the
\* failure to make out how many there are.
LEMMA AfterPageFollows ==
    ASSUME TypeOK, Loop, crawl.pc = "fetching"
    PROVE  Follows(Counted, AfterPage(Counted))
<1>1. crawl.target \in Targets
  BY SettingIsTyped, LimitsAre DEF TypeOK, Loop, Crawl, Setting, Targets
<1>2. Counted \in Crawl /\ Counted.target \in Targets
  BY <1>1, CountedKeeps
<1>3. setting.strategy \in {"configured", "detect_last_page", "until_empty"}
  BY SettingIsTyped DEF Setting
<1>4. CASE setting.strategy = "configured"
  BY <1>2, <1>4, AfterConfiguredFollows DEF AfterPage
<1>5. CASE setting.strategy = "detect_last_page"
  BY <1>2, <1>5, AfterDetectedFollows DEF AfterPage
<1>6. CASE setting.strategy = "until_empty"
  BY <1>2, <1>6, AfterUntilEmptyFollows DEF AfterPage
<1>7. QED BY <1>3, <1>4, <1>5, <1>6

-----------------------------------------------------------------------------
(* The loop over the targets, their rows, the session and the store.       *)

LEMMA ServedIsUrls ==
    ASSUME TypeOK, NEW t \in Targets, NEW n \in Nat
    PROVE  Served(t, n) \in SUBSET Urls
<1>1. \A m : Slice(t, m) \in SUBSET Urls
  BY DEF TypeOK, Slice
<1>2. QED BY <1>1 DEF Served

LEMMA AtATarget ==
    ASSUME TypeOK, Loop, crawl.pc \in {"page", "fetching", "finish", "error"}
    PROVE  crawl.target \in Targets
<1>1. QED BY SettingIsTyped, LimitsAre DEF TypeOK, Loop, Crawl, Setting, Targets

\* Only a failed transaction leaves seen urls out of the store.
LEMMA NothingLost ==
    ASSUME SeenIsStored, crawl.pc \notin {"error", "close", "over"}
    PROVE  crawl.seen \subseteq stored
<1>1. QED BY DEF SeenIsStored

LEMMA StillStored ==
    ASSUME crawl'.seen \subseteq stored'
    PROVE  SeenIsStored'
<1>1. QED BY DEF SeenIsStored

LEMMA FetchKeepsBasics ==
    ASSUME Basics, Fetch
    PROVE  Basics'
<1>1. /\ crawl.pc = "fetching" /\ UNCHANGED crawlVars
      /\ TypeOK /\ Loop /\ Rows /\ Session /\ Asked
  BY DEF Basics, Fetch
<1>2. Loop' /\ Rows' /\ SeenIsStored'
  BY <1>1 DEF Basics, SeenIsStored, Loop, Rows, RunStatus, AllWell, Ended, crawlVars
<1>3. PICK body \in SUBSET Urls : body = Served(crawl.target, call.page)
  BY <1>1, AtATarget, ServedIsUrls DEF TypeOK, Call
<1>4. /\ call \in Call /\ browser \in Browser /\ jar \in BOOLEAN
      /\ dom \in Dom /\ pager \in Pager
  BY <1>1 DEF TypeOK
<1> DEFINE Kept == /\ call' \in Call /\ browser' \in Browser /\ jar' \in BOOLEAN
                   /\ dom' \in Dom /\ pager' \in Pager
                   /\ Session' /\ Asked'
<1>5. ASSUME setting.transport = "requests", RequestsFetch(body), UNCHANGED pageVars
      PROVE  Kept
  <2>1. Fetched(body) /\ UNCHANGED <<browser, jar>>
    BY <1>4, <1>5, RequestsFetchReads
  <2>2. QED BY <1>1, <1>4, <1>5, <2>1 DEF Fetched, Session, Asked, pageVars, crawlVars
<1>6. ASSUME setting.transport = "browser", BrowserFetch(body), UNCHANGED pageVars
      PROVE  Kept
  <2>1. Fetched(body) /\ UNCHANGED jar /\ browser' \in Browser /\ Session'
    BY <1>1, <1>4, <1>6, BrowserFetchReads
  <2>2. QED BY <1>1, <1>4, <1>6, <2>1 DEF Fetched, Asked, pageVars, crawlVars
<1>7. ASSUME setting.transport = "pager", PagerFetch
      PROVE  Kept
  <2>1. /\ call' \in Call /\ call'.page = call.page
        /\ browser' \in Browser /\ UNCHANGED jar /\ Session'
        /\ dom' \in Dom /\ pager' \in Pager
    BY <1>1, <1>4, <1>7, PagerFetchKeeps
  <2>2. QED BY <1>1, <1>4, <1>7, <2>1 DEF Asked, crawlVars
<1>8. Kept
  BY <1>3, <1>5, <1>6, <1>7 DEF Fetch
<1>9. TypeOK'
  BY <1>1, <1>8 DEF TypeOK, crawlVars
<1>10. QED BY <1>2, <1>8, <1>9 DEF Basics

LEMMA SiteKeepsBasics ==
    ASSUME Basics, Render \/ Shift
    PROVE  Basics'
<1>1. /\ TypeOK /\ Loop /\ Rows /\ Session /\ Asked
      /\ SeenIsStored
  BY DEF Basics
<1>2. CASE Render
  <2>1. UNCHANGED crawlVars /\ UNCHANGED <<fetcher, pager>> /\ crawl.pc = "fetching"
    BY <1>2 DEF Render, RenderActive, RenderLinks
  <2>2. PICK body \in SUBSET Urls : body = Served(crawl.target, dom.goal)
    BY <1>1, <2>1, AtATarget, ServedIsUrls DEF TypeOK, Dom
  <2>3. dom' \in Dom
    <3>1. CASE RenderActive(body)
      BY <1>1, <3>1 DEF RenderActive, TypeOK, Dom
    <3>2. CASE RenderLinks(body) /\ body = {}
      BY <1>1, <3>2 DEF RenderLinks, TypeOK, Dom
    <3>3. CASE RenderLinks(body) /\ body # {}
      BY <1>1, <2>2, <3>3 DEF RenderLinks, TypeOK, Dom
    <3>4. QED BY <1>2, <2>2, <3>1, <3>2, <3>3 DEF Render
  <2>4. TypeOK'
    BY <1>1, <2>1, <2>3 DEF TypeOK, crawlVars, fetcher
  <2>5. QED BY <1>1, <2>1, <2>4
       DEF Basics, SeenIsStored, Loop, Rows, RunStatus, AllWell, Ended, Session, Asked,
           crawlVars, fetcher
<1>3. CASE Shift
  <2>1. UNCHANGED <<fetcher, pageVars, setting, stored, row, crawl, outcome>>
    BY <1>3 DEF Shift
  <2>2. PICK t \in Targets : /\ listing[t] = Listings[t] /\ listing[t] # <<>>
                             /\ listing' = [listing EXCEPT ![t] = Tail(@)]
    BY <1>3 DEF Shift
  <2>3. listing' \in [Targets -> Seq(Urls)]
    <3>1. Tail(listing[t]) \in Seq(Urls)
      BY <1>1, <2>2 DEF TypeOK
    <3>2. QED BY <1>1, <2>2, <3>1 DEF TypeOK
  <2>4. TypeOK'
    BY <1>1, <2>1, <2>3 DEF TypeOK, fetcher, pageVars
  <2>5. QED BY <1>1, <2>1, <2>4
       DEF Basics, SeenIsStored, Loop, Rows, RunStatus, AllWell, Ended, Session, Asked, fetcher
<1>4. QED BY <1>2, <1>3

LEMMA StepsKeepBasics ==
    ASSUME Basics, OpenFetcher \/ StartTarget \/ SendRequest \/ EndTargets
    PROVE  Basics'
<1>1. /\ TypeOK /\ Loop /\ Rows /\ Session /\ Asked
      /\ crawl.seen \subseteq stored /\ crawl \in Crawl
  BY NothingLost DEF Basics, TypeOK, OpenFetcher, StartTarget, SendRequest, EndTargets
<1>2. setting' = setting /\ listing' = listing /\ outcome' = outcome
  BY DEF OpenFetcher, StartTarget, SendRequest, EndTargets, Pause
<1>3. CASE OpenFetcher
  <2>1. UNCHANGED <<call, pageVars, stored, row>> /\ UNCHANGED jar /\ crawl.pc = "open"
    BY <1>3 DEF OpenFetcher, StartBrowser
  <2>2. PICK pc \in {"target", "close"}, exit \in {"none", "raised"} :
          /\ crawl' = [crawl EXCEPT !.pc = pc, !.exit = exit]
          /\ pc = "close" => exit = "raised"
          /\ pc = "target" => exit = crawl.exit
    <3>1. CASE crawl' = [crawl EXCEPT !.pc = "close", !.exit = "raised"]
      BY <3>1
    <3>2. CASE crawl' = [crawl EXCEPT !.pc = "target"]
      <4>1. crawl.exit = "none"
        BY <1>1, <2>1 DEF Loop
      <4>2. crawl' = [crawl EXCEPT !.pc = "target", !.exit = "none"]
        BY <1>1, <3>2, <4>1 DEF Crawl
      <4>3. QED BY <4>1, <4>2
    <3>3. QED BY <1>3, <3>1, <3>2 DEF OpenFetcher, Step
  <2>3. /\ crawl' \in Crawl /\ crawl'.pc = pc /\ crawl'.exit = exit
        /\ crawl'.target = crawl.target /\ crawl'.seen = crawl.seen
        /\ crawl'.suspicious = crawl.suspicious /\ crawl'.failed = crawl.failed
    BY <1>1, <2>2 DEF Crawl
  <2>4. browser' \in Browser /\ Session'
    <3>1. browser' = browser \/ browser' = NewBrowser
      BY <1>3 DEF OpenFetcher, StartBrowser
    <3>2. NewBrowser \in Browser
      BY <1>1 DEF NewBrowser, Browser, TypeOK
    <3>3. browser' \in Browser
      BY <1>1, <3>1, <3>2 DEF TypeOK
    <3>4. QED BY <1>1, <2>1, <3>1, <3>3 DEF Session, NewBrowser
  <2>5. TypeOK'
    BY <1>1, <1>2, <2>1, <2>3, <2>4 DEF TypeOK, pageVars
  <2>6. crawl.target = 0 /\ crawl.exit = "none" /\ outcome = "running"
    BY <1>1, <2>1 DEF Loop
  <2>7. Loop'
    BY <1>1, <1>2, <2>1, <2>2, <2>3, <2>6 DEF Loop
  <2>8. Rows'
    <3>1. \A u \in Targets : u > 0 /\ u \in Nat
      BY LimitsAre DEF Targets
    <3>2. \A u \in Targets : row[u].status = "none" /\ ~row[u].complete
      BY <1>1, <2>6, <3>1 DEF Rows
    <3>3. QED BY <2>1, <2>3, <2>6, <3>1, <3>2 DEF Rows
  <2>9. Asked'
    BY <1>1, <1>2, <2>1, <2>2, <2>3 DEF Asked
  <2>10. QED BY <1>1, <2>1, <2>3, <2>4, <2>5, <2>7, <2>8, <2>9, StillStored DEF Basics
<1>4. CASE StartTarget
  <2>1. UNCHANGED <<fetcher, pageVars, stored>> /\ crawl.pc = "target" /\ crawl.target < setting.targets
    BY <1>4 DEF StartTarget
  <2>2. PICK t \in Targets : t = crawl.target + 1
    BY <1>1, <2>1, SettingIsTyped, LimitsAre DEF Crawl, Setting, Targets
  <2>3. PICK c : c = [Start EXCEPT !.pc = "page", !.target = t, !.page = setting.start,
                             !.suspicious = crawl.suspicious, !.failed = crawl.failed]
    OBVIOUS
  <2>4. crawl' = c
    BY <1>4, <2>2, <2>3 DEF StartTarget, Step
  <2>5. setting.start \in Nat /\ t \in Nat
    BY <1>1, SettingIsTyped, LimitsAre DEF Setting, Targets
  <2>6. /\ crawl'.pc = "page" /\ crawl'.exit = "none" /\ crawl'.target = t /\ crawl'.seen = {}
        /\ crawl'.suspicious = crawl.suspicious /\ crawl'.failed = crawl.failed
    BY <2>3, <2>4 DEF Start
  <2>7. crawl' \in Crawl
    <3>1. Start \in Crawl
      BY DEF Start, Crawl, Reason
    <3>2. PICK m : m = [Start EXCEPT !.pc = "page", !.target = t, !.page = setting.start]
      OBVIOUS
    <3>3. m \in Crawl
      BY <2>5, <3>1, <3>2 DEF Crawl
    <3>4. c = [m EXCEPT !.suspicious = crawl.suspicious, !.failed = crawl.failed]
      BY <2>3, <3>2 DEF Start
    <3>5. crawl.suspicious \in BOOLEAN /\ crawl.failed \in BOOLEAN
      BY <1>1 DEF Crawl
    <3>6. QED BY <2>4, <3>3, <3>4, <3>5 DEF Crawl
  <2>8. row' = [row EXCEPT ![t].status = "running"]
    BY <1>4, <2>2 DEF StartTarget
  <2>9. PICK r : r = [row[t] EXCEPT !.status = "running"]
    OBVIOUS
  <2>10. row' = [row EXCEPT ![t] = r]
    BY <2>8, <2>9
  <2>11. r \in Row /\ r.status = "running" /\ row \in [Targets -> Row]
    BY <1>1, <2>9 DEF TypeOK, Row
  <2>12. row' \in [Targets -> Row]
    BY <2>10, <2>11
  <2>13. TypeOK'
    BY <1>1, <1>2, <2>1, <2>7, <2>12 DEF TypeOK, fetcher, pageVars
  <2>14. Loop'
    <3>1. setting.targets \in Nat /\ crawl.target \in Nat
      BY <1>1, SettingIsTyped, LimitsAre DEF Setting, Targets, Crawl
    <3>2. t <= setting.targets /\ t > 0
      BY <2>1, <2>2, <2>5, <3>1
    <3>3. QED BY <1>1, <1>2, <2>1, <2>6, <3>2 DEF Loop
  <2>15. Rows'
    <3>1. SUFFICES ASSUME NEW u \in Targets
                   PROVE  /\ u > t => row'[u].status = "none" /\ ~row'[u].complete
                          /\ u < t => row'[u].status # "blocked"
                          /\ row'[u].status # "blocked"
                          /\ AllWell /\ u < t => row'[u].status = "completed"
      BY <2>5, <2>6 DEF Rows, AllWell, Ended
    <3>2. u \in Nat /\ crawl.target \in Nat
      BY <1>1, LimitsAre DEF Targets, Crawl
    <3>3. CASE u = t
      BY <2>5, <2>10, <2>11, <3>2, <3>3
    <3>4. CASE u # t
      <4>1. row'[u] = row[u]
        BY <2>10, <2>11, <3>4
      <4>2. row[u].status # "blocked"
        BY <1>1, <2>1 DEF Rows
      <4>3. u > t => u > crawl.target
        BY <2>2, <2>5, <3>2
      <4>4. u < t => u < crawl.target \/ u = crawl.target
        BY <2>2, <2>5, <3>2
      <4>5. Ended
        BY <2>1 DEF Ended
      <4>6. QED BY <1>1, <3>4, <4>1, <4>2, <4>3, <4>4, <4>5 DEF Rows
    <3>5. QED BY <3>3, <3>4
  <2>16. Asked' /\ Session'
    BY <1>1, <1>2, <2>1, <2>6 DEF Asked, Session, fetcher
  <2>17. QED BY <2>6, <2>13, <2>14, <2>15, <2>16, StillStored DEF Basics
<1>5. CASE SendRequest
  <2>1. UNCHANGED <<browser, jar, dom, stored, row>> /\ crawl.pc = "page"
    BY <1>5 DEF SendRequest
  <2>2. crawl' = [crawl EXCEPT !.pc = "fetching"]
    BY <1>5 DEF SendRequest, Step
  <2>3. /\ crawl' \in Crawl /\ crawl'.pc = "fetching" /\ crawl'.exit = crawl.exit
        /\ crawl'.target = crawl.target /\ crawl'.seen = crawl.seen /\ crawl'.page = crawl.page
        /\ crawl'.suspicious = crawl.suspicious /\ crawl'.failed = crawl.failed
    BY <1>1, <2>2 DEF Crawl
  <2>4. call' = [NoCall EXCEPT !.pc = "send", !.page = crawl.page, !.try = 1]
    BY <1>5 DEF SendRequest
  <2>5. call' \in Call /\ call'.page = crawl.page /\ ~call'.confirmed
    <3>1. NoCall \in Call /\ 1 \in 0 .. MaxTries /\ crawl.page \in Nat
      BY <1>1, MaxTriesAssumption DEF NoCall, Call, Crawl
    <3>2. PICK n \in 0 .. MaxTries : n = 1
      BY <3>1
    <3>3. call' = [NoCall EXCEPT !.pc = "send", !.page = crawl.page, !.try = n]
      BY <2>4, <3>2
    <3>4. call' \in Call
      BY <3>1, <3>3 DEF Call
    <3>5. QED BY <3>3, <3>4 DEF NoCall
  <2>6. pager' \in Pager
    BY <1>1, <1>5 DEF SendRequest, Pager, TypeOK
  <2>7. TypeOK'
    BY <1>1, <1>2, <2>1, <2>3, <2>5, <2>6 DEF TypeOK
  <2>8. Loop'
    BY <1>1, <1>2, <2>1, <2>3 DEF Loop
  <2>9. Rows'
    BY <1>1, <2>1, <2>3 DEF Rows, AllWell, Ended
  <2>10. Asked' /\ Session'
    BY <1>1, <2>1, <2>3, <2>5 DEF Asked, Session
  <2>11. QED BY <1>1, <2>1, <2>3, <2>7, <2>8, <2>9, <2>10, StillStored DEF Basics
<1>6. CASE EndTargets
  <2>1. UNCHANGED <<fetcher, pageVars, stored, row>> /\ crawl.pc = "target"
        /\ crawl.target = setting.targets
    BY <1>6 DEF EndTargets
  <2>2. crawl' = [crawl EXCEPT !.pc = "close"]
    BY <1>6 DEF EndTargets, Step
  <2>3. /\ crawl' \in Crawl /\ crawl'.pc = "close" /\ crawl'.exit = crawl.exit
        /\ crawl'.target = crawl.target /\ crawl'.seen = crawl.seen
        /\ crawl'.suspicious = crawl.suspicious /\ crawl'.failed = crawl.failed
    BY <1>1, <2>2 DEF Crawl
  <2>4. TypeOK'
    BY <1>1, <1>2, <2>1, <2>3 DEF TypeOK, fetcher, pageVars
  <2>5. Loop'
    BY <1>1, <1>2, <2>1, <2>3 DEF Loop
  <2>6. Rows'
    BY <1>1, <2>1, <2>3 DEF Rows, AllWell, Ended
  <2>7. Asked' /\ Session'
    BY <1>1, <1>2, <2>1, <2>3 DEF Asked, Session, fetcher
  <2>8. QED BY <1>1, <2>1, <2>3, <2>4, <2>5, <2>6, <2>7, StillStored DEF Basics
<1>7. QED BY <1>3, <1>4, <1>5, <1>6

LEMMA ReadsKeepBasics ==
    ASSUME Basics, ReadPage \/ FetchFails
    PROVE  Basics'
<1>1. /\ TypeOK /\ Loop /\ Rows /\ Session /\ Asked
      /\ crawl.seen \subseteq stored /\ crawl \in Crawl /\ call \in Call
  BY NothingLost DEF Basics, TypeOK, ReadPage, FetchFails
<1>2. /\ setting' = setting /\ listing' = listing /\ outcome' = outcome
      /\ UNCHANGED <<browser, jar, pageVars, row>> /\ call' = NoCall
      /\ crawl.pc = "fetching" /\ call.pc = "done"
  BY DEF ReadPage, FetchFails, Pause
<1>3. /\ crawl.exit = "none" /\ outcome = "running"
      /\ crawl.target <= setting.targets /\ crawl.target > 0
  BY <1>1, <1>2 DEF Loop
<1>4. ASSUME /\ crawl' \in Crawl /\ crawl'.pc \in {"page", "finish", "error"}
             /\ crawl'.target = crawl.target
             /\ crawl'.suspicious = crawl.suspicious /\ crawl'.failed = crawl.failed
             /\ crawl'.exit # "none" <=> crawl'.pc = "error"
             /\ SeenIsStored' /\ stored' \subseteq Urls
      PROVE  Basics'
  <2>1. call' \in Call /\ ~call'.confirmed /\ call'.pc = "idle"
    BY <1>2, MaxTriesAssumption DEF NoCall, Call
  <2>2. TypeOK'
    BY <1>1, <1>2, <1>4, <2>1 DEF TypeOK, pageVars
  <2>3. Loop'
    BY <1>2, <1>3, <1>4 DEF Loop
  <2>4. Rows'
    BY <1>1, <1>2, <1>4 DEF Rows, AllWell, Ended
  <2>5. Asked' /\ Session'
    BY <1>1, <1>2, <1>4, <2>1 DEF Asked, Session
  <2>6. QED BY <1>4, <2>2, <2>3, <2>4, <2>5 DEF Basics
<1>5. ASSUME NEW exit \in {"blocked", "failed", "raised"}, NEW c \in Crawl,
             c.target = crawl.target, c.suspicious = crawl.suspicious, c.failed = crawl.failed,
             crawl' = [c EXCEPT !.pc = "error", !.exit = exit],
             stored \subseteq stored', stored' \subseteq Urls,
             exit = "raised" \/ c.seen \subseteq stored
      PROVE  Basics'
  <2>1. /\ crawl' \in Crawl /\ crawl'.pc = "error" /\ crawl'.exit = exit /\ crawl'.seen = c.seen
        /\ crawl'.target = crawl.target
        /\ crawl'.suspicious = crawl.suspicious /\ crawl'.failed = crawl.failed
    BY <1>5 DEF Crawl
  <2>2. SeenIsStored'
    BY <1>2, <1>3, <1>5, <2>1 DEF SeenIsStored
  <2>3. QED BY <1>4, <1>5, <2>1, <2>2
<1>6. CASE FetchFails
  <2>1. PICK exit : exit = IF call.kind \in {"blocked", "raised"} THEN call.kind ELSE "failed"
    OBVIOUS
  <2>2. exit \in {"blocked", "failed", "raised"}
    BY <2>1
  <2>3. crawl' = [crawl EXCEPT !.pc = "error", !.exit = exit] /\ UNCHANGED stored
    BY <1>6, <2>1 DEF FetchFails, Step
  <2>4. QED BY <1>1, <1>5, <2>2, <2>3 DEF TypeOK
<1>7. CASE ReadPage
  <2>1. CASE crawl' = Raise(crawl) /\ UNCHANGED stored
    BY <1>1, <1>5, <2>1 DEF Raise, TypeOK
  <2>2. CASE crawl' = Raise(Noted) /\ stored' \in {stored, stored \cup call.body}
    <3>1. PICK c \in Crawl : c = Noted
      BY <1>1, NotedKeeps
    <3>2. /\ c.target = crawl.target
          /\ c.suspicious = crawl.suspicious /\ c.failed = crawl.failed
      BY <1>1, <3>1, NotedKeeps
    <3>3. stored \subseteq stored' /\ stored' \subseteq Urls
      BY <1>1, <2>2 DEF TypeOK, Call
    <3>4. crawl' = [c EXCEPT !.pc = "error", !.exit = "raised"]
      BY <2>2, <3>1 DEF Raise
    <3>5. QED BY <1>5, <3>2, <3>3, <3>4
  <2>3. CASE crawl' = AfterPage(Counted) /\ stored' = stored \cup call.body
    <3>1. Follows(Counted, crawl')
      BY <1>1, <1>2, <2>3, AfterPageFollows
    <3>2. /\ Counted.target = crawl.target /\ Counted.exit = "none"
          /\ Counted.suspicious = crawl.suspicious /\ Counted.failed = crawl.failed
          /\ Counted.seen = crawl.seen \cup call.body
      BY <1>1, <1>2, <1>3, CountedKeeps
    <3>3. /\ crawl' \in Crawl /\ crawl'.pc \in {"page", "finish", "error"}
          /\ crawl'.target = crawl.target
          /\ crawl'.suspicious = crawl.suspicious /\ crawl'.failed = crawl.failed
          /\ crawl'.exit # "none" <=> crawl'.pc = "error"
          /\ crawl'.seen = crawl.seen \cup call.body
      BY <3>1, <3>2 DEF Follows
    <3>4. crawl'.seen \subseteq stored' /\ stored' \subseteq Urls
      BY <1>1, <2>3, <3>3 DEF TypeOK, Call
    <3>5. QED BY <1>4, <3>3, <3>4, StillStored
  <2>4. QED BY <1>7, <2>1, <2>2, <2>3 DEF ReadPage, Step, StorePage
<1>8. QED BY <1>6, <1>7

\* A target that ends gives its row a status; no other row changes.
LEMMA EndsKeepBasics ==
    ASSUME Basics, FinishTarget \/ FailTarget
    PROVE  Basics'
<1>1. /\ TypeOK /\ Loop /\ Rows /\ Session /\ Asked
      /\ SeenIsStored /\ crawl \in Crawl
  BY DEF Basics, TypeOK
<1>2. /\ setting' = setting /\ listing' = listing /\ outcome' = outcome
      /\ UNCHANGED <<fetcher, pageVars, stored>>
      /\ crawl.pc \in {"finish", "error"}
  BY DEF FinishTarget, FailTarget, Pause
<1>3. PICK t \in Targets : t = crawl.target
  BY <1>1, <1>2, AtATarget
<1>4. /\ t <= setting.targets /\ t > 0 /\ t \in Nat /\ outcome = "running"
      /\ row \in [Targets -> Row] /\ \A u \in Targets : u \in Nat
  BY <1>1, <1>2, <1>3, LimitsAre DEF Loop, TypeOK, Targets
<1>5. ASSUME NEW r \in Row, row' = [row EXCEPT ![t] = r],
             crawl' \in Crawl, crawl'.target = t, crawl'.seen = crawl.seen,
             crawl'.failed \in BOOLEAN, crawl.failed => crawl'.failed,
             crawl.suspicious => crawl'.suspicious,
             crawl'.pc \in {"target", "close"},
             crawl'.pc = "target" <=> crawl'.exit = "none",
             r.status = "blocked" => crawl'.pc = "close",
             crawl'.pc = "target" /\ ~crawl'.suspicious /\ ~crawl'.failed => r.status = "completed",
             \/ crawl.seen \subseteq stored
             \/ crawl'.pc = "close" /\ crawl'.exit = "raised" /\ r.status = "failed" /\ ~r.complete
      PROVE  Basics'
  <2>1. row' \in [Targets -> Row]
    BY <1>4, <1>5
  <2>2. TypeOK'
    BY <1>1, <1>2, <1>5, <2>1 DEF TypeOK, fetcher, pageVars
  <2>3. Loop'
    BY <1>2, <1>4, <1>5 DEF Loop
  <2>4. Rows'
    <3>1. SUFFICES ASSUME NEW u \in Targets
                   PROVE  /\ u > t => row'[u].status = "none" /\ ~row'[u].complete
                          /\ u < t => row'[u].status # "blocked"
                          /\ row'[u].status = "blocked" => crawl'.pc = "close"
                          /\ AllWell' /\ u < t => row'[u].status = "completed"
                          /\ AllWell' /\ u = t /\ crawl'.pc = "target" => row'[u].status = "completed"
      BY <1>5 DEF Rows, Ended
    <3>2. CASE u = t
      <4>1. row'[u] = r
        BY <1>4, <1>5, <3>2
      <4>2. QED BY <1>4, <1>5, <3>2, <4>1 DEF AllWell
    <3>3. CASE u # t
      <4>1. row'[u] = row[u]
        BY <1>4, <1>5, <3>3
      <4>2. AllWell' => AllWell
        BY <1>5 DEF AllWell
      <4>3. row[u].status # "blocked"
        BY <1>1, <1>2 DEF Rows
      <4>4. QED BY <1>1, <1>3, <3>3, <4>1, <4>2, <4>3 DEF Rows
    <3>4. QED BY <3>2, <3>3
  <2>5. Asked' /\ Session'
    BY <1>1, <1>2, <1>5 DEF Asked, Session, fetcher
  <2>6. SeenIsStored'
    BY <1>2, <1>3, <1>4, <1>5 DEF SeenIsStored
  <2>7. QED BY <1>1, <1>2, <1>5, <2>2, <2>3, <2>4, <2>5, <2>6 DEF Basics
<1>6. CASE FinishTarget
  <2>1. PICK status \in {"suspicious", "completed"} : status = TargetStatus(crawl)
    BY DEF TargetStatus
  <2>2. PICK complete \in BOOLEAN : complete = IsComplete(crawl, status)
    BY DEF IsComplete
  <2>3. PICK reason \in Reason :
          reason = IF crawl.repeated THEN "repeated_page" ELSE crawl.reason
    BY <1>1 DEF Crawl, Reason
  <2>4. PICK r : r = [status |-> status, complete |-> complete, reason |-> reason]
    OBVIOUS
  <2>5. r \in Row /\ r.status = status
    BY <2>1, <2>2, <2>3, <2>4 DEF Row
  <2>6. row' = [row EXCEPT ![t] = r]
    BY <1>3, <1>6, <2>1, <2>2, <2>3, <2>4 DEF FinishTarget
  <2>7. PICK suspicious \in BOOLEAN : suspicious = (crawl.suspicious \/ status = "suspicious")
    OBVIOUS
  <2>8. crawl' = [crawl EXCEPT !.pc = "target", !.suspicious = suspicious]
    BY <1>6, <2>1, <2>7 DEF FinishTarget, Step
  <2>9. crawl.exit = "none"
    BY <1>1, <1>6 DEF FinishTarget, Loop
  <2>10. /\ crawl' \in Crawl /\ crawl'.target = crawl.target /\ crawl'.seen = crawl.seen
         /\ crawl'.failed = crawl.failed /\ crawl'.suspicious = suspicious
         /\ crawl'.pc = "target" /\ crawl'.exit = "none" /\ crawl.failed \in BOOLEAN
    BY <1>1, <2>8, <2>9 DEF Crawl
  <2>11. crawl.seen \subseteq stored
    BY <1>1, <1>6, NothingLost DEF FinishTarget
  <2>12. QED BY <1>3, <1>5, <2>1, <2>5, <2>6, <2>7, <2>10, <2>11
<1>7. CASE FailTarget
  <2>1. crawl.exit \in {"blocked", "failed", "raised"} /\ crawl.pc = "error"
    BY <1>1, <1>7 DEF FailTarget, Loop, Crawl
  <2>2. PICK status \in {"blocked", "failed"} :
          status = IF crawl.exit = "blocked" THEN "blocked" ELSE "failed"
    OBVIOUS
  <2>3. PICK r : r = [status |-> status, complete |-> FALSE, reason |-> status]
    OBVIOUS
  <2>4. r \in Row /\ r.status = status
    BY <2>2, <2>3 DEF Row, Reason
  <2>5. row' = [row EXCEPT ![t] = r]
    BY <1>3, <1>7, <2>2, <2>3 DEF FailTarget, RowFails
  <2>6. ~r.complete /\ (crawl.seen \subseteq stored \/ crawl.exit = "raised")
    BY <1>1, <2>3 DEF SeenIsStored
  <2>7. CASE Continues
    <3>1. crawl' = [crawl EXCEPT !.pc = "target", !.failed = TRUE, !.exit = "none"]
      BY <1>7, <2>7 DEF FailTarget, Step
    <3>2. /\ crawl' \in Crawl /\ crawl'.target = crawl.target /\ crawl'.seen = crawl.seen
          /\ crawl'.failed = TRUE /\ crawl'.suspicious = crawl.suspicious
          /\ crawl'.pc = "target" /\ crawl'.exit = "none"
      BY <1>1, <3>1 DEF Crawl
    <3>3. status = "failed"
      BY <2>2, <2>7 DEF Continues
    <3>4. crawl.seen \subseteq stored
      BY <2>7, <2>6 DEF Continues
    <3>5. QED BY <1>3, <1>5, <2>4, <2>5, <3>2, <3>3, <3>4
  <2>8. CASE ~Continues
    <3>1. PICK failed \in BOOLEAN : failed = (crawl.failed \/ crawl.exit = "failed")
      OBVIOUS
    <3>2. crawl' = [crawl EXCEPT !.pc = "close", !.failed = failed]
      BY <1>7, <2>8, <3>1 DEF FailTarget, Step
    <3>3. /\ crawl' \in Crawl /\ crawl'.target = crawl.target /\ crawl'.seen = crawl.seen
          /\ crawl'.failed = failed /\ crawl'.suspicious = crawl.suspicious
          /\ crawl'.pc = "close" /\ crawl'.exit = crawl.exit
      BY <1>1, <3>2 DEF Crawl
    <3>4. crawl.seen \subseteq stored \/ (crawl'.exit = "raised" /\ r.status = "failed")
      BY <2>2, <2>4, <2>6, <3>3
    <3>5. QED BY <1>3, <1>5, <2>1, <2>4, <2>5, <2>6, <3>1, <3>3, <3>4
  <2>9. QED BY <2>7, <2>8
<1>8. QED BY <1>6, <1>7

\* A browser that is up and was not blocked was never challenged: the session it
\* leaves is one the site accepted.
LEMMA CloseKeepsBasics ==
    ASSUME Basics, EndDiscovery
    PROVE  Basics'
<1>1. /\ TypeOK /\ Loop /\ Rows /\ Session /\ Asked
      /\ SeenIsStored /\ crawl \in Crawl /\ crawl.pc = "close"
  BY DEF Basics, TypeOK, EndDiscovery
<1>2. UNCHANGED <<call, pageVars, setting, listing, stored, row>> /\ outcome' = RunStatus
  BY DEF EndDiscovery
<1>3. crawl' = [crawl EXCEPT !.pc = "over"]
  BY DEF EndDiscovery, Step
<1>4. /\ crawl' \in Crawl /\ crawl'.pc = "over" /\ crawl'.exit = crawl.exit
      /\ crawl'.target = crawl.target /\ crawl'.seen = crawl.seen
      /\ crawl'.suspicious = crawl.suspicious /\ crawl'.failed = crawl.failed
  BY <1>1, <1>3 DEF Crawl
<1>5. RunStatus \in {"completed", "suspicious", "failed", "blocked", "raised"}
  BY <1>1 DEF RunStatus, Crawl
<1>6. jar' = FALSE /\ browser' \in Browser /\ ~browser'.challenged
  BY <1>1 DEF EndDiscovery, CloseBrowser, Session, Browser, TypeOK
<1>7. TypeOK'
  BY <1>1, <1>2, <1>4, <1>5, <1>6 DEF TypeOK, pageVars
<1>8. Loop'
  BY <1>1, <1>2, <1>4 DEF Loop, RunStatus
<1>9. Rows'
  BY <1>1, <1>2, <1>4 DEF Rows, AllWell, Ended
<1>10. Asked' /\ Session'
  BY <1>1, <1>2, <1>4, <1>6 DEF Asked, Session
<1>11. SeenIsStored'
  BY <1>1, <1>2, <1>4 DEF SeenIsStored, RunStatus
<1>12. QED BY <1>7, <1>8, <1>9, <1>10, <1>11 DEF Basics

LEMMA BasicsStep ==
    ASSUME Basics, [Next]_vars
    PROVE  Basics'
<1>1. CASE UNCHANGED vars
  BY <1>1 DEF Basics, SeenIsStored, TypeOK, Loop, Rows, RunStatus, AllWell, Ended, Session, Asked,
              vars, fetcher
<1>2. CASE Next
  BY <1>2, FetchKeepsBasics, SiteKeepsBasics, StepsKeepBasics, ReadsKeepBasics,
     EndsKeepBasics, CloseKeepsBasics DEF Next, Discover
<1>3. QED BY <1>1, <1>2

-----------------------------------------------------------------------------
(* The client-side listing.                                                *)

LEMMA SheetsAre ==
    ASSUME NEW t \in Targets, NEW n \in Nat
    PROVE  Sheets[t][n] = Slice(t, n)
<1>1. QED BY DEF Sheets

LEMMA SheetsStay ==
    ASSUME listing' = listing
    PROVE  Sheets' = Sheets /\ Counts' = Counts
<1>1. QED BY DEF Sheets, Counts, Slice, PageCount

LEMMA ListingStays ==
    ASSUME Steady, [Next]_vars
    PROVE  listing' = listing /\ setting' = setting /\ Steady'
<1>1. listing' = listing /\ setting' = setting
  BY DEF Steady, Next, Discover, OpenFetcher, StartTarget, SendRequest, Fetch, ReadPage,
         FetchFails, FinishTarget, FailTarget, EndTargets, EndDiscovery, Render, Shift,
         Pause, crawlVars, vars
<1>2. QED BY <1>1 DEF Steady

\* What this fetcher relies on: there is one target, whose first page is not page
\* zero, and nothing on the pages past the last.
OneTarget ==
    /\ setting.transport = "pager" /\ Steady
    /\ 1 \in Targets /\ crawl.target \in {0, 1}
    /\ crawl.pc \in {"page", "fetching", "finish", "error"} => crawl.target = 1
    /\ Sheets[1][0] = {}
    /\ \A n \in Nat : Served(1, n) = Sheets[1][n]
    /\ crawl.page \in Nat /\ pager.last \in Nat /\ dom.goal \in Nat /\ setting.start \in Nat \ {0}
    /\ setting.targets = 1

LEMMA OneTargetHolds ==
    ASSUME Basics, setting.transport = "pager", Steady
    PROVE  OneTarget
<1>1. TypeOK /\ Loop /\ setting.targets = 1 /\ setting.beyond = "empty" /\ setting \in Setting
  BY SettingIsTyped DEF Basics
<1>2. 1 \in Targets
  BY LimitsAre DEF Targets
<1>3. crawl.page \in Nat /\ pager.last \in Nat /\ dom.goal \in Nat /\ crawl.target \in Nat
      /\ setting.start \in Nat \ {0}
  BY <1>1 DEF TypeOK, Crawl, Pager, Dom, Setting
<1>4. crawl.target \in {0, 1}
      /\ (crawl.pc \in {"page", "fetching", "finish", "error"} => crawl.target = 1)
  BY <1>1, <1>3 DEF Loop
<1>5. Sheets[1][0] = {}
  BY <1>1, <1>2, SheetsAre, OffTheList DEF TypeOK
<1>6. \A n \in Nat : Served(1, n) = Sheets[1][n]
  BY <1>1, <1>2, SheetsAre DEF Served
<1>7. QED BY <1>1, <1>2, <1>3, <1>4, <1>5, <1>6 DEF OneTarget

\* The state while a page is asked for.
LEMMA FetchKeepsScreen ==
    ASSUME OneTarget, Shown, Headed, Sheets' = Sheets, call \in Call, call.page = crawl.page,
           crawl.pc = "fetching", UNCHANGED crawl, PagerFetch,
           dom \in Dom, pager \in Pager
    PROVE  Shown' /\ Headed'
<1> DEFINE n == crawl.page
<1>1. /\ call.pc # "done" /\ call.page = n /\ n > pager.last /\ n # 0 /\ n # pager.last
      /\ Resting \/ dom.goal = n
      /\ n \in Nat /\ pager.last \in Nat
  <2>1. call.pc # "done"
    BY DEF PagerFetch, OpenUrl, ReadControls, ClickControl, ProbeUrl, WaitResult,
           CollectLinks, PagerTimeout
  <2>2. n > pager.last /\ (Resting \/ dom.goal = n)
    BY <2>1 DEF Headed
  <2>3. n \in Nat /\ pager.last \in Nat
    BY DEF OneTarget
  <2>4. QED BY <2>1, <2>2, <2>3
<1>2. ASSUME call'.pc # "done" => Resting' \/ dom'.goal = n,
             call'.pc # "done" => n > pager'.last,
             call'.pc \in {"wait", "collect"} => dom'.goal = n,
             call'.pc = "collect" => dom'.active \in {0, n},
             call'.pc = "done" /\ call'.kind = "ok"
               => Resting' /\ n >= pager'.last /\ call'.body = Sheets[1][n]
      PROVE  Headed'
  BY <1>2 DEF Headed, Answered
<1>3. ASSUME UNCHANGED <<dom, pager>>
      PROVE  Shown' /\ (Resting' <=> Resting)
  BY <1>3 DEF Shown, Resting
<1>4. ASSUME NEW kind \in {"fetch_error", "raised", "blocked"}, End(kind)
      PROVE  call'.pc = "done" /\ call'.kind # "ok"
  BY <1>4, EndGoesOn
<1>5. ASSUME NEW pc \in {"wait", "collect", "timeout"}, call' = [call EXCEPT !.pc = pc]
      PROVE  call'.pc = pc
  BY <1>5 DEF Call
<1>6. ASSUME NEW reload \in BOOLEAN, Goto(reload)
      PROVE  Shown' /\ Headed'
  <2>1. pager'.last = pager.last /\ pager'.links = pager.links
    <3>1. pager' = [pager EXCEPT !.reload = reload]
      BY <1>6 DEF Goto
    <3>2. QED BY <3>1
  <2>2. CASE dom' = Blank
    <3>1. Shown' /\ Resting'
      BY <2>1, <2>2 DEF Shown, Resting, Blank
    <3>2. call'.pc = "timeout" \/ (call'.pc = "done" /\ call'.kind # "ok")
      <4>1. CASE Blocked
        BY <1>4, <4>1 DEF Blocked
      <4>2. CASE \E kind \in {"fetch_error", "raised"} : End(kind)
        BY <1>4, <4>2
      <4>3. CASE call' = [call EXCEPT !.pc = "timeout"]
        BY <1>5, <4>3
      <4>4. CASE dom' = [Blank EXCEPT !.goal = call.page]
        <5>1. dom'.goal = n
          BY <1>1, <4>4 DEF Blank
        <5>2. QED BY <1>1, <2>2, <5>1 DEF Blank
      <4>5. QED BY <1>6, <4>1, <4>2, <4>3, <4>4 DEF Goto
    <3>3. QED BY <1>1, <1>2, <2>1, <3>1, <3>2
  <2>3. CASE dom' # Blank
    <3>1. call' = [call EXCEPT !.pc = "wait"] /\ dom' = [Blank EXCEPT !.goal = n]
      BY <1>1, <1>6, <2>3 DEF Goto
    <3>2. call'.pc = "wait"
      BY <1>5, <3>1
    <3>3. dom'.goal = n /\ dom'.active = 0 /\ dom'.links = {} /\ dom'.empty = FALSE
      BY <3>1 DEF Blank
    <3>4. Shown'
      BY <2>1, <3>3 DEF Shown
    <3>5. QED BY <1>1, <1>2, <2>1, <3>2, <3>3, <3>4
  <2>4. QED BY <2>2, <2>3
<1>7. CASE OpenUrl \/ ProbeUrl
  <2>1. pager.reload \in BOOLEAN
    BY DEF Pager
  <2>2. QED BY <1>6, <1>7, <2>1 DEF OpenUrl, ProbeUrl
<1>8. CASE ReadControls
  <2>1. UNCHANGED <<dom, pager>>
    BY <1>8 DEF ReadControls
  <2>2. CASE Active = call.page /\ call' = [call EXCEPT !.pc = "wait"]
    <3>1. dom.goal = n
      BY <1>1, <2>2 DEF Shown, Active
    <3>2. QED BY <1>1, <1>2, <1>3, <1>5, <2>1, <2>2, <3>1
  <2>3. CASE End("fetch_error")
    BY <1>2, <1>3, <1>4, <2>1, <2>3
  <2>4. QED BY <1>8, <2>2, <2>3 DEF ReadControls
<1>9. CASE ClickControl
  <2>1. pager' = pager /\ dom' = [dom EXCEPT !.goal = n] /\ dom.active = pager.last
        /\ dom.active # 0
    BY <1>1, <1>9 DEF ClickControl, Expected, Active
  <2>2. /\ dom'.goal = n /\ dom'.active = dom.active /\ dom'.links = dom.links
        /\ dom'.empty = dom.empty
    BY <2>1 DEF Dom
  <2>3. dom.links \in {{}, pager.links, Sheets[1][n]}
    BY <1>1 DEF Shown, Resting, OneTarget
  <2>4. Shown'
    BY <2>1, <2>2, <2>3 DEF Shown
  <2>5. call'.pc = "wait" \/ (call'.pc = "done" /\ call'.kind # "ok")
    BY <1>4, <1>5, <1>9 DEF ClickControl
  <2>6. QED BY <1>1, <1>2, <2>1, <2>2, <2>4, <2>5
<1>10. CASE WaitResult
  <2>1. UNCHANGED <<dom, pager>> /\ call.pc = "wait" /\ dom.goal = n
    BY <1>10 DEF WaitResult, Headed
  <2>2. Shown'
    BY <1>3, <2>1
  <2>3. CASE dom.empty /\ Return({}, TRUE)
    <3>1. call'.pc = "done" /\ call'.kind = "ok" /\ call'.body = {}
      BY <2>3 DEF Return, Call
    <3>2. Sheets[1][n] = {} /\ Resting'
      BY <1>3, <2>1, <2>3 DEF Shown, Resting
    <3>3. QED BY <1>1, <1>2, <2>1, <2>2, <3>1, <3>2
  <2>4. CASE Active = call.page /\ call' = [call EXCEPT !.pc = "collect"]
    <3>1. dom'.active = n /\ call'.pc = "collect"
      BY <1>1, <1>5, <2>1, <2>4 DEF Active
    <3>2. QED BY <1>1, <1>2, <2>1, <2>2, <3>1
  <2>5. CASE call' = [call EXCEPT !.pc = "timeout"]
    BY <1>1, <1>2, <1>3, <1>5, <2>1, <2>5
  <2>6. CASE End("raised") \/ Blocked
    BY <1>2, <1>4, <2>2, <2>6 DEF Blocked
  <2>7. QED BY <1>10, <2>3, <2>4, <2>5, <2>6 DEF WaitResult
<1>11. CASE CollectLinks
  <2>1. UNCHANGED dom /\ call.pc = "collect" /\ dom.goal = n /\ dom.active \in {0, n}
    BY <1>11 DEF CollectLinks, Headed
  <2>2. CASE /\ Fresh /\ Return(dom.links, FALSE)
             /\ pager' = [pager EXCEPT !.last = call.page, !.links = dom.links]
    <3>1. dom.links = Sheets[1][n]
      BY <2>1, <2>2 DEF Fresh, Shown
    <3>2. call'.pc = "done" /\ call'.kind = "ok" /\ call'.body = dom.links
      BY <2>2 DEF Return, Call
    <3>3. pager'.last = n /\ pager'.links = dom.links
      BY <1>1, <2>2
    <3>4. Shown'
      BY <2>1, <3>1, <3>3 DEF Shown
    <3>5. Resting'
      BY <2>1, <3>3 DEF Resting
    <3>6. QED BY <1>1, <1>2, <3>1, <3>2, <3>3, <3>4, <3>5
  <2>3. CASE call' = [call EXCEPT !.pc = "timeout"] /\ UNCHANGED pager
    BY <1>1, <1>2, <1>3, <1>5, <2>1, <2>3
  <2>4. CASE /\ Blocked \/ \E kind \in {"fetch_error", "raised"} : End(kind)
             /\ UNCHANGED pager
    <3>1. call'.pc = "done" /\ call'.kind # "ok"
      BY <1>4, <2>4 DEF Blocked
    <3>2. QED BY <1>2, <1>3, <2>1, <2>4, <3>1
  <2>5. QED BY <1>11, <2>2, <2>3, <2>4 DEF CollectLinks
<1>12. CASE PagerTimeout
  <2>1. UNCHANGED <<dom, pager>> /\ RetryOrEnd("fetch_error")
    BY <1>12 DEF PagerTimeout
  <2>2. call'.pc = "send" \/ (call'.pc = "done" /\ call'.kind # "ok")
    BY <2>1, RetryOrEndGoesOn
  <2>3. QED BY <1>1, <1>2, <1>3, <2>1, <2>2
<1>13. QED BY <1>7, <1>8, <1>9, <1>10, <1>11, <1>12 DEF PagerFetch

LEMMA RenderKeepsScreen ==
    ASSUME OneTarget, Shown, Headed, Sheets' = Sheets, dom \in Dom, pager \in Pager, Render
    PROVE  Shown' /\ Headed'
<1>1. /\ UNCHANGED <<call, pager, crawl>> /\ crawl.pc = "fetching" /\ call.pc # "done"
      /\ crawl.target = 1
  BY DEF Render, RenderActive, RenderLinks, crawlVars, fetcher, OneTarget
<1>2. PICK body : body = Served(crawl.target, dom.goal) /\ body = Sheets[1][dom.goal]
  BY <1>1 DEF OneTarget
<1>3. ASSUME dom'.goal = dom.goal,
             dom'.links \in {{}, pager.links, body},
             dom'.active \in {0, dom.goal, pager.last},
             dom'.active \in {0, dom.goal, dom.active},
             dom'.empty => dom'.active = 0 /\ body = {}
      PROVE  Shown' /\ Headed'
  <2>1. Shown'
    BY <1>1, <1>2, <1>3 DEF Shown
  <2>2. Resting' <=> Resting
    BY <1>1, <1>3 DEF Resting
  <2>3. Headed'
    BY <1>1, <1>3, <2>2 DEF Headed, Answered
  <2>4. QED BY <2>1, <2>3
<1>4. CASE RenderActive(body)
  <2>1. body # {} /\ dom' = [dom EXCEPT !.active = dom.goal]
    BY <1>4 DEF RenderActive
  <2>2. /\ dom'.goal = dom.goal /\ dom'.links = dom.links /\ dom'.active = dom.goal
        /\ dom'.empty = dom.empty
    BY <2>1 DEF Dom
  <2>3. QED BY <1>2, <1>3, <2>1, <2>2 DEF Shown
<1>5. CASE RenderLinks(body)
  <2>1. CASE body = {}
    <3>1. dom' = [dom EXCEPT !.active = 0, !.links = {}, !.empty = TRUE]
      BY <1>5, <2>1 DEF RenderLinks
    <3>2. dom'.goal = dom.goal /\ dom'.links = {} /\ dom'.active = 0
      BY <3>1 DEF Dom
    <3>3. QED BY <1>3, <2>1, <3>2
  <2>2. CASE body # {}
    <3>1. dom' = [dom EXCEPT !.links = body]
      BY <1>5, <2>2 DEF RenderLinks
    <3>2. /\ dom'.goal = dom.goal /\ dom'.links = body /\ dom'.active = dom.active
          /\ dom'.empty = dom.empty
      BY <3>1 DEF Dom
    <3>3. QED BY <1>2, <1>3, <2>2, <3>2 DEF Shown
  <2>3. QED BY <2>1, <2>2
<1>6. QED BY <1>2, <1>4, <1>5 DEF Render

LEMMA ScreenStep ==
    ASSUME Basics, Basics', OnScreen, [Next]_vars
    PROVE  OnScreen'
<1>1. SUFFICES ASSUME (setting.transport = "pager" /\ Steady)'
               PROVE  Shown' /\ Headed'
  BY DEF OnScreen
<1>2. setting' = setting
  BY DEF Next, Discover, OpenFetcher, StartTarget, SendRequest, Fetch, ReadPage,
         FetchFails, FinishTarget, FailTarget, EndTargets, EndDiscovery, Render, Shift,
         Pause, crawlVars, vars
<1>3. setting.transport = "pager" /\ Steady /\ Shown /\ Headed
  BY <1>1, <1>2 DEF Steady, OnScreen
<1>4. Sheets' = Sheets
  BY <1>3, ListingStays, SheetsStay
<1>5. OneTarget
  BY <1>3, OneTargetHolds
<1>6. /\ call \in Call /\ dom \in Dom /\ pager \in Pager /\ crawl \in Crawl
      /\ crawl' \in Crawl /\ call' \in Call
      /\ Loop /\ Asked
  BY DEF Basics, TypeOK
<1>7. ASSUME UNCHANGED <<dom, pager>>
      PROVE  Shown' /\ (Resting' <=> Resting)
  BY <1>3, <1>4, <1>7 DEF Shown, Resting
<1>8. CASE UNCHANGED vars
  <2>1. UNCHANGED <<dom, pager, call, crawl>>
    BY <1>8 DEF vars, fetcher
  <2>2. QED BY <1>3, <1>4, <1>7, <2>1 DEF Headed, Answered
<1>9. CASE Fetch
  <2>1. UNCHANGED crawl /\ crawl.pc = "fetching" /\ call.page = crawl.page
    BY <1>6, <1>9 DEF Fetch, crawlVars, Asked
  <2>2. PagerFetch
    BY <1>3, <1>9 DEF Fetch
  <2>3. QED BY <1>3, <1>4, <1>5, <1>6, <2>1, <2>2, FetchKeepsScreen
<1>10. CASE Render
  BY <1>3, <1>4, <1>5, <1>6, <1>10, RenderKeepsScreen
<1>11. CASE Shift
  BY <1>3, <1>11 DEF Shift, Steady
<1>12. ASSUME crawl'.pc \in {"finish", "error", "close", "over"} \/ (crawl'.pc = "target" /\ crawl'.target # 0),
              UNCHANGED <<dom, pager>>
       PROVE  Shown' /\ Headed'
  BY <1>7, <1>12 DEF Headed, Answered
<1>13. CASE OpenFetcher
  <2>1. UNCHANGED <<dom, pager>> /\ crawl.pc = "open"
    BY <1>13 DEF OpenFetcher, pageVars
  <2>2. crawl'.pc \in {"target", "close"}
    BY <1>6, <1>13 DEF OpenFetcher, Step, Crawl
  <2>3. QED BY <1>3, <1>7, <2>1, <2>2 DEF Headed, Answered
<1>14. CASE StartTarget
  <2>1. UNCHANGED <<dom, pager>> /\ crawl.pc = "target" /\ crawl.target < setting.targets
    BY <1>14 DEF StartTarget, pageVars
  <2>2. crawl.target = 0
    BY <1>5, <2>1 DEF OneTarget
  <2>3. pager.last = 0 /\ dom = Blank
    BY <1>3, <2>1, <2>2 DEF Headed
  <2>4. PICK p \in Nat \ {0} : p = setting.start
    BY <1>5 DEF OneTarget
  <2>5. crawl'.pc = "page" /\ crawl'.page = p
    BY <1>14, <2>4 DEF StartTarget, Step, Start
  <2>6. Resting' /\ crawl'.page > pager'.last
    BY <2>1, <2>3, <2>4, <2>5 DEF Resting, Blank
  <2>7. QED BY <1>7, <2>1, <2>5, <2>6 DEF Headed, Answered
<1>15. CASE SendRequest
  <2>1. UNCHANGED dom /\ crawl.pc = "page" /\ Resting /\ crawl.page > pager.last
    BY <1>3, <1>15 DEF SendRequest, Headed
  <2>2. pager'.last = pager.last /\ pager'.links = pager.links
    BY <1>6, <1>15 DEF SendRequest, Pager
  <2>3. crawl'.pc = "fetching" /\ crawl'.page = crawl.page
    BY <1>6, <1>15 DEF SendRequest, Step, Crawl
  <2>4. call'.pc = "send"
    BY <1>15 DEF SendRequest, NoCall
  <2>5. Shown' /\ Resting'
    BY <1>3, <1>4, <2>1, <2>2 DEF Shown, Resting
  <2>6. QED BY <2>1, <2>2, <2>3, <2>4, <2>5 DEF Headed, Answered
<1>16. CASE ReadPage
  <2>1. UNCHANGED <<dom, pager>> /\ Answered
    BY <1>16 DEF ReadPage, Answered, pageVars
  <2>2. Resting /\ crawl.page >= pager.last
    BY <1>3, <2>1 DEF Headed
  <2>3. CASE crawl' = Raise(crawl) \/ crawl' = Raise(Noted)
    <3>1. crawl'.pc = "error"
      BY <2>3, RaiseEnds DEF Basics
    <3>2. QED BY <1>12, <2>1, <3>1
  <2>4. CASE crawl' = AfterPage(Counted)
    <3>1. Follows(Counted, crawl') /\ Counted.page = crawl.page
      BY <1>6, <2>1, <2>4, AfterPageFollows, CountedKeeps DEF Answered, Basics
    <3>2. CASE crawl'.pc = "page"
      <4>1. crawl'.page = crawl.page + 1
        BY <3>1, <3>2 DEF Follows
      <4>2. crawl'.page > pager'.last
        BY <1>5, <2>1, <2>2, <4>1 DEF OneTarget
      <4>3. QED BY <1>7, <2>1, <2>2, <3>2, <4>2 DEF Headed, Answered
    <3>3. CASE crawl'.pc # "page"
      BY <1>12, <2>1, <3>1, <3>3 DEF Follows
    <3>4. QED BY <3>2, <3>3
  <2>5. QED BY <1>16, <2>3, <2>4 DEF ReadPage, Step
<1>17. CASE FetchFails
  <2>1. UNCHANGED <<dom, pager>>
    BY <1>17 DEF FetchFails, pageVars
  <2>2. crawl'.pc = "error"
    BY <1>6, <1>17 DEF FetchFails, Step, Crawl
  <2>3. QED BY <1>12, <2>1, <2>2
<1>18. CASE FinishTarget \/ FailTarget
  <2>1. UNCHANGED <<dom, pager>> /\ crawl.target = 1
    BY <1>5, <1>18 DEF FinishTarget, FailTarget, pageVars, OneTarget
  <2>2. crawl'.pc \in {"target", "close"} /\ crawl'.target = crawl.target
    BY <1>6, <1>18 DEF FinishTarget, FailTarget, Step, Crawl
  <2>3. QED BY <1>12, <2>1, <2>2
<1>19. CASE EndTargets \/ EndDiscovery
  <2>1. UNCHANGED <<dom, pager>>
    BY <1>19 DEF EndTargets, EndDiscovery, pageVars
  <2>2. crawl'.pc \in {"close", "over"}
    BY <1>6, <1>19 DEF EndTargets, EndDiscovery, Step, Crawl
  <2>3. QED BY <1>12, <2>1, <2>2
<1>20. QED BY <1>8, <1>9, <1>10, <1>11, <1>13, <1>14, <1>15, <1>16, <1>17, <1>18, <1>19
      DEF Next, Discover

-----------------------------------------------------------------------------
(* What was read of a listing that does not change.                        *)

LEMMA ServedHasThePage ==
    ASSUME TypeOK, NEW t \in Targets, NEW n \in Nat
    PROVE  Sheets[t][n] \subseteq Served(t, n)
<1>1. listing[t] \in Seq(Urls) /\ Sheets[t][n] = Slice(t, n)
  BY SheetsAre DEF TypeOK
<1>2. n > PageCount(t) => Slice(t, n) = {}
  BY <1>1, OffTheList
<1>3. QED BY <1>1, <1>2 DEF Served

\* A crawler that read all the pages read all the urls.
LEMMA AllPagesAreAllUrls ==
    ASSUME TypeOK, listing = Listings, NEW t \in Targets, NEW seen,
           \A n \in 1 .. Counts[t] : Sheets[t][n] \subseteq seen
    PROVE  Listed(t) \subseteq seen
<1>1. listing[t] \in Seq(Urls) /\ Counts[t] = PageCount(t) /\ PageCount(t) \in Nat
  BY PageCountIsNat DEF TypeOK, Counts
<1>2. SUFFICES ASSUME NEW i \in DOMAIN listing[t]
               PROVE  listing[t][i] \in seen
  BY DEF Listed
<1>3. PICK n \in 1 .. PageCount(t) : listing[t][i] \in Slice(t, n)
  BY <1>1, <1>2, OnTheList
<1>4. n \in Nat /\ Sheets[t][n] = Slice(t, n)
  BY <1>1, <1>3, SheetsAre
<1>5. QED BY <1>1, <1>3, <1>4

\* A page that was read adds itself to those before it.
LEMMA ReadPageReads ==
    ASSUME Basics, OnScreen, Steady, ReadSoFar, ReadPage
    PROVE  /\ (crawl.pc = "page" => Reading)'
           /\ (crawl.pc = "finish" /\ crawl.reason \in {"detected_last_page", "confirmed_empty"}
                 => Listed(crawl.target) \subseteq crawl.seen)'
<1>1. /\ TypeOK /\ Loop /\ Asked /\ crawl \in Crawl /\ call \in Call /\ Answered
      /\ setting' = setting /\ listing' = listing /\ listing = Listings
      /\ crawl.pc = "fetching"
  BY DEF Basics, TypeOK, ReadPage, Pause, Answered, ReadSoFar
<1>2. PICK t \in Targets : t = crawl.target
  BY <1>1, AtATarget
<1>3. Sheets' = Sheets /\ Counts' = Counts
  BY <1>1, SheetsStay
<1>4. PICK n \in Nat : n = crawl.page
  BY <1>1 DEF Crawl
<1>5. PICK start \in Nat \ {0} : start = setting.start
  BY <1>1, SettingIsTyped DEF Setting
<1>6. PICK count \in Nat : count = Counts[t]
  BY <1>1, PageCountIsNat DEF Counts, TypeOK
<1>7. /\ n >= start /\ crawl.last \in {0, count}
      /\ \A m \in start .. n - 1 : Sheets[t][m] \subseteq crawl.seen
      /\ Sheets[t][n] \subseteq call.body
  BY <1>1, <1>2, <1>4, <1>5, <1>6 DEF ReadSoFar, Reading
<1>8. CASE crawl' = Raise(crawl) \/ crawl' = Raise(Noted)
  <2>1. crawl'.pc = "error"
    BY <1>1, <1>8, RaiseEnds
  <2>2. QED BY <2>1
<1>9. CASE crawl' = AfterPage(Counted)
  <2>1. PICK c : /\ c = Counted /\ Follows(c, crawl')
                 /\ c.target = t /\ c.page = n /\ c.last = crawl.last
                 /\ c.seen = crawl.seen \cup call.body
                 /\ c.empties # 0 => call.body = {}
                 /\ c.empties \in Nat
    BY <1>1, <1>2, <1>4, <1>9, AfterPageFollows, CountedKeeps DEF Crawl
  <2>2. crawl'.target = t /\ crawl'.seen = crawl.seen \cup call.body
    BY <2>1 DEF Follows
  <2>3. PageCount(t) = count /\ PageCount(c.target) = count
    BY <1>6, <2>1 DEF Counts
  <2>4. \A m \in start .. n : Sheets[t][m] \subseteq crawl'.seen
    <3>1. SUFFICES ASSUME NEW m \in start .. n
                   PROVE  Sheets[t][m] \subseteq crawl.seen \cup call.body
      BY <2>2
    <3>2. CASE m = n
      BY <1>7, <3>2
    <3>3. CASE m # n
      BY <1>7, <3>3
    <3>4. QED BY <3>2, <3>3
  <2>5. ASSUME crawl'.pc = "page"
        PROVE  Reading'
    <3>1. crawl'.page = n + 1 /\ crawl'.last \in {0, count}
      BY <1>7, <2>1, <2>3, <2>5 DEF Follows
    <3>2. crawl'.page >= start
      BY <1>7, <3>1
    <3>3. \A m \in start .. crawl'.page - 1 : Sheets[t][m] \subseteq crawl'.seen
      BY <2>4, <3>1
    <3>4. QED BY <1>1, <1>3, <1>5, <1>6, <2>2, <3>1, <3>2, <3>3 DEF Reading
  <2>6. ASSUME crawl'.pc = "finish", crawl'.reason = "detected_last_page"
        PROVE  Listed(t) \subseteq crawl'.seen
    <3>1. setting.start = 1 /\ \E last \in {c.last, 0, PageCount(c.target)} : 1 <= last /\ last <= c.page
      BY <2>1, <2>6 DEF Follows
    <3>2. count <= n /\ start = 1
      BY <1>5, <1>7, <2>1, <2>3, <3>1
    <3>3. \A m \in 1 .. Counts[t] : Sheets[t][m] \subseteq crawl'.seen
      BY <1>6, <2>4, <3>2
    <3>4. QED BY <1>1, <3>3, AllPagesAreAllUrls
  <2>7. ASSUME crawl'.pc = "finish", crawl'.reason = "confirmed_empty"
        PROVE  Listed(t) \subseteq crawl'.seen
    <3>1. setting.start = 1 /\ call.confirmed /\ c.empties >= EmptyStop
      BY <2>1, <2>7 DEF Follows
    <3>2. call.body = {}
      BY <2>1, <3>1, LimitsAre
    <3>3. Sheets[t][n] = {}
      BY <1>7, <3>2
    <3>4. n > count
      <4>1. n \in Nat \ {0} /\ listing[t] \in Seq(Urls)
        BY <1>1, <1>7 DEF TypeOK
      <4>2. Slice(t, n) = {}
        BY <3>3, SheetsAre
      <4>3. QED BY <2>3, <4>1, <4>2, EmptyIsPastTheEnd
    <3>5. \A m \in 1 .. Counts[t] : Sheets[t][m] \subseteq crawl'.seen
      BY <1>5, <1>6, <2>4, <3>1, <3>4
    <3>6. QED BY <1>1, <3>5, AllPagesAreAllUrls
  <2>8. QED BY <2>2, <2>5, <2>6, <2>7
<1>10. QED BY <1>8, <1>9 DEF ReadPage, Step

LEMMA CoverageStep ==
    ASSUME Basics, Basics', OnScreen, OnScreen', Coverage, [Next]_vars
    PROVE  Coverage'
<1>1. SUFFICES ASSUME Steady'
               PROVE  ReadSoFar'
  BY DEF Coverage
<1>2. setting' = setting
  BY DEF Next, Discover, OpenFetcher, StartTarget, SendRequest, Fetch, ReadPage,
         FetchFails, FinishTarget, FailTarget, EndTargets, EndDiscovery, Render, Shift,
         Pause, crawlVars, vars
<1>3. Steady /\ ReadSoFar /\ listing' = listing /\ listing' = Listings
  BY <1>1, <1>2, ListingStays DEF Steady, Coverage, ReadSoFar
<1>4. Sheets' = Sheets /\ Counts' = Counts
  BY <1>3, SheetsStay
<1>5. /\ TypeOK /\ Loop /\ Asked /\ crawl \in Crawl /\ crawl' \in Crawl /\ call \in Call
      /\ SeenIsStored /\ row \in [Targets -> Row]
  BY DEF Basics, TypeOK
<1> DEFINE RowsCovered == \A t \in Targets : row[t].complete => Listed(t) \subseteq stored
           Finished == crawl.pc = "finish" /\ crawl.reason \in {"detected_last_page", "confirmed_empty"}
                         => Listed(crawl.target) \subseteq crawl.seen
           AnswerHasPage == Answered => Sheets[crawl.target][crawl.page] \subseteq call.body
<1>6. RowsCovered /\ Finished /\ AnswerHasPage /\ Reading
  BY <1>3 DEF ReadSoFar
<1>7. ASSUME Reading', AnswerHasPage', Finished', RowsCovered'
      PROVE  ReadSoFar'
  BY <1>3, <1>7 DEF ReadSoFar
<1>8. ASSUME UNCHANGED row, stored \subseteq stored'
      PROVE  RowsCovered'
  BY <1>6, <1>8
<1>9. ASSUME UNCHANGED crawl
      PROVE  Reading' /\ Finished'
  BY <1>2, <1>4, <1>6, <1>9 DEF Reading
<1>10. ASSUME crawl'.pc \in {"target", "error", "close", "over"}
       PROVE  Reading' /\ Finished' /\ AnswerHasPage'
  BY <1>10 DEF Reading, Answered
<1>11. CASE UNCHANGED vars \/ Render
  <2>1. UNCHANGED <<call, row, stored, crawl>>
    BY <1>11 DEF vars, fetcher, Render, RenderActive, RenderLinks, crawlVars
  <2>2. AnswerHasPage'
    BY <1>4, <1>6, <2>1 DEF Answered
  <2>3. QED BY <1>7, <1>8, <1>9, <2>1, <2>2
<1>12. CASE Fetch
  <2>1. UNCHANGED <<row, stored, crawl>> /\ crawl.pc = "fetching" /\ call.page = crawl.page
    BY <1>5, <1>12 DEF Fetch, crawlVars, Asked
  <2>2. PICK t \in Targets : t = crawl.target
    BY <1>5, <2>1, AtATarget
  <2>3. PICK n \in Nat : n = crawl.page
    BY <1>5 DEF Crawl
  <2>4. PICK body : body = Served(t, n)
    OBVIOUS
  <2>5. body \in SUBSET Urls /\ Sheets[t][n] \subseteq body
    BY <1>5, <2>4, ServedIsUrls, ServedHasThePage
  <2>6. browser \in Browser /\ jar \in BOOLEAN /\ Session
    BY DEF Basics, TypeOK
  <2>7. AnswerHasPage'
    <3>1. CASE RequestsFetch(body) \/ BrowserFetch(body)
      <4>1. Fetched(body)
        BY <1>5, <2>5, <2>6, <3>1, RequestsFetchReads, BrowserFetchReads
      <4>2. QED BY <1>4, <2>1, <2>2, <2>3, <2>5, <4>1 DEF Fetched, Answered
    <3>2. CASE setting.transport = "pager"
      <4>1. Headed' /\ OneTarget
        BY <1>1, <1>2, <1>3, <3>2, OneTargetHolds DEF OnScreen
      <4>2. crawl'.target = 1
        BY <2>1, <4>1 DEF OneTarget
      <4>3. QED BY <4>1, <4>2 DEF Headed
    <3>3. QED BY <1>12, <2>1, <2>2, <2>3, <2>4, <3>1, <3>2 DEF Fetch
  <2>8. QED BY <1>7, <1>8, <1>9, <2>1, <2>7
<1>13. CASE Shift
  BY <1>3, <1>13 DEF Shift, Steady
<1>14. CASE OpenFetcher \/ FetchFails \/ EndTargets \/ EndDiscovery
  <2>1. UNCHANGED <<row, stored>>
    BY <1>14 DEF OpenFetcher, FetchFails, EndTargets, EndDiscovery
  <2>2. crawl'.pc \in {"target", "error", "close", "over"}
    BY <1>5, <1>14 DEF OpenFetcher, FetchFails, EndTargets, EndDiscovery, Step, Crawl
  <2>3. QED BY <1>7, <1>8, <1>10, <2>1, <2>2
<1>15. CASE StartTarget
  <2>1. UNCHANGED stored /\ crawl.pc = "target"
    BY <1>15 DEF StartTarget
  <2>2. PICK start \in Nat : start = setting.start
    BY <1>5, SettingIsTyped DEF Setting
  <2>3. crawl'.pc = "page" /\ crawl'.page = start /\ crawl'.last = 0
    BY <1>15, <2>2 DEF StartTarget, Step, Start
  <2>4. Reading'
    BY <1>2, <2>2, <2>3 DEF Reading
  <2>5. Finished' /\ AnswerHasPage'
    BY <2>3 DEF Answered
  <2>6. RowsCovered'
    <3>1. PICK u : row' = [row EXCEPT ![u].status = "running"]
      BY <1>15 DEF StartTarget
    <3>2. \A t \in Targets : row'[t].complete = row[t].complete
      BY <1>5, <3>1 DEF Row
    <3>3. QED BY <1>6, <2>1, <3>2
  <2>7. QED BY <1>7, <2>4, <2>5, <2>6
<1>16. CASE SendRequest
  <2>1. UNCHANGED <<row, stored>> /\ crawl.pc = "page"
    BY <1>16 DEF SendRequest
  <2>2. /\ crawl'.pc = "fetching" /\ crawl'.target = crawl.target /\ crawl'.page = crawl.page
        /\ crawl'.last = crawl.last /\ crawl'.seen = crawl.seen
    BY <1>5, <1>16 DEF SendRequest, Step, Crawl
  <2>3. call'.pc = "send"
    BY <1>16 DEF SendRequest, NoCall
  <2>4. Reading'
    BY <1>2, <1>4, <1>6, <2>1, <2>2 DEF Reading
  <2>5. QED BY <1>7, <1>8, <2>1, <2>2, <2>3, <2>4 DEF Answered
<1>17. CASE ReadPage
  <2>1. UNCHANGED row /\ stored \subseteq stored'
    BY <1>17 DEF ReadPage, StorePage
  <2>2. Finished' /\ (crawl'.pc = "page" => Reading')
    BY <1>3, <1>17, ReadPageReads
  <2>3. crawl'.pc # "fetching"
    <3>1. CASE crawl' = Raise(crawl) \/ crawl' = Raise(Noted)
      BY <1>5, <3>1, RaiseEnds
    <3>2. CASE crawl' = AfterPage(Counted)
      BY <1>5, <1>17, <3>2, AfterPageFollows DEF Follows, ReadPage
    <3>3. QED BY <1>17, <3>1, <3>2 DEF ReadPage, Step
  <2>4. Reading' /\ AnswerHasPage'
    BY <2>2, <2>3 DEF Reading, Answered
  <2>5. QED BY <1>7, <1>8, <2>1, <2>2, <2>4
<1>18. CASE FinishTarget \/ FailTarget
  <2>1. UNCHANGED stored /\ crawl.pc \in {"finish", "error"}
    BY <1>18 DEF FinishTarget, FailTarget
  <2>2. crawl'.pc \in {"target", "close"}
    BY <1>5, <1>18 DEF FinishTarget, FailTarget, Step, Crawl
  <2>3. PICK t \in Targets : t = crawl.target
    BY <1>5, <2>1, AtATarget
  <2>4. PICK r : /\ row' = [row EXCEPT ![t] = r]
                 /\ r.complete => Listed(t) \subseteq stored
    <3>1. CASE FinishTarget
      <4>1. PICK status : status = TargetStatus(crawl)
        OBVIOUS
      <4>2. PICK r : r = [status |-> status, complete |-> IsComplete(crawl, status),
                          reason |-> IF crawl.repeated THEN "repeated_page" ELSE crawl.reason]
        OBVIOUS
      <4>3. row' = [row EXCEPT ![t] = r]
        BY <2>3, <3>1, <4>1, <4>2 DEF FinishTarget
      <4>4. r.complete => Listed(t) \subseteq stored
        BY <1>5, <1>6, <2>3, <3>1, <4>2, NothingLost DEF IsComplete, FinishTarget
      <4>5. QED BY <4>3, <4>4
    <3>2. CASE FailTarget
      <4>1. PICK status : RowFails(status)
        BY <3>2 DEF FailTarget
      <4>2. PICK r : r = [status |-> status, complete |-> FALSE, reason |-> status]
        OBVIOUS
      <4>3. row' = [row EXCEPT ![t] = r] /\ ~r.complete
        BY <2>3, <4>1, <4>2 DEF RowFails
      <4>4. QED BY <4>3
    <3>3. QED BY <1>18, <3>1, <3>2
  <2>5. RowsCovered'
    <3>1. SUFFICES ASSUME NEW u \in Targets, row'[u].complete
                   PROVE  Listed(u) \subseteq stored'
      OBVIOUS
    <3>2. CASE u = t
      BY <1>5, <2>1, <2>4, <3>1, <3>2
    <3>3. CASE u # t
      BY <1>5, <1>6, <2>1, <2>4, <3>1, <3>3
    <3>4. QED BY <3>2, <3>3
  <2>6. QED BY <1>7, <1>10, <2>2, <2>5
<1>19. QED BY <1>11, <1>12, <1>13, <1>14, <1>15, <1>16, <1>17, <1>18 DEF Next, Discover

-----------------------------------------------------------------------------
(* The theorems.                                                           *)

LEMMA InvInit == Init => Inv
<1> SUFFICES ASSUME Init PROVE Inv
  OBVIOUS
<1>1. /\ call = NoCall /\ browser = [state |-> "closed", blocked |-> FALSE, challenged |-> FALSE]
      /\ jar = FALSE /\ dom = Blank /\ pager = [last |-> 0, links |-> {}, reload |-> FALSE]
      /\ setting \in Settings /\ listing = Listings /\ stored = {} /\ crawl = Start
      /\ row = [t \in Targets |-> [status |-> "none", complete |-> FALSE, reason |-> "none"]]
      /\ outcome = "running"
  BY DEF Init, FetcherInit, PagerInit
<1>2. /\ crawl.pc = "open" /\ crawl.target = 0 /\ crawl.exit = "none" /\ crawl.seen = {}
      /\ call.pc = "idle" /\ ~call.confirmed
      /\ dom.goal = 0 /\ dom.active = 0 /\ dom.links = {} /\ dom.empty = FALSE
      /\ pager.last = 0 /\ pager.links = {}
  BY <1>1 DEF Start, NoCall, Blank
<1>3. TypeOK
  <2>1. call \in Call
    BY <1>1, MaxTriesAssumption DEF NoCall, Call
  <2>2. browser \in Browser /\ dom \in Dom /\ pager \in Pager
    BY <1>1 DEF Browser, Blank, Dom, Pager
  <2>3. crawl \in Crawl
    BY <1>1 DEF Start, Crawl, Reason
  <2>4. row \in [Targets -> Row]
    BY <1>1 DEF Row, Reason
  <2>5. QED BY <1>1, <2>1, <2>2, <2>3, <2>4, ListingsAssumption DEF TypeOK
<1>4. Loop
  BY <1>1, <1>2, <1>3, SettingIsTyped, LimitsAre DEF Loop, Setting, Targets
<1>5. Rows
  <2>1. \A u \in Targets : /\ row[u].status = "none" /\ ~row[u].complete
                           /\ u \in Nat /\ u > 0
    BY <1>1, LimitsAre DEF Targets
  <2>2. QED BY <1>2, <2>1 DEF Rows, Ended
<1>6. Basics
  BY <1>1, <1>2, <1>3, <1>4, <1>5 DEF Basics, SeenIsStored, Session, Asked
<1>7. OnScreen
  <2>1. SUFFICES ASSUME setting.transport = "pager", Steady
                 PROVE  Shown /\ Headed
    BY DEF OnScreen
  <2>2. Sheets[1][0] = {}
    BY <1>6, <2>1, OneTargetHolds DEF OneTarget
  <2>3. QED BY <1>1, <1>2, <2>2 DEF Shown, Headed, Answered
<1>8. Coverage
  BY <1>1, <1>2 DEF Coverage, ReadSoFar, Reading, Answered
<1>9. QED BY <1>6, <1>7, <1>8 DEF Inv

LEMMA InvStep == Inv /\ [Next]_vars => Inv'
<1>1. Inv /\ [Next]_vars => Basics'
  BY BasicsStep DEF Inv
<1>2. Inv /\ [Next]_vars => OnScreen'
  BY <1>1, ScreenStep DEF Inv
<1>3. Inv /\ [Next]_vars => Coverage'
  BY <1>1, <1>2, CoverageStep DEF Inv
<1>4. QED BY <1>1, <1>2, <1>3 DEF Inv

LEMMA InvHolds == Spec => []Inv
<1>1. QED BY InvInit, InvStep, PTL DEF Spec

\* Every url that was read is stored before the next page is asked for.  Only the page
\* whose own transaction fails is lost, and then the row of its target says so and the
\* run raises (_crawl_listing_request counts the page as seen before it is stored).
THEOREM SeenIsStoredHolds == Spec => []SeenIsStored
<1>1. Inv => SeenIsStored
  BY DEF Inv, Basics
<1>2. QED BY <1>1, InvHolds, PTL

\* No session that met a challenge is kept for the next run, however often the browser
\* was lost and restarted.
THEOREM KeptSessionIsWelcomeHolds == Spec => []KeptSessionIsWelcome
<1>1. Inv => KeptSessionIsWelcome
  BY DEF Inv, Basics, Session, KeptSessionIsWelcome
<1>2. QED BY <1>1, InvHolds, PTL

\* The client-side listing yields the urls of the page that was asked for, however its
\* scripts, clicks, time-outs and reloads interleave.
THEOREM PagerReadsItsPageHolds == Spec => []PagerReadsItsPage
<1>1. Inv => PagerReadsItsPage
  <2>1. SUFFICES ASSUME Inv, setting.transport = "pager", Steady,
                        call.pc = "done", call.kind = "ok"
                 PROVE  call.body = Slice(crawl.target, call.page)
    BY DEF PagerReadsItsPage, Steady
  <2>2. Answered /\ call.page = crawl.page
    BY <2>1 DEF Inv, Basics, Asked, Answered
  <2>3. OneTarget /\ crawl.target = 1
    BY <2>1, <2>2, OneTargetHolds DEF Inv, OneTarget, Answered
  <2>4. call.body = Sheets[1][crawl.page]
    BY <2>1, <2>2 DEF Inv, OnScreen, Headed
  <2>5. QED BY <2>2, <2>3, <2>4, SheetsAre DEF OneTarget
<1>2. QED BY <1>1, InvHolds, PTL

\* A target recorded as completely covered was read to its end: all that its listing
\* holds is in the state store.
THEOREM CompleteSeesAllHolds == Spec => []CompleteSeesAll
<1>1. Inv => CompleteSeesAll
  BY DEF Inv, Coverage, Steady, ReadSoFar, CompleteSeesAll
<1>2. QED BY <1>1, InvHolds, PTL

\* A run is completed only if each of its targets is.
THEOREM CompletedMeansEveryTargetHolds == Spec => []CompletedMeansEveryTarget
<1>1. Inv => CompletedMeansEveryTarget
  <2>1. SUFFICES ASSUME Inv, outcome = "completed", NEW t \in 1 .. setting.targets
                 PROVE  row[t].status = "completed"
    BY DEF CompletedMeansEveryTarget
  <2>2. TypeOK /\ Loop /\ Rows
    BY <2>1 DEF Inv, Basics
  <2>3. crawl.pc = "over" /\ crawl.exit = "none" /\ AllWell /\ Ended
    BY <2>1, <2>2 DEF Loop, RunStatus, AllWell, Ended, TypeOK, Crawl
  <2>4. crawl.target = setting.targets
    BY <2>2, <2>3 DEF Loop
  <2>5. t \in Targets /\ t \in Nat /\ setting.targets \in Nat
    BY <2>2, SettingIsTyped, LimitsAre DEF Setting, Targets
  <2>6. t < crawl.target \/ t = crawl.target
    BY <2>4, <2>5
  <2>7. QED BY <2>2, <2>3, <2>5, <2>6 DEF Rows
<1>2. QED BY <1>1, InvHolds, PTL

\* A block ends discovery: no later target is ever started.
THEOREM BlockEndsDiscoveryHolds == Spec => []BlockEndsDiscovery
<1>1. Inv => BlockEndsDiscovery
  <2>1. SUFFICES ASSUME Inv, NEW t \in Targets, NEW u \in Targets,
                        row[t].status = "blocked", u > t
                 PROVE  row[u].status = "none"
    BY DEF BlockEndsDiscovery
  <2>2. Rows /\ crawl.target \in Nat /\ t \in Nat /\ u \in Nat
    BY LimitsAre, <2>1 DEF Inv, Basics, TypeOK, Crawl, Targets
  <2>3. ~(t < crawl.target)
    BY <2>1, <2>2 DEF Rows
  <2>4. u > crawl.target
    BY <2>1, <2>2, <2>3
  <2>5. QED BY <2>2, <2>4 DEF Rows
<1>2. QED BY <1>1, InvHolds, PTL

\* What is reported of targets and of the run is what happened to them.
THEOREM CoverageIsHonestHolds == Spec => []CoverageIsHonest
<1>1. Inv => TypeOK
  BY DEF Inv, Basics
<1>2. QED BY <1>1, InvHolds, CompleteSeesAllHolds, CompletedMeansEveryTargetHolds,
            BlockEndsDiscoveryHolds, PTL DEF CoverageIsHonest

=============================================================================
