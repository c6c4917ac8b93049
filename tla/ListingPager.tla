---------------------------- MODULE ListingPager ----------------------------
(***************************************************************************)
(* The VietnamWorks listing (vietnamworks_browser.py): a fetcher that goes *)
(* from page to page by the controls of a client-side application.  The    *)
(* page it reads is rendered by scripts of the site, concurrently: after a *)
(* click the active page number changes before the job links do.           *)
(*                                                                         *)
(* Abstractions: the application shows the links of one page at a time; a  *)
(* covered click and a plain one differ in what follows, not in how the    *)
(* site is asked; the empty result text is shown for a page without jobs.  *)
(***************************************************************************)
EXTENDS PageFetcher

VARIABLES
    dom,     \* what the browser shows, and the page its scripts are heading for
    pager    \* last_page_number, last_links and reload_requested

Dom == [goal : Nat, active : Nat, links : SUBSET Urls, empty : BOOLEAN]
Pager == [last : Nat, links : SUBSET Urls, reload : BOOLEAN]

Blank == [goal |-> 0, active |-> 0, links |-> {}, empty |-> FALSE]

PagerInit ==
    /\ dom = Blank
    /\ pager = [last |-> 0, links |-> {}, reload |-> FALSE]

Active == dom.active

-----------------------------------------------------------------------------
(* The site's scripts.                                                     *)

RenderActive(body) ==
    /\ dom.active # dom.goal /\ body # {}
    /\ dom' = [dom EXCEPT !.active = dom.goal]
    /\ UNCHANGED <<fetcher, pager>>

RenderLinks(body) ==
    /\ dom.goal # 0
    /\ \/ body # {} /\ dom.active = dom.goal /\ dom.links # body
       \/ body = {} /\ ~dom.empty
    /\ dom' = IF body = {} THEN [dom EXCEPT !.active = 0, !.links = {}, !.empty = TRUE]
              ELSE [dom EXCEPT !.links = body]
    /\ UNCHANGED <<fetcher, pager>>

-----------------------------------------------------------------------------
(* The fetcher.                                                            *)

\* A URL is opened: a challenge, an error status, a browser error (which this
\* fetcher does not turn into a FetchError), a time-out or the document.
Goto(reload) ==
    /\ pager' = [pager EXCEPT !.reload = reload]
    /\ \/ Blocked /\ dom' = Blank
       \/ \E kind \in {"fetch_error", "raised"} : End(kind) /\ dom' = Blank /\ UNCHANGED browser
       \/ call' = [call EXCEPT !.pc = "timeout"] /\ dom' = Blank /\ UNCHANGED browser
       \/ /\ call' = [call EXCEPT !.pc = "wait"]
          /\ dom' = [Blank EXCEPT !.goal = call.page]
          /\ UNCHANGED browser

OpenUrl ==
    /\ call.pc = "send" /\ (pager.last = 0 \/ pager.reload)
    /\ Goto(pager.reload)
    /\ UNCHANGED jar

Expected == call.page = pager.last + 1 /\ Active \in {0, pager.last}

\* The active page number decides; the wanted one may already be shown.
ReadControls ==
    /\ call.pc = "send" /\ pager.last # 0 /\ ~pager.reload
    /\ \/ Active = call.page /\ call' = [call EXCEPT !.pc = "wait"]
       \/ Active # call.page /\ ~Expected /\ End("fetch_error")
    /\ UNCHANGED <<browser, jar, dom, pager>>

\* The number or the next button is clicked, covered or not.
ClickControl ==
    /\ call.pc = "send" /\ pager.last # 0 /\ ~pager.reload
    /\ Active # call.page /\ Expected /\ Active # 0
    /\ dom' = [dom EXCEPT !.goal = call.page]
    /\ \/ call' = [call EXCEPT !.pc = "wait"]
       \/ End("raised")
    /\ UNCHANGED <<browser, jar, pager>>

\* Controls that are missing, disabled or covered are no sign of the end: the
\* URL of the page is opened.
ProbeUrl ==
    /\ call.pc = "send" /\ pager.last # 0 /\ ~pager.reload
    /\ Active # call.page /\ Expected
    /\ Goto(TRUE)
    /\ UNCHANGED jar

Fresh_Any == dom.links # {}

\* Links that are not all those of the page before.
Fresh == dom.links # {} /\ (pager.links # {} => ~(dom.links \subseteq pager.links))

\* The empty result text ends the listing; last_page_number stays.
WaitResult ==
    /\ call.pc = "wait"
    /\ \/ /\ dom.empty
          /\ \/ Return({}, TRUE) /\ UNCHANGED browser
             \/ Blocked
       \/ /\ Active = call.page /\ Fresh
          /\ call' = [call EXCEPT !.pc = "collect"] /\ UNCHANGED browser
       \/ call' = [call EXCEPT !.pc = "timeout"] /\ UNCHANGED browser
       \/ End("raised") /\ UNCHANGED browser
    /\ UNCHANGED <<jar, dom, pager>>

CollectLinks ==
    /\ call.pc = "collect"
    /\ \/ /\ Fresh
          /\ Return(dom.links, FALSE)
          /\ pager' = [pager EXCEPT !.last = call.page, !.links = dom.links]
          /\ UNCHANGED browser
       \/ ~Fresh /\ End("fetch_error") /\ UNCHANGED <<browser, pager>>
       \/ Blocked /\ UNCHANGED pager
       \/ \E kind \in {"fetch_error", "raised"} : End(kind) /\ UNCHANGED <<browser, pager>>
       \/ call' = [call EXCEPT !.pc = "timeout"] /\ UNCHANGED <<browser, pager>>
    /\ UNCHANGED <<jar, dom>>

PagerTimeout ==
    /\ call.pc = "timeout"
    /\ RetryOrEnd("fetch_error")
    /\ UNCHANGED <<browser, jar, dom, pager>>

PagerFetch ==
    \/ OpenUrl \/ ReadControls \/ ClickControl \/ ProbeUrl
    \/ WaitResult \/ CollectLinks \/ PagerTimeout

=============================================================================
