---------------------------- MODULE PageFetcher ----------------------------
(***************************************************************************)
(* One fetch of a page (fetchers.py): the attempt loop of the plain HTTP   *)
(* transport and that of the browser transports, which may lose their      *)
(* browser, restart it, and keep its session for the next run.             *)
(*                                                                         *)
(* Abstractions: an answer is the class of its status and content that the *)
(* code tells apart; a page body is the set of job urls on it; sleeping    *)
(* and time-outs are choices of the environment; the Playwright and the    *)
(* CloakBrowser transports differ only in how the browser is launched.     *)
(***************************************************************************)
EXTENDS Integers, FiniteSets

CONSTANTS
    Urls,      \* job urls
    MaxTries   \* retry.max_attempts

ASSUME MaxTriesAssumption == MaxTries \in Nat \ {0}

VARIABLES
    call,      \* the fetch in progress, or the result of the last one
    browser,   \* the browser of the fetcher
    jar        \* storage_state_path: what the session kept there has met

fetcher == <<call, browser, jar>>

\* "odd" is a status below 400 that is not 2xx; "denied" a page in which
\* detect_block_reason finds a challenge, or a 403.
Answers == {"ok", "odd", "rate_limited", "gone", "denied", "unavailable", "client_error"}

Call == [pc : {"idle", "send", "capture", "timeout", "error", "wait", "collect", "done"},
         page : Nat, try : 0 .. MaxTries,
         kind : {"none", "ok", "http_error", "fetch_error", "blocked", "raised"},
         body : SUBSET Urls, confirmed : BOOLEAN, odd : BOOLEAN]
\* "gone": the browser could not be restarted, and self.page is None.
Browser == [state : {"closed", "up", "broken", "gone"}, blocked : BOOLEAN, challenged : BOOLEAN]

NoCall == [pc |-> "idle", page |-> 0, try |-> 0, kind |-> "none", body |-> {},
           confirmed |-> FALSE, odd |-> FALSE]
NewBrowser == [state |-> "up", blocked |-> FALSE, challenged |-> jar]

FetcherInit ==
    /\ call = NoCall
    /\ browser = [state |-> "closed", blocked |-> FALSE, challenged |-> FALSE]
    /\ jar = FALSE

-----------------------------------------------------------------------------
(* Outcomes.  A definition with a suffix after an underscore is the one    *)
(* below it with a plausible bug; only the mutants in PROJECT.json use it. *)

ShouldRetry_OneMore == call.try <= MaxTries

ShouldRetry == call.try < MaxTries

Retry == call' = [call EXCEPT !.pc = "send", !.try = @ + 1, !.odd = FALSE]
End(kind) == call' = [call EXCEPT !.pc = "done", !.kind = kind]
RetryOrEnd(kind) == IF ShouldRetry THEN Retry ELSE End(kind)
Return(body, confirmed) ==
    call' = [call EXCEPT !.pc = "done", !.kind = "ok", !.body = body, !.confirmed = confirmed]

\* A 429 or 5xx is retried, unless the server asks for too long a cooldown.
Verdicts(answer) ==
    CASE answer \in {"ok", "odd"} -> {"ok"}
      [] answer = "denied" -> {"blocked"}
      [] answer \in {"gone", "client_error"} -> {"http_error"}
      [] ShouldRetry -> {"retry", "blocked"}
      [] answer = "rate_limited" -> {"blocked"}
      [] OTHER -> {"http_error"}

-----------------------------------------------------------------------------
(* The requests transport.                                                 *)

RequestsFetch(body) ==
    /\ call.pc = "send"
    /\ \/ \E answer \in Answers : \E v \in Verdicts(answer) :
            CASE v = "retry" -> Retry
              [] v = "ok" -> call' = [call EXCEPT !.pc = "done", !.kind = "ok", !.body = body,
                                                  !.odd = answer = "odd"]
              [] OTHER -> End(v)
       \/ RetryOrEnd("fetch_error")   \* ConnectionError or Timeout
       \/ End("fetch_error")          \* any other RequestException
    /\ UNCHANGED <<browser, jar>>

-----------------------------------------------------------------------------
(* The browser transports.                                                 *)

\* PlaywrightFetcher.fetch notes that the site blocked the session.
Blocked_Unnoted ==
    /\ End("blocked")
    /\ browser' = [browser EXCEPT !.challenged = TRUE]

Blocked ==
    /\ End("blocked")
    /\ browser' = [browser EXCEPT !.blocked = TRUE, !.challenged = TRUE]

\* An operation on the page times out, fails, or finds the page closed.
Trouble ==
    \/ call' = [call EXCEPT !.pc = "timeout"] /\ UNCHANGED browser
    \/ call' = [call EXCEPT !.pc = "error"] /\ UNCHANGED browser
    \/ /\ call' = [call EXCEPT !.pc = "error"]
       /\ browser' = [browser EXCEPT !.state = "broken"]

Navigate ==
    /\ call.pc = "send" /\ browser.state = "up"
    /\ \/ \E answer \in Answers : \E v \in Verdicts(answer) :
            CASE v = "blocked" -> Blocked
              [] v = "retry" -> Retry /\ UNCHANGED browser
              [] v = "ok" -> /\ call' = [call EXCEPT !.pc = "capture", !.odd = answer = "odd"]
                             /\ UNCHANGED browser
              [] OTHER -> End(v) /\ UNCHANGED browser
       \/ Trouble
    /\ UNCHANGED jar

\* Any call on a page that is closed raises; a fetcher without a page fails on
\* the None it holds.
NoPage ==
    /\ call.pc = "send" /\ browser.state \in {"broken", "gone"}
    /\ IF browser.state = "gone" THEN End("raised") ELSE call' = [call EXCEPT !.pc = "error"]
    /\ UNCHANGED <<browser, jar>>

\* Settling, browser actions and the capture of the content, where a challenge
\* may still show.
Capture(body) ==
    /\ call.pc = "capture"
    /\ \/ Return(body, FALSE) /\ UNCHANGED browser
       \/ Blocked
       \/ Trouble
       \/ End("fetch_error") /\ UNCHANGED browser   \* a browser action raises FetchError
    /\ UNCHANGED jar

BrowserTimeout ==
    /\ call.pc = "timeout"
    /\ RetryOrEnd("fetch_error")
    /\ UNCHANGED <<browser, jar>>

\* A page that is unusable is replaced by restarting the browser.
BrowserError ==
    /\ call.pc = "error"
    /\ IF ShouldRetry /\ browser.state = "broken"
         THEN \/ Retry /\ browser' = [NewBrowser EXCEPT !.blocked = browser.blocked]
              \/ End("fetch_error") /\ browser' = [browser EXCEPT !.state = "gone"]
         ELSE RetryOrEnd("fetch_error") /\ UNCHANGED browser
    /\ UNCHANGED jar

BrowserFetch(body) == Navigate \/ NoPage \/ Capture(body) \/ BrowserTimeout \/ BrowserError

-----------------------------------------------------------------------------

StartBrowser == browser' = NewBrowser /\ UNCHANGED jar

\* The session is kept for the next run unless the site blocked it; a context
\* that is broken cannot be read.
CloseBrowser ==
    /\ jar' = IF browser.state = "up" /\ ~browser.blocked THEN browser.challenged ELSE jar
    /\ browser' = [state |-> "closed", blocked |-> FALSE, challenged |-> FALSE]

=============================================================================
