-------------------------- MODULE MCDiscoveryCrawl --------------------------
(* A finite instance of DiscoveryCrawl for TLC.                            *)
EXTENDS DiscoveryCrawl, TLC

\* Three pages, and a second target that shares a job.
TwoListings == (1 :> <<1, 2, 3, 4, 5>>) @@ (2 :> <<5, 6>>)

Base == [transport |-> "requests", targets |-> 2, strategy |-> "detect_last_page", start |-> 1,
         total |-> 2, limit |-> 4, continue |-> TRUE, announced |-> TRUE, beyond |-> "empty", shifting |-> FALSE]

\* What the configurations of the repository combine, the documented alternatives,
\* and a site that changes or does not say how many pages it has.  The client-side
\* listing has one target, as in its configuration: its fetcher keeps the page it
\* is on from one target to the next.
TheSettings ==
    {[Base EXCEPT !.transport = t, !.continue = x] : t \in {"requests", "browser"}, x \in BOOLEAN}
    \cup {[Base EXCEPT !.shifting = TRUE], [Base EXCEPT !.announced = FALSE],
          [Base EXCEPT !.start = 2], [Base EXCEPT !.limit = 2], [Base EXCEPT !.strategy = "configured"]}
    \cup {[Base EXCEPT !.strategy = "until_empty", !.beyond = b, !.start = s]
             : b \in {"empty", "first"}, s \in {1, 2}}
    \cup {[Base EXCEPT !.transport = "pager", !.targets = 1, !.strategy = "until_empty", !.continue = x]
             : x \in BOOLEAN}

=============================================================================
