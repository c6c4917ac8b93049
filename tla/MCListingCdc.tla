--------------------------- MODULE MCListingCdc ---------------------------
(* Finite instances of ListingCdc for TLC.                                 *)
EXTENDS ListingCdc, TLC

CONSTANTS p, q, j, k, t1, t2, wide, narrow

OneRunner == {p}
TwoRunners == {p, q}
TwoJobs == {j, k}
OneTarget == {t1}
TwoTargets == {t1, t2}
OneScope == {wide}
TwoScopes == {wide, narrow}

\* Every target is in the wide scope; the narrow one has one target left.
WideAndNarrow == [s \in Scopes |-> IF s = wide THEN Targets ELSE {t1}]

\* BOUND: a third run starts only where every run so far is of the narrow scope, which
\* keeps runs that change the scope to two.
LongIsNarrow ==
    runs[MaxRuns].status # "none" =>
        /\ \A r \in RunId : runs[r].scope # wide /\ cover[r][t2].status = "none"
        /\ \A x \in Runners : rid[x] # 0 => conf[x].scope = narrow

\* Nothing tells two jobs apart, or two processes.
JobsAlike == Permutations(Jobs)
AllAlike == JobsAlike \cup Permutations(Runners)

=============================================================================
