--------------------------- MODULE MCPublication ---------------------------
(***************************************************************************)
(* Instances of Publication for TLC.                                       *)
(***************************************************************************)
EXTENDS Publication

Still == [runner |-> FALSE, failing |-> FALSE, stopping |-> FALSE, killing |-> FALSE,
          changes |-> 0, manual |-> {}]

\* The settings: syncs that overlap while the local database changes, also of the
\* other modes; a runner whose tasks fail and that is stopped; one that is
\* killed and restarted; one left alone.
MCSettings ==
    {[Still EXCEPT !.failing = TRUE, !.manual = {"apply"}, !.changes = 3],
     [Still EXCEPT !.failing = TRUE, !.manual = Mode, !.changes = 1],
     [Still EXCEPT !.runner = TRUE, !.failing = TRUE, !.stopping = TRUE],
     [Still EXCEPT !.runner = TRUE, !.killing = TRUE],
     [Still EXCEPT !.runner = TRUE, !.changes = 3]}

=============================================================================
