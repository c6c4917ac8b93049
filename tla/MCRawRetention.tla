--------------------------- MODULE MCRawRetention ---------------------------
(* Finite instances of RawRetention for TLC.                               *)
EXTENDS RawRetention, TLC

CONSTANTS a, b, w1, w2

TwoBodies == {a, b}
EqualSizes == [x \in Contents |-> 1]
TwoWorkers == {w1, w2}

\* A process dies while the parser is released, or while a store fails once; or
\* the bucket or the session fails; or a page returns to an earlier body.
OneOrTwoFaults ==
    {{"killed", "release"}, {"killed", "save_error"}, {"killed", "read_error"},
     {"session_lost"}, {"object_lost"}, {"object_changed"}, {"page_reverts"}}

=============================================================================
