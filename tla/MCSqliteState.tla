--------------------------- MODULE MCSqliteState ---------------------------
(* Finite instances of SqliteState for TLC.                                *)
EXTENDS SqliteState, TLC

CONSTANTS a, b, p, q

TwoBodies == {a, b}
EqualSizes == [x \in Contents |-> 1]
TwoProcs == {p, q}

\* One process at a time in a directory that may lose pages or not, or two at once.
AloneOrTwo ==
    {[crew |-> {x}, lossy |-> y] : x \in TwoProcs, y \in BOOLEAN}
    \cup {[crew |-> TwoProcs, lossy |-> FALSE]}

Alike == Permutations(Procs)

=============================================================================
