--------------------------- MODULE MCDetailCrawl ---------------------------
(* Finite instances of DetailCrawl for TLC.                                *)
EXTENDS DetailCrawl

CONSTANTS a, b

TwoBodies == {a, b}
OneBody == {a}

\* Lengths that tell the two bodies apart, and lengths that do not.
DistinctSizes == [c \in Contents |-> IF c = a THEN 1 ELSE 2]
EqualSizes == [c \in Contents |-> 1]

=============================================================================
