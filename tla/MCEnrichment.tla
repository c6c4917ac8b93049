--------------------------- MODULE MCEnrichment ---------------------------
(* Finite instances of Enrichment for TLC.                                 *)
EXTENDS Enrichment, TLC

CONSTANTS a, b, x, y, gemini, groq

TwoPostings == {a, b}
OneContent == {x}
TwoContents == {x, y}
AnyContent == [p \in Postings |-> Contents]
OwnContent == [p \in Postings |-> IF p = a THEN {x} ELSE {y}]
AllRows == Row
OneProvider == {gemini}
TwoProviders == {gemini, groq}
First == <<gemini>>
Both == <<gemini, groq>>

\* y is larger than any budget below.
BySize == [c \in Contents |-> IF c = x THEN 1 ELSE 3]

\* Room for one request a minute, of a pair at most, and two a day, of two rows.
Daily == [p \in Providers |->
            [rpm |-> 1, tpm |-> 2, rpd |-> 2, tpd |-> 2, enforce |-> TRUE, batch |-> 2]]
\* The first provider has a daily budget, the second a minute's only.
Fallback == [p \in Providers |->
               IF p = gemini
                 THEN [rpm |-> 1, tpm |-> 2, rpd |-> 1, tpd |-> 1, enforce |-> TRUE, batch |-> 1]
                 ELSE [rpm |-> 1, tpm |-> 2, rpd |-> 0, tpd |-> 0, enforce |-> FALSE, batch |-> 1]]

PostingsAlike == Permutations(Postings)

=============================================================================
