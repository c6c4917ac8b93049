------------------------------ MODULE RawShelf ------------------------------
(***************************************************************************)
(* What the acquisition side promises the parser: at any time a job offers *)
(* at most one body to parse, that body passed raw validation for this     *)
(* very job, and it is withdrawn before another one takes its place, so a  *)
(* parser never sees one body turn into another.                           *)
(***************************************************************************)
CONSTANTS Jobs, Contents, None

VARIABLES
    accepted,  \* bodies of each job that passed raw validation
    shelf      \* the body of each job that parse may read, if any

shelfVars == <<accepted, shelf>>

Init ==
    /\ accepted = [j \in Jobs |-> {}]
    /\ shelf = [j \in Jobs |-> None]

Accept(j, c) ==
    /\ shelf[j] = None
    /\ accepted' = [accepted EXCEPT ![j] = @ \cup {c}]
    /\ UNCHANGED shelf

Offer(j, c) ==
    /\ shelf[j] = None
    /\ c \in accepted[j]
    /\ shelf' = [shelf EXCEPT ![j] = c]
    /\ UNCHANGED accepted

Withdraw(j) ==
    /\ shelf[j] # None
    /\ shelf' = [shelf EXCEPT ![j] = None]
    /\ UNCHANGED accepted

Next ==
    \E j \in Jobs :
      \/ \E c \in Contents : Accept(j, c) \/ Offer(j, c)
      \/ Withdraw(j)

Spec == Init /\ [][Next]_shelfVars

=============================================================================
