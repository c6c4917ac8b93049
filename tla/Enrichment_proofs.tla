-------------------------- MODULE Enrichment_proofs --------------------------
(***************************************************************************)
(* Proofs about Enrichment, for any postings, contents, providers, limits  *)
(* and number of requests.                                                 *)
(*                                                                         *)
(* Three transactions write what the invariant says of queue and ledger:   *)
(* Recover, Reserve and Finish.  All other steps keep it: LedgerKept,      *)
(* RowsKept and WindowsKept say what they leave alone, the lemmas named    *)
(* Keeps... what follows.                                                  *)
(*                                                                         *)
(* Token quotas are about sums over sets, folds of the library: what they  *)
(* compute is proved first, from their recursion.                          *)
(***************************************************************************)
EXTENDS Enrichment, FiniteSetTheorems, TLAPS

-----------------------------------------------------------------------------
(* Sums over finite sets.  The library's sum is a fold, and folds by         *)
(* recursion over the subsets; an induction over finite sets is the choice   *)
(* of a smallest counterexample here.                                        *)

\* Among the subsets of a finite set that have a property there is a smallest one.
LEMMA SmallestSubset ==
  ASSUME NEW S, IsFiniteSet(S), NEW B \in SUBSET (SUBSET S), B # {}
  PROVE  \E T \in B : \A U \in B : U \subseteq T => U = T
<1>1. FiniteSubsetsOf(S) = SUBSET S
  BY FS_FiniteSubsetsOfFinite
<1>2. IsWellFoundedOn(StrictSubsetOrdering(S), SUBSET S)
  BY <1>1, FS_StrictSubsetOrderingWellFounded
<1>3. PICK T \in B : \A U \in B : <<U, T>> \notin StrictSubsetOrdering(S)
  BY <1>2, WFMin
<1>4. ASSUME NEW U \in B, U \subseteq T PROVE U = T
  BY <1>3, <1>4 DEF StrictSubsetOrdering
<1>5. QED BY <1>4

\* The recursion of a sum over the subsets of S, and a function that satisfies it.
Pick(T) == CHOOSE x \in T : TRUE

FoldsOver(g, f, S) ==
  g = [T \in SUBSET S |-> IF T = {} THEN 0 ELSE f[Pick(T)] + g[T \ {Pick(T)}]]

LEMMA PickIsIn ==
  ASSUME NEW T, T # {}
  PROVE  Pick(T) \in T
BY DEF Pick

LEMMA SumUnfolds ==
  ASSUME NEW S, NEW f
  PROVE  SumFunctionOnSet(f, S) = (CHOOSE g : FoldsOver(g, f, S))[S]
BY DEF SumFunctionOnSet, FoldFunctionOnSet, MapThenFoldSet, Pick, FoldsOver

\* The recursion has a solution on the subsets of up to n elements, for every n.
Small(S, n) == {T \in SUBSET S : Cardinality(T) <= n}

FoldsUpTo(g, f, S, n) ==
  /\ g \in [Small(S, n) -> Int]
  /\ \A T \in Small(S, n) : g[T] = IF T = {} THEN 0 ELSE f[Pick(T)] + g[T \ {Pick(T)}]

LEMMA SmallerByOne ==
  ASSUME NEW S, IsFiniteSet(S), NEW n \in Nat, NEW T \in Small(S, n), T # {}
  PROVE  n > 0 /\ T \ {Pick(T)} \in Small(S, n - 1)
<1>1. IsFiniteSet(T) /\ Cardinality(T) <= n
  BY FS_Subset DEF Small
<1>2. Cardinality(T) \in Nat /\ Cardinality(T) # 0
  BY <1>1, FS_CardinalityType, FS_EmptySet
<1>3. Cardinality(T \ {Pick(T)}) = Cardinality(T) - 1
  BY <1>1, FS_RemoveElement, PickIsIn
<1>4. QED BY <1>1, <1>2, <1>3 DEF Small

LEMMA FoldExtends ==
  ASSUME NEW S, IsFiniteSet(S), NEW f \in [S -> Int], NEW n \in Nat, n > 0,
         NEW g, FoldsUpTo(g, f, S, n - 1)
  PROVE  \E h : FoldsUpTo(h, f, S, n)
<1> DEFINE h == [T \in Small(S, n) |->
                   IF T = {} THEN 0 ELSE f[Pick(T)] + g[T \ {Pick(T)}]]
<1>1. ASSUME NEW T \in Small(S, n), T # {}
      PROVE  /\ T \ {Pick(T)} \in Small(S, n - 1) /\ f[Pick(T)] \in Int
             /\ T \ {Pick(T)} \in Small(S, n)
  <2>1. T \ {Pick(T)} \in Small(S, n - 1)
    BY <1>1, SmallerByOne
  <2>2. Pick(T) \in S
    BY <1>1, PickIsIn DEF Small
  <2>3. Cardinality(T \ {Pick(T)}) \in Int
    <3>1. IsFiniteSet(T)
      BY FS_Subset DEF Small
    <3>2. IsFiniteSet(T \ {Pick(T)})
      BY <3>1, FS_RemoveElement
    <3>3. QED BY <3>2, FS_CardinalityType
  <2>4. QED BY <2>1, <2>2, <2>3 DEF Small
<1>2. h \in [Small(S, n) -> Int]
  <2>1. ASSUME NEW T \in Small(S, n)
        PROVE  (IF T = {} THEN 0 ELSE f[Pick(T)] + g[T \ {Pick(T)}]) \in Int
    <3>1. CASE T = {}
      BY <3>1
    <3>2. CASE T # {}
      <4>1. g[T \ {Pick(T)}] \in Int /\ f[Pick(T)] \in Int
        BY <1>1, <3>2 DEF FoldsUpTo
      <4>2. QED BY <3>2, <4>1
    <3>3. QED BY <3>1, <3>2
  <2>2. QED BY <2>1
<1>3. ASSUME NEW T \in Small(S, n - 1), T \in Small(S, n) PROVE h[T] = g[T]
  BY <1>3 DEF FoldsUpTo
<1>4. ASSUME NEW T \in Small(S, n)
      PROVE  h[T] = IF T = {} THEN 0 ELSE f[Pick(T)] + h[T \ {Pick(T)}]
  <2>1. CASE T = {}
    BY <2>1
  <2>2. CASE T # {}
    <3>1. h[T \ {Pick(T)}] = g[T \ {Pick(T)}]
      BY <1>1, <1>3, <2>2
    <3> HIDE DEF h
    <3>2. h[T] = f[Pick(T)] + g[T \ {Pick(T)}]
      BY <2>2 DEF h
    <3>3. QED BY <2>2, <3>1, <3>2
  <2>3. QED BY <2>1, <2>2
<1> HIDE DEF h
<1>5. QED BY <1>2, <1>4 DEF FoldsUpTo

LEMMA FoldExists ==
  ASSUME NEW S, IsFiniteSet(S), NEW f \in [S -> Int]
  PROVE  \E g \in [SUBSET S -> Int] : FoldsOver(g, f, S)
<1> DEFINE B == {n \in Nat : ~\E g : FoldsUpTo(g, f, S, n)}
<1>1. B = {}
  <2> SUFFICES ASSUME B # {} PROVE FALSE
    OBVIOUS
  <2>1. PICK n \in B : \A m \in B : <<m, n>> \notin OpToRel(<, Nat)
    BY NatLessThanWellFounded, WFMin
  <2>2. CASE n = 0
    <3>1. Small(S, 0) = {{}}
      <4>1. \A T \in SUBSET S : Cardinality(T) <= 0 <=> T = {}
        <5> SUFFICES ASSUME NEW T \in SUBSET S PROVE Cardinality(T) <= 0 <=> T = {}
          OBVIOUS
        <5>1. IsFiniteSet(T) /\ Cardinality(T) \in Nat
          BY FS_Subset, FS_CardinalityType
        <5>2. QED BY <5>1, FS_EmptySet
      <4>2. QED BY <4>1 DEF Small
    <3>2. FoldsUpTo([T \in {{}} |-> 0], f, S, 0)
      BY <3>1 DEF FoldsUpTo
    <3>3. QED BY <2>2, <3>2
  <2>3. CASE n # 0
    <3>1. n - 1 \in Nat /\ <<n - 1, n>> \in OpToRel(<, Nat)
      BY <2>3 DEF OpToRel
    <3>2. PICK g : FoldsUpTo(g, f, S, n - 1)
      BY <2>1, <3>1
    <3>3. QED BY <2>3, <3>2, FoldExtends
  <2>4. QED BY <2>2, <2>3
<1>2. Cardinality(S) \in Nat /\ Small(S, Cardinality(S)) = SUBSET S
  BY FS_CardinalityType, FS_Subset DEF Small
<1>3. PICK g : FoldsUpTo(g, f, S, Cardinality(S))
  BY <1>1, <1>2
<1>4. g \in [SUBSET S -> Int] /\ FoldsOver(g, f, S)
  BY <1>2, <1>3 DEF FoldsUpTo, FoldsOver
<1>5. QED BY <1>4

\* The solution on a subset is the solution on the set, restricted.
LEMMA FoldsAgree ==
  ASSUME NEW S, IsFiniteSet(S), NEW V \in SUBSET S, NEW f,
         NEW g, FoldsOver(g, f, S), NEW h, FoldsOver(h, f, V)
  PROVE  \A T \in SUBSET V : g[T] = h[T]
<1> DEFINE B == {T \in SUBSET V : g[T] # h[T]}
<1> SUFFICES ASSUME B # {} PROVE FALSE
  OBVIOUS
<1>1. IsFiniteSet(V) /\ B \in SUBSET (SUBSET V)
  BY FS_Subset
<1> HIDE DEF B
<1>2. PICK T \in B : \A U \in B : U \subseteq T => U = T
  BY <1>1, SmallestSubset
<1> USE DEF B
<1>3. T # {}
  BY <1>2 DEF FoldsOver
<1>4. T \ {Pick(T)} \notin B
  BY <1>2, <1>3, PickIsIn
<1>5. g[T \ {Pick(T)}] = h[T \ {Pick(T)}]
  BY <1>4
<1>6. g[T] = f[Pick(T)] + g[T \ {Pick(T)}]
  BY <1>3 DEF FoldsOver
<1>7. h[T] = f[Pick(T)] + h[T \ {Pick(T)}]
  BY <1>3 DEF FoldsOver
<1>8. QED BY <1>5, <1>6, <1>7

\* What a sum is: nothing over the empty set, and one summand more over any other.
LEMMA SumRecurs ==
  ASSUME NEW S, IsFiniteSet(S), NEW f \in [S -> Int]
  PROVE  \A T \in SUBSET S :
           /\ SumFunctionOnSet(f, T) \in Int
           /\ SumFunctionOnSet(f, T) =
                IF T = {} THEN 0 ELSE f[Pick(T)] + SumFunctionOnSet(f, T \ {Pick(T)})
<1>1. PICK g \in [SUBSET S -> Int] : FoldsOver(g, f, S)
  BY FoldExists
<1>2. ASSUME NEW T \in SUBSET S PROVE SumFunctionOnSet(f, T) = g[T]
  <2> DEFINE h == CHOOSE x : FoldsOver(x, f, T)
             k == [U \in SUBSET T |-> g[U]]
  <2>1. FoldsOver(k, f, T)
    <3>1. ASSUME NEW U \in SUBSET T
          PROVE  k[U] = IF U = {} THEN 0 ELSE f[Pick(U)] + k[U \ {Pick(U)}]
      BY <1>1 DEF FoldsOver
    <3>2. k = [U \in SUBSET T |-> k[U]]
      OBVIOUS
    <3> HIDE DEF k
    <3>3. QED BY <3>1, <3>2 DEF FoldsOver
  <2>2. FoldsOver(h, f, T)
    BY <2>1
  <2> HIDE DEF h
  <2>3. g[T] = h[T]
    BY <1>1, <2>2, FoldsAgree
  <2>4. QED BY <2>3, SumUnfolds DEF h
<1>3. ASSUME NEW T \in SUBSET S
      PROVE  /\ g[T] \in Int
             /\ g[T] = IF T = {} THEN 0 ELSE f[Pick(T)] + g[T \ {Pick(T)}]
  BY <1>1 DEF FoldsOver
<1>4. QED BY <1>2, <1>3

\* What a sum over subsets of S needs from here on: an added element adds its summand.
LEMMA SumAdds ==
  ASSUME NEW S, IsFiniteSet(S), NEW f \in [S -> Int], NEW V \in SUBSET S,
         NEW e \in S \ V
  PROVE  SumFunctionOnSet(f, V \cup {e}) = f[e] + SumFunctionOnSet(f, V)
<1> DEFINE Sum(T) == SumFunctionOnSet(f, T)
           Adds(T) == \A x \in S \ T : Sum(T \cup {x}) = f[x] + Sum(T)
           B == {T \in SUBSET S : ~Adds(T)}
<1>1. \A T \in SUBSET S : Sum(T) \in Int /\ (T # {} => Sum(T) = f[Pick(T)] + Sum(T \ {Pick(T)}))
  BY SumRecurs
<1>2. Sum({}) = 0
  BY SumRecurs
<1> HIDE DEF Sum
<1>3. ASSUME NEW T \in SUBSET S, \A U \in SUBSET S : U \subseteq T /\ U # T => Adds(U)
      PROVE  Adds(T)
  <2> SUFFICES ASSUME NEW x \in S \ T PROVE Sum(T \cup {x}) = f[x] + Sum(T)
    OBVIOUS
  <2> DEFINE P == T \cup {x}
             y == Pick(P)
  <2>1. P \in SUBSET S /\ P # {} /\ y \in P
    BY PickIsIn
  <2>2. Sum(P) = f[y] + Sum(P \ {y})
    BY <1>1, <2>1
  <2>3. CASE y = x
    <3>1. P \ {y} = T
      BY <2>3
    <3> HIDE DEF P, y
    <3>2. QED BY <2>2, <2>3, <3>1 DEF P
  <2>4. CASE y # x
    <3> DEFINE U == T \ {y}
    <3>1. y \in T /\ U \in SUBSET S /\ U \subseteq T /\ U # T
      BY <2>1, <2>4
    <3>2. P \ {y} = U \cup {x} /\ T = U \cup {y} /\ x \in S \ U /\ y \in S \ U
      BY <2>4, <3>1
    <3>3. Adds(U)
      BY <1>3, <3>1
    <3> HIDE DEF U, P, y
    <3>4. Sum(U \cup {x}) = f[x] + Sum(U) /\ Sum(U \cup {y}) = f[y] + Sum(U)
      BY <3>2, <3>3
    <3>5. f[x] \in Int /\ f[y] \in Int /\ Sum(U) \in Int
      BY <1>1, <3>1, <3>2
    <3>6. Sum(P) = f[y] + (f[x] + Sum(U)) /\ Sum(T) = f[y] + Sum(U)
      BY <2>2, <3>2, <3>4
    <3>7. Sum(P) = f[x] + Sum(T)
      BY <3>5, <3>6
    <3>8. QED BY <3>7 DEF P
  <2>5. QED BY <2>3, <2>4
<1>4. B = {}
  <2> SUFFICES ASSUME B # {} PROVE FALSE
    OBVIOUS
  <2>1. B \in SUBSET (SUBSET S)
    OBVIOUS
  <2> HIDE DEF B
  <2>2. PICK T \in B : \A U \in B : U \subseteq T => U = T
    BY <2>1, SmallestSubset
  <2> HIDE DEF Adds
  <2>3. \A U \in SUBSET S : U \subseteq T /\ U # T => Adds(U)
    BY <2>2 DEF B
  <2>4. T \in SUBSET S /\ ~Adds(T)
    BY <2>2 DEF B
  <2>5. QED BY <1>3, <2>3, <2>4
<1>5. Adds(V)
  BY <1>4
<1>6. QED BY <1>5 DEF Sum

LEMMA SumOfNone ==
  ASSUME NEW f
  PROVE  SumFunctionOnSet(f, {}) = 0
<1>1. \E g : FoldsOver(g, f, {})
  <2>1. FoldsOver([T \in SUBSET {} |-> 0], f, {})
    BY DEF FoldsOver
  <2>2. QED BY <2>1
<1> DEFINE h == CHOOSE g : FoldsOver(g, f, {})
<1>2. FoldsOver(h, f, {})
  BY <1>1
<1> HIDE DEF h
<1>3. h[{}] = 0
  BY <1>2 DEF FoldsOver
<1>4. QED BY <1>3, SumUnfolds DEF h

\* A sum of natural numbers is one.
LEMMA SumIsNat ==
  ASSUME NEW S, IsFiniteSet(S), NEW f \in [S -> Nat], NEW V \in SUBSET S
  PROVE  SumFunctionOnSet(f, V) \in Nat
<1> DEFINE Sum(T) == SumFunctionOnSet(f, T)
           B == {T \in SUBSET S : Sum(T) \notin Nat}
<1>0. f \in [S -> Int]
  OBVIOUS
<1>1. \A T \in SUBSET S :
        Sum(T) = IF T = {} THEN 0 ELSE f[Pick(T)] + Sum(T \ {Pick(T)})
  BY <1>0, SumRecurs
<1> HIDE DEF Sum
<1>2. B = {}
  <2> SUFFICES ASSUME B # {} PROVE FALSE
    OBVIOUS
  <2>1. B \in SUBSET (SUBSET S)
    OBVIOUS
  <2> HIDE DEF B
  <2>2. PICK T \in B : \A U \in B : U \subseteq T => U = T
    BY <2>1, SmallestSubset
  <2>3. T \in SUBSET S /\ Sum(T) \notin Nat
    BY <2>2 DEF B
  <2>4. T # {}
    BY <1>1, <2>3
  <2>5. Pick(T) \in T
    BY <2>4, PickIsIn
  <2>6. Sum(T \ {Pick(T)}) \in Nat
    BY <2>2, <2>3, <2>5 DEF B
  <2>7. f[Pick(T)] \in Nat
    BY <2>3, <2>5
  <2>8. QED BY <1>1, <2>3, <2>4, <2>6, <2>7
<1>3. QED BY <1>2 DEF Sum

\* Fewer summands, none larger, make no larger sum.
LEMMA SumIsMonotone ==
  ASSUME NEW S, IsFiniteSet(S), NEW f \in [S -> Nat], NEW g \in [S -> Nat],
         NEW V \in SUBSET S, NEW W \in SUBSET V, \A x \in W : f[x] <= g[x]
  PROVE  SumFunctionOnSet(f, W) <= SumFunctionOnSet(g, V)
<1> DEFINE F(T) == SumFunctionOnSet(f, T)
           G(T) == SumFunctionOnSet(g, T)
           Bounds(T) == F(T \cap W) <= G(T)
           B == {T \in SUBSET S : ~Bounds(T)}
<1>1. \A T \in SUBSET S : F(T) \in Nat /\ G(T) \in Nat
  BY SumIsNat
<1>2. \A T \in SUBSET S : \A e \in S \ T : G(T \cup {e}) = g[e] + G(T)
  <2>1. g \in [S -> Int]
    OBVIOUS
  <2>2. QED BY <2>1, SumAdds
<1>3. \A T \in SUBSET S : \A e \in S \ T : F(T \cup {e}) = f[e] + F(T)
  <2>1. f \in [S -> Int]
    OBVIOUS
  <2>2. QED BY <2>1, SumAdds
<1>4. F({}) = 0 /\ G({}) = 0
  BY SumOfNone
<1> HIDE DEF F, G
<1>5. ASSUME NEW T \in SUBSET S, NEW e \in T, Bounds(T \ {e}) PROVE Bounds(T)
  <2> DEFINE U == T \ {e}
  <2>1. U \in SUBSET S /\ e \in S \ U /\ U \cap W \in SUBSET S /\ e \in S \ (U \cap W)
    OBVIOUS
  <2>2. T = U \cup {e} /\ F(U \cap W) <= G(U)
    BY <1>5
  <2>3. e \in W => T \cap W = (U \cap W) \cup {e} /\ f[e] <= g[e]
    OBVIOUS
  <2>4. e \notin W => T \cap W = U \cap W
    OBVIOUS
  <2> HIDE DEF U
  <2>5. G(T) = g[e] + G(U)
    BY <1>2, <2>1, <2>2
  <2>6. e \in W => F(T \cap W) = f[e] + F(U \cap W)
    BY <1>3, <2>1, <2>3
  <2>7. F(U \cap W) \in Nat /\ G(U) \in Nat /\ f[e] \in Nat /\ g[e] \in Nat
    BY <1>1, <2>1
  <2>8. CASE e \in W
    BY <2>2, <2>3, <2>5, <2>6, <2>7, <2>8
  <2>9. CASE e \notin W
    <3>1. F(T \cap W) = F(U \cap W)
      BY <2>4, <2>9
    <3>2. QED BY <2>2, <2>5, <2>7, <3>1
  <2>10. QED BY <2>8, <2>9
<1>6. Bounds({})
  <2>1. {} \cap W = {}
    OBVIOUS
  <2>2. QED BY <1>4, <2>1
<1>7. B = {}
  <2> SUFFICES ASSUME B # {} PROVE FALSE
    OBVIOUS
  <2>1. B \in SUBSET (SUBSET S)
    OBVIOUS
  <2> HIDE DEF B
  <2>2. PICK T \in B : \A U \in B : U \subseteq T => U = T
    BY <2>1, SmallestSubset
  <2> HIDE DEF Bounds
  <2>3. T \in SUBSET S /\ ~Bounds(T)
    BY <2>2 DEF B
  <2>4. PICK e \in T : TRUE
    BY <1>6, <2>3
  <2>5. Bounds(T \ {e})
    BY <2>2, <2>3 DEF B
  <2>6. QED BY <1>5, <2>3, <2>5
<1>8. Bounds(V) /\ V \cap W = W
  BY <1>7
<1>9. QED BY <1>8 DEF F, G

\* The estimate of a group is a number.
LEMMA EstimateIsNat ==
  ASSUME NEW S \in SUBSET Row
  PROVE  Estimate(S) \in Nat
<1>1. ASSUME NEW r \in Row PROVE Cost[r[2]] \in Nat
  BY QueueAssumption DEF Row
<1>2. Size \in [Row -> Nat]
  BY <1>1 DEF Size
<1>3. QED BY <1>2, SumIsNat, QueueAssumption DEF Estimate

-----------------------------------------------------------------------------
(* The inductive invariant.                                                *)

\* Requests are numbered as they are made, an unused one has no members, what is in
\* progress is in the last request of its row, and only first requests are shared.
LedgerHolds ==
  \A i \in RequestId, r \in Row :
    /\ request[i].status = "none" =>
         request[i].member[r] = None /\ \A n \in RequestId : n > i => request[n].status = "none"
    /\ request[i].member[r] = "processing" =>
         request[i].status = "processing" /\ \A n \in RequestId : n > i => request[n].member[r] = None
    /\ \A q \in Row : r # q /\ request[i].member[r] # None /\ request[i].member[q] # None =>
         \A n \in RequestId : n < i => request[n].member[r] = None

Asked(r) == {i \in RequestId : request[i].member[r] # None}

InProgress(r) == \E i \in RequestId : request[i].status = "processing"
                                      /\ request[i].member[r] = "processing"

LastInterrupted(r) ==
  \E i \in RequestId : /\ request[i].member[r] = "interrupted"
                       /\ \A n \in RequestId : n > i => request[n].member[r] = None

\* LedgerAgrees and AttemptBudget; a result is of the ledger.
RowsHold ==
  \A r \in Row :
    /\ row[r].attempts = Cardinality(Asked(r)) /\ row[r].attempts <= MaxAttempts
    /\ row[r].status = "processing" <=> InProgress(r)
    /\ row[r].status = "succeeded" =>
         row[r].result \in RequestId /\ request[row[r].result].member[r] = "succeeded"
    /\ row[r].status = "retry_wait" /\ row[r].attempts = MaxAttempts => LastInterrupted(r)

Choosing == {"group", "reserve"}
Asking == {"call", "block", "finish"}

\* What the worker remembers of the rows it selected and of the request that is out.
WorkerHolds ==
  /\ pc \in Choosing => head \in Row /\ turn \in DOMAIN Order /\ row[head].attempts = tried
  /\ pc = "reserve" => /\ head \in group
                       /\ \A r \in group : r # head => tried = 0 /\ row[r].attempts = 0
  /\ pc \in Asking =>
       /\ cur \in RequestId /\ request[cur].status = "processing" /\ group # {}
       /\ \A r \in Row : request[cur].member[r] = IF r \in group THEN "processing" ELSE None
       /\ \A r \in group : row[r].status = "processing" /\ row[r].attempts = tried + 1

Inv == TypeOK /\ LedgerHolds /\ RowsHold /\ WorkerHolds /\ RequestQuota

-----------------------------------------------------------------------------
(* What most steps leave alone.                                            *)

LedgerKept ==
  \A i \in RequestId :
    request'[i].status = request[i].status /\ request'[i].member = request[i].member

\* A row that is not in progress may become ready or be given up.
RowsKept ==
  \A r \in Row :
    /\ row'[r].attempts = row[r].attempts /\ row'[r].result = row[r].result
    /\ \/ row'[r].status = row[r].status
       \/ row[r].status \notin {"processing", "succeeded"} /\ row'[r].status \in {"pending", "failed"}

\* Requests are not moved to another provider, nor made younger.
WindowsKept ==
  \A i \in RequestId :
    /\ request'[i].status # "none" => request[i].status # "none"
    /\ request'[i].provider = request[i].provider
    /\ request'[i].age >= request[i].age

LEMMA KeepsLedger ==
  ASSUME LedgerHolds, LedgerKept
  PROVE  LedgerHolds'
BY DEF LedgerHolds, LedgerKept

LEMMA KeepsRows ==
  ASSUME RowsHold, LedgerKept, RowsKept
  PROVE  RowsHold'
<1> SUFFICES ASSUME NEW r \in Row
             PROVE  /\ row'[r].attempts = Cardinality(Asked(r)') /\ row'[r].attempts <= MaxAttempts
                    /\ row'[r].status = "processing" <=> InProgress(r)'
                    /\ row'[r].status = "succeeded" =>
                         row'[r].result \in RequestId
                         /\ request'[row'[r].result].member[r] = "succeeded"
                    /\ row'[r].status = "retry_wait" /\ row'[r].attempts = MaxAttempts
                         => LastInterrupted(r)'
  BY DEF RowsHold
<1>1. Asked(r)' = Asked(r)
  BY DEF Asked, LedgerKept
<1>2. InProgress(r)' <=> InProgress(r)
  BY DEF InProgress, LedgerKept
<1>3. LastInterrupted(r) => LastInterrupted(r)'
  BY DEF LastInterrupted, LedgerKept
<1>4. /\ row'[r].attempts = row[r].attempts /\ row'[r].result = row[r].result
      /\ \/ row'[r].status = row[r].status
         \/ row[r].status \notin {"processing", "succeeded"}
            /\ row'[r].status \in {"pending", "failed"}
  BY DEF RowsKept
<1>5. /\ row[r].attempts = Cardinality(Asked(r)) /\ row[r].attempts <= MaxAttempts
      /\ row[r].status = "processing" <=> InProgress(r)
      /\ row[r].status = "succeeded" =>
           row[r].result \in RequestId /\ request[row[r].result].member[r] = "succeeded"
      /\ row[r].status = "retry_wait" /\ row[r].attempts = MaxAttempts => LastInterrupted(r)
  BY DEF RowsHold
<1>6. row'[r].status = "succeeded" =>
        row'[r].result \in RequestId /\ request'[row'[r].result].member[r] = "succeeded"
  BY <1>4, <1>5 DEF LedgerKept
<1>7. QED BY <1>1, <1>2, <1>3, <1>4, <1>5, <1>6

LEMMA WindowIsFinite ==
  ASSUME NEW p, NEW length
  PROVE  IsFiniteSet(Window(p, length))
<1>1. IsFiniteSet(RequestId)
  BY FS_Interval, QueueAssumption DEF RequestId
<1>2. QED BY <1>1, FS_Subset DEF Window

LEMMA FinitePrimed ==
  ASSUME NEW p, NEW length
  PROVE  IsFiniteSet(Window(p, length)')
<1>1. IsFiniteSet(RequestId)
  BY FS_Interval, QueueAssumption DEF RequestId
<1>2. QED BY <1>1, FS_Subset DEF Window

LEMMA WindowShrinks ==
  ASSUME TypeOK, TypeOK', WindowsKept, NEW p \in Providers, NEW length \in Nat
  PROVE  Cardinality(Window(p, length)') <= Cardinality(Window(p, length))
<1>1. Window(p, length)' \subseteq Window(p, length)
  BY DEF Window, WindowsKept, TypeOK, QueueOK, RequestRow
<1>2. QED BY <1>1, WindowIsFinite, FS_Subset

LEMMA KeepsQuota ==
  ASSUME TypeOK, TypeOK', RequestQuota, WindowsKept
  PROVE  RequestQuota'
<1> SUFFICES ASSUME NEW p \in Providers
             PROVE  /\ Cardinality(Window(p, Minute)') <= Limit[p].rpm
                    /\ Limit[p].enforce => Cardinality(Window(p, Day)') <= Limit[p].rpd
  BY DEF RequestQuota
<1>1. Cardinality(Window(p, Minute)') <= Cardinality(Window(p, Minute))
  BY WindowShrinks, TimeAssumption
<1>2. Cardinality(Window(p, Day)') <= Cardinality(Window(p, Day))
  BY WindowShrinks, TimeAssumption
<1>3. /\ Cardinality(Window(p, Minute)) <= Limit[p].rpm
      /\ Limit[p].enforce => Cardinality(Window(p, Day)) <= Limit[p].rpd
  BY DEF RequestQuota
<1>4. Cardinality(Window(p, Minute)') \in Nat /\ Cardinality(Window(p, Minute)) \in Nat
      /\ Cardinality(Window(p, Day)) \in Nat /\ Cardinality(Window(p, Day)') \in Nat
  BY WindowIsFinite, FinitePrimed, FS_CardinalityType
<1>5. Limit[p].rpm \in Nat /\ Limit[p].rpd \in Nat
  BY ProviderAssumption
<1>6. QED BY <1>1, <1>2, <1>3, <1>4, <1>5

\* A worker that goes on with what it remembers, or forgets it.
LEMMA KeepsWorker ==
  ASSUME TypeOK, WorkerHolds, LedgerKept, RowsKept,
         pc' \in Choosing => pc' = pc /\ UNCHANGED choice,
         pc' \in Asking => pc \in Asking /\ UNCHANGED <<cur, group, tried>>
  PROVE  WorkerHolds'
<1>0. group \subseteq Row /\ \A r \in Row : row'[r].attempts = row[r].attempts
  BY DEF TypeOK, WorkerOK, RowsKept
<1>1. ASSUME pc' \in Choosing
      PROVE  /\ head' \in Row /\ turn' \in DOMAIN Order /\ row'[head'].attempts = tried'
             /\ pc' = "reserve" => /\ head' \in group'
                                   /\ \A r \in group' : r # head' => tried' = 0 /\ row'[r].attempts = 0
  <2>1. pc' = pc /\ head' = head /\ group' = group /\ tried' = tried /\ turn' = turn
    BY <1>1 DEF choice
  <2>2. /\ head \in Row /\ turn \in DOMAIN Order /\ row[head].attempts = tried
        /\ pc = "reserve" => /\ head \in group
                             /\ \A r \in group : r # head => tried = 0 /\ row[r].attempts = 0
    BY <1>1, <2>1 DEF WorkerHolds
  <2>3. QED BY <1>0, <2>1, <2>2
<1>2. ASSUME pc' \in Asking
      PROVE  /\ cur' \in RequestId /\ request'[cur'].status = "processing" /\ group' # {}
             /\ \A r \in Row : request'[cur'].member[r] = IF r \in group' THEN "processing" ELSE None
             /\ \A r \in group' : row'[r].status = "processing" /\ row'[r].attempts = tried' + 1
  <2>1. pc \in Asking /\ cur' = cur /\ group' = group /\ tried' = tried
    BY <1>2
  <2>2. /\ cur \in RequestId /\ request[cur].status = "processing" /\ group # {}
        /\ \A r \in Row : request[cur].member[r] = IF r \in group THEN "processing" ELSE None
        /\ \A r \in group : row[r].status = "processing" /\ row[r].attempts = tried + 1
    BY <2>1 DEF WorkerHolds
  <2>3. request'[cur].status = request[cur].status /\ request'[cur].member = request[cur].member
    BY <2>2 DEF LedgerKept
  <2>4. \A r \in group : row'[r].status = "processing" /\ row'[r].attempts = tried + 1
    BY <1>0, <2>2 DEF RowsKept
  <2>5. QED BY <2>1, <2>2, <2>3, <2>4
<1>3. pc' = "reserve" => pc' \in Choosing
  BY DEF Choosing
<1>4. QED BY <1>1, <1>2, <1>3 DEF WorkerHolds

\* A step that leaves requests and rows alone.
LEMMA Unwritten ==
  ASSUME Inv, UNCHANGED <<row, request>>, TypeOK',
         pc' \in Choosing => pc' = pc /\ UNCHANGED choice,
         pc' \in Asking => pc \in Asking /\ UNCHANGED <<cur, group, tried>>
  PROVE  Inv'
<1>1. LedgerKept /\ RowsKept
  BY DEF LedgerKept, RowsKept
<1>2. WindowsKept
  BY DEF WindowsKept, Inv, TypeOK, QueueOK, RequestRow
<1>3. QED BY <1>1, <1>2, KeepsLedger, KeepsRows, KeepsQuota, KeepsWorker DEF Inv

-----------------------------------------------------------------------------
(* Steps that write neither requests nor rows.                             *)

USE DEF TypeOK, QueueOK, WorkerOK, run, choice, reply

LEMMA Forgets ==
  ASSUME Inv, Forget, UNCHANGED <<content, row, request, blocked, burnt>>
  PROVE  Inv'
<1>1. TypeOK'
  BY DEF Inv, Forget
<1>2. pc' \notin Choosing \cup Asking
  BY DEF Forget, Choosing, Asking
<1>3. QED BY <1>1, <1>2, Unwritten

LEMMA LockKeeps ==
  ASSUME Inv, NEW phase \in {"enrich", "backfill"}, Lock(phase)
  PROVE  Inv'
<1>1. TypeOK'
  BY QueueAssumption DEF Inv, Lock
<1>2. pc' \notin Choosing \cup Asking
  BY DEF Lock, Choosing, Asking
<1>3. QED BY <1>1, <1>2, Unwritten DEF Lock

LEMMA ChooseKeeps ==
  ASSUME Inv, Choose
  PROVE  Inv'
<1>1. CASE Forget
  BY <1>1, Forgets DEF Choose
<1>2. CASE ~Forget
  <2>1. TypeOK'
    BY <1>2 DEF Inv, Choose
  <2>2. pc' \notin Choosing \cup Asking
    BY <1>2 DEF Choose, Choosing, Asking
  <2>3. QED BY <2>1, <2>2, Unwritten DEF Choose
<1>3. QED BY <1>1, <1>2

LEMMA EndRunKeeps ==
  ASSUME Inv, EndRun
  PROVE  Inv'
BY Forgets DEF EndRun

LEMMA CrashKeeps ==
  ASSUME Inv, Crash
  PROVE  Inv'
BY Forgets DEF Crash

LEMMA WaitKeeps ==
  ASSUME Inv, Wait
  PROVE  Inv'
<1>1. CASE Forget
  BY <1>1, Forgets DEF Wait
<1>2. CASE ~Forget
  <2>0. /\ pc' = "top" /\ fresh' = FALSE /\ head' = None /\ tried' = 0 /\ turn' = 0 /\ group' = {}
        /\ UNCHANGED <<scope, spent, cur, passed, usage, cool, content, row, request, blocked, burnt>>
    BY <1>2 DEF Wait
  <2>1. TypeOK'
    BY <2>0 DEF Inv
  <2>2. pc' \notin Choosing \cup Asking
    BY <2>0 DEF Choosing, Asking
  <2>3. QED BY <2>1, <2>2, Unwritten DEF Wait
<1>3. QED BY <1>1, <1>2

LEMMA CallKeeps ==
  ASSUME Inv, Call
  PROVE  Inv'
<1>1. PICK n \in 0 .. request[cur].charge :
        /\ burnt' = [burnt EXCEPT ![cur] = n]
        /\ \/ (\E d \in Cooldowns \cup {0} : cool' = d) /\ passed' = {} /\ usage' = None
           \/ (\E S \in SUBSET group : passed' = S) /\ usage' \in {n, None} /\ cool' = 0
  BY DEF Call
<1>2. n \in Nat
  OBVIOUS
<1>3. cool' \in Nat /\ passed' \subseteq Row /\ usage' \in Nat \cup {None}
  BY <1>1, <1>2, TimeAssumption DEF Inv
<1>4. burnt' \in [RequestId -> Nat]
  BY <1>1, <1>2 DEF Inv
<1>5. TypeOK'
  BY <1>3, <1>4 DEF Inv, Call
<1>6. pc' \notin Choosing /\ pc \in Asking
  BY DEF Call, Choosing, Asking
<1>7. QED BY <1>5, <1>6, Unwritten DEF Call

LEMMA BlockKeeps ==
  ASSUME Inv, Block
  PROVE  Inv'
<1>1. TypeOK'
  BY DEF Inv, Block
<1>2. pc' \notin Choosing /\ pc \in Asking
  BY DEF Block, Choosing, Asking
<1>3. QED BY <1>1, <1>2, Unwritten DEF Block

LEMMA ChangeContentKeeps ==
  ASSUME Inv, ChangeContent
  PROVE  Inv'
<1>1. PICK p \in Postings : \E c \in ContentsOf[p] \cup {None} : content' = [content EXCEPT ![p] = c]
  BY DEF ChangeContent
<1>2. content' \in CurrentContent
  BY <1>1, QueueAssumption DEF Inv, CurrentContent
<1>3. TypeOK'
  BY <1>2 DEF Inv, ChangeContent
<1>4. QED BY <1>3, Unwritten DEF ChangeContent

LEMMA GroupKeeps ==
  ASSUME Inv, Group
  PROVE  Inv'
<1>1. PICK S \in SUBSET {r \in Row \ {head} : Follower(r)} :
        /\ S # {} => tried = 0
        /\ group' = S \cup {head}
  BY DEF Group
<1>2. pc = "group" /\ pc' = "reserve" /\ UNCHANGED <<content, row, request, blocked, burnt, head, tried,
                                                  turn, scope, spent, fresh, cur, passed, usage, cool>>
  BY DEF Group
<1>3. head \in Row /\ turn \in DOMAIN Order /\ row[head].attempts = tried
  BY <1>2 DEF Inv, WorkerHolds, Choosing
<1>4. TypeOK'
  BY <1>1, <1>2, <1>3 DEF Inv
<1>5. \A r \in S : tried = 0 /\ row[r].attempts = 0
  BY <1>1 DEF Follower
<1>6. WorkerHolds'
  BY <1>1, <1>2, <1>3, <1>5 DEF WorkerHolds, Choosing, Asking
<1>7. LedgerKept /\ RowsKept
  BY <1>2 DEF LedgerKept, RowsKept
<1>8. WindowsKept
  BY <1>2 DEF WindowsKept, Inv, RequestRow
<1>9. QED BY <1>4, <1>6, <1>7, <1>8, KeepsLedger, KeepsRows, KeepsQuota DEF Inv

LEMMA RefusedKeeps ==
  ASSUME Inv, Refused
  PROVE  Inv'
<1>1. /\ pc = "reserve"
      /\ UNCHANGED <<content, row, request, blocked, burnt, head, tried, scope, spent, fresh,
                     cur, passed, usage, cool>>
      /\ \/ \E r \in group \ {head} : group' = group \ {r} /\ pc' = pc /\ turn' = turn
         \/ /\ group' = {} /\ turn' = turn + 1
            /\ pc' = IF turn < Len(Order) THEN "group" ELSE "wait"
  BY DEF Refused
<1>2. /\ head \in Row /\ turn \in DOMAIN Order /\ row[head].attempts = tried /\ head \in group
      /\ \A r \in group : r # head => tried = 0 /\ row[r].attempts = 0
  BY <1>1 DEF Inv, WorkerHolds, Choosing
<1>3. TypeOK'
  BY <1>1 DEF Inv
<1>4. turn < Len(Order) => turn + 1 \in DOMAIN Order
  BY <1>2, ProviderAssumption
<1>5. WorkerHolds'
  BY <1>1, <1>2, <1>4 DEF WorkerHolds, Choosing, Asking
<1>6. LedgerKept /\ RowsKept
  BY <1>1 DEF LedgerKept, RowsKept
<1>7. WindowsKept
  BY <1>1 DEF WindowsKept, Inv, RequestRow
<1>8. QED BY <1>3, <1>5, <1>6, <1>7, KeepsLedger, KeepsRows, KeepsQuota DEF Inv

-----------------------------------------------------------------------------
(* Steps that write rows but no attempts.                                  *)

\* A step of the worker that only readies or gives up waiting rows.
LEMMA Readied ==
  ASSUME Inv, TypeOK', RowsKept, UNCHANGED request,
         pc' \notin Choosing \cup Asking
  PROVE  Inv'
<1>1. LedgerKept
  BY DEF LedgerKept
<1>2. WindowsKept
  BY DEF WindowsKept, Inv, RequestRow
<1>3. QED BY <1>1, <1>2, KeepsLedger, KeepsRows, KeepsQuota, KeepsWorker DEF Inv

LEMMA EnqueueKeeps ==
  ASSUME Inv, Enqueue
  PROVE  Inv'
<1>1. row' = [r \in Row |-> IF Requeued(r) THEN [row[r] EXCEPT !.status = "pending"] ELSE row[r]]
  BY DEF Enqueue
<1>2. row' \in [Row -> QueueRow]
  BY <1>1 DEF Inv, QueueRow, RowStatus
<1>3. TypeOK'
  BY <1>2 DEF Inv, Enqueue
<1>4. RowsKept
  BY <1>1 DEF RowsKept, Requeued, Inv, QueueRow
<1>5. pc' \notin Choosing \cup Asking
  BY DEF Enqueue, Choosing, Asking
<1>6. QED BY <1>3, <1>4, <1>5, Readied DEF Enqueue

Swept == [n \in Row |-> IF Exhausted(n) THEN [row[n] EXCEPT !.status = "failed"] ELSE row[n]]

LEMMA Sweeps ==
  ASSUME Inv
  PROVE  /\ Swept \in [Row -> QueueRow]
         /\ \A r \in Row : /\ Swept[r].attempts = row[r].attempts /\ Swept[r].result = row[r].result
                           /\ \/ Swept[r].status = row[r].status
                              \/ row[r].status \in Waiting /\ Swept[r].status = "failed"
<1>1. Swept \in [Row -> QueueRow]
  BY DEF Swept, Inv, QueueRow, RowStatus
<1>2. QED BY <1>1 DEF Swept, Exhausted, Inv, QueueRow

LEMMA NoJobKeeps ==
  ASSUME Inv, NoJob
  PROVE  Inv'
<1>1. row' = Swept
  BY DEF NoJob, Swept
<1>2. TypeOK'
  BY <1>1, Sweeps DEF Inv, NoJob, Forget
<1>3. RowsKept
  BY <1>1, Sweeps DEF RowsKept, Waiting
<1>4. pc' \notin Choosing \cup Asking
  BY DEF NoJob, Forget, Choosing, Asking
<1>5. QED BY <1>2, <1>3, <1>4, Readied DEF NoJob

LEMMA NextJobKeeps ==
  ASSUME Inv, NextJob
  PROVE  Inv'
<1>1. PICK r \in Row :
        /\ Dispatchable(r)
        /\ \/ /\ row' = [Swept EXCEPT ![r].status = "failed"]
              /\ fresh' = FALSE /\ UNCHANGED <<pc, head, tried, turn>>
           \/ /\ row' = Swept /\ pc' = "group" /\ head' = r /\ tried' = row[r].attempts /\ turn' = 1
              /\ UNCHANGED fresh
  BY DEF NextJob, Swept
<1>2. pc = "top" /\ UNCHANGED <<content, request, blocked, scope, spent, group, reply, burnt>>
  BY DEF NextJob
<1>3. row[r].status \in Waiting /\ row[r].attempts \in Nat
  BY <1>1 DEF Dispatchable, Inv, QueueRow
<1>4. LedgerKept
  BY <1>2 DEF LedgerKept
<1>5. WindowsKept
  BY <1>2 DEF WindowsKept, Inv, RequestRow
<1>6. CASE row' = [Swept EXCEPT ![r].status = "failed"] /\ fresh' = FALSE /\ UNCHANGED <<pc, head, tried, turn>>
  <2>1. row' \in [Row -> QueueRow]
    BY <1>6, Sweeps DEF QueueRow, RowStatus
  <2>2. TypeOK'
    BY <2>1, <1>2, <1>6 DEF Inv
  <2>3. RowsKept
    BY <1>3, <1>6, Sweeps DEF RowsKept, Waiting, QueueRow
  <2>4. pc' \notin Choosing \cup Asking
    BY <1>2, <1>6 DEF Choosing, Asking
  <2>5. QED BY <1>2, <2>2, <2>3, <2>4, Readied
<1>7. CASE row' = Swept /\ pc' = "group" /\ head' = r /\ tried' = row[r].attempts /\ turn' = 1 /\ UNCHANGED fresh
  <2>1. TypeOK'
    BY <1>2, <1>3, <1>7, Sweeps DEF Inv
  <2>2. RowsKept
    BY <1>7, Sweeps DEF RowsKept, Waiting
  <2>3. 1 \in DOMAIN Order
    BY ProviderAssumption
  <2>4. row'[r].attempts = row[r].attempts
    BY <2>2 DEF RowsKept
  <2>5. WorkerHolds'
    BY <1>7, <2>3, <2>4 DEF WorkerHolds, Choosing, Asking
  <2>6. QED BY <1>4, <1>5, <2>1, <2>2, <2>5, KeepsLedger, KeepsRows, KeepsQuota DEF Inv
<1>8. QED BY <1>1, <1>6, <1>7

LEMMA TickKeeps ==
  ASSUME Inv, Tick
  PROVE  Inv'
<1>1. /\ row' = [r \in Row |-> [row[r] EXCEPT !.wait = Sooner(@)]]
      /\ request' = [i \in RequestId |-> Aged(i)]
      /\ burnt' = [i \in RequestId |-> IF request'[i].age = Day THEN 0 ELSE burnt[i]]
      /\ blocked' = [p \in Providers |-> Sooner(blocked[p])]
      /\ UNCHANGED <<content, pc, run, choice, reply>>
  BY DEF Tick
<1>2. row' \in [Row -> QueueRow] /\ RowsKept
  BY <1>1 DEF Inv, QueueRow, Sooner, RowsKept
<1>3. blocked' \in [Providers -> Nat] /\ burnt' \in [RequestId -> Nat]
  BY <1>1 DEF Inv, Sooner
<1>4. ASSUME NEW i \in RequestId
      PROVE  /\ request'[i] \in RequestRow
             /\ request'[i].status = request[i].status /\ request'[i].member = request[i].member
             /\ request'[i].provider = request[i].provider /\ request'[i].age >= request[i].age
  <2>1. request'[i] = Aged(i) /\ request[i] \in RequestRow
    BY <1>1 DEF Inv
  <2>2. Day \in Nat 
    BY TimeAssumption
  <2>3. PICK q : q = request[i]
    OBVIOUS
  <2>4. q.age \in Nat /\ q.age + 1 \in Nat /\ q \in RequestRow
    BY <2>1, <2>3 DEF RequestRow
  <2>5. CASE q.status = "none" \/ q.age = Day
    BY <2>1, <2>3, <2>4, <2>5 DEF Aged
  <2>6. CASE ~(q.status = "none" \/ q.age = Day) /\ q.age + 1 = Day
    <3>1. request'[i] = [q EXCEPT !.age = Day, !.charge = 0]
      BY <2>1, <2>3, <2>6 DEF Aged
    <3>2. q.age <= Day
      BY <2>2, <2>4, <2>6
    <3>3. request'[i] \in RequestRow
      <4>1. PICK z \in Nat : z = 0
        OBVIOUS
      <4>2. request'[i] = [q EXCEPT !.age = Day, !.charge = z]
        BY <3>1, <4>1
      <4>3. QED BY <2>2, <2>4, <4>2 DEF RequestRow
    <3>4. /\ request'[i].status = q.status /\ request'[i].member = q.member
          /\ request'[i].provider = q.provider /\ request'[i].age = Day
      BY <2>4, <3>1 DEF RequestRow
    <3>5. QED BY <2>2, <2>3, <2>4, <3>2, <3>3, <3>4
  <2>7. CASE ~(q.status = "none" \/ q.age = Day) /\ q.age + 1 # Day
    <3>1. request'[i] = [q EXCEPT !.age = q.age + 1]
      BY <2>1, <2>3, <2>7 DEF Aged
    <3>2. QED BY <2>3, <2>4, <2>7, <3>1 DEF RequestRow
  <2>8. QED BY <2>5, <2>6, <2>7
<1>5. request' \in [RequestId -> RequestRow]
  BY <1>1, <1>4
<1>6. TypeOK'
  BY <1>1, <1>2, <1>3, <1>5 DEF Inv
<1>7. LedgerKept /\ WindowsKept
  BY <1>4 DEF LedgerKept, WindowsKept
<1>8. WorkerHolds'
  BY <1>1, <1>2, <1>7, KeepsWorker DEF Inv
<1>9. QED BY <1>2, <1>6, <1>7, <1>8, KeepsLedger, KeepsRows, KeepsQuota DEF Inv

-----------------------------------------------------------------------------
(* Recover: what is in progress was interrupted.                           *)

RowInterrupted(r) ==
  [row[r] EXCEPT !.status = IF Current(r) THEN "retry_wait" ELSE "superseded", !.wait = 0]

RowSuperseded(r) == [row[r] EXCEPT !.status = "superseded"]

RowRecovered(r) ==
  CASE row[r].status = "processing" -> RowInterrupted(r)
    [] row[r].status \in Waiting /\ ~Current(r) -> RowSuperseded(r)
    [] OTHER -> row[r]

LEMMA InterruptedRow ==
  ASSUME Inv, NEW r \in Row
  PROVE  /\ RowInterrupted(r) \in QueueRow
         /\ RowInterrupted(r).attempts = row[r].attempts /\ RowInterrupted(r).result = row[r].result
         /\ RowInterrupted(r).status \in {"retry_wait", "superseded"}
<1>1. PICK s : s = IF Current(r) THEN "retry_wait" ELSE "superseded"
  OBVIOUS
<1>2. PICK q : q = [row[r] EXCEPT !.status = s]
  OBVIOUS
<1>3. RowInterrupted(r) = [q EXCEPT !.wait = 0]
  BY <1>1, <1>2, Zenon DEF RowInterrupted
<1>4. s \in {"retry_wait", "superseded"}
  BY <1>1
<1>5. row[r] \in QueueRow
  BY DEF Inv
<1>6. q \in QueueRow /\ q.status = s /\ q.attempts = row[r].attempts /\ q.result = row[r].result
  BY <1>2, <1>4, <1>5 DEF QueueRow, RowStatus
<1>7. QED BY <1>3, <1>4, <1>6 DEF QueueRow

LEMMA RecoveredRow ==
  ASSUME Inv, NEW r \in Row
  PROVE  /\ RowRecovered(r) \in QueueRow
         /\ RowRecovered(r).attempts = row[r].attempts /\ RowRecovered(r).result = row[r].result
         /\ IF row[r].status = "processing" THEN RowRecovered(r).status \in {"retry_wait", "superseded"}
            ELSE RowRecovered(r).status \in {row[r].status, "superseded"}
         /\ row[r].status = "succeeded" => RowRecovered(r).status = "succeeded"
<1>1. row[r] \in QueueRow
  BY DEF Inv
<1>2. CASE row[r].status = "processing"
  <2>1. ~(row[r].status \in Waiting /\ ~Current(r))
    BY <1>2 DEF Waiting
  <2>2. RowRecovered(r) = RowInterrupted(r)
    BY <1>2, <2>1 DEF RowRecovered
  <2>3. QED BY <1>2, <2>2, InterruptedRow
<1>3. CASE row[r].status # "processing" /\ row[r].status \in Waiting /\ ~Current(r)
  <2>1. RowRecovered(r) = [row[r] EXCEPT !.status = "superseded"]
    BY <1>3 DEF RowRecovered, RowSuperseded
  <2>2. QED BY <1>1, <1>3, <2>1 DEF QueueRow, RowStatus, Waiting
<1>4. CASE row[r].status # "processing" /\ ~(row[r].status \in Waiting /\ ~Current(r))
  <2>1. RowRecovered(r) = row[r]
    BY <1>4 DEF RowRecovered
  <2>2. QED BY <1>1, <1>4, <2>1
<1>5. QED BY <1>2, <1>3, <1>4

LEMMA RecoveredRequest ==
  ASSUME Inv, NEW i \in RequestId
  PROVE  /\ Recovered(i) \in RequestRow
         /\ Recovered(i).status = IF request[i].status = "processing" THEN "interrupted" ELSE request[i].status
         /\ \A r \in Row : Recovered(i).member[r] =
              IF request[i].member[r] = "processing" THEN "interrupted" ELSE request[i].member[r]
         /\ Recovered(i).provider = request[i].provider /\ Recovered(i).age = request[i].age
<1>1. PICK m : m = [r \in Row |-> IF request[i].member[r] = "processing" THEN "interrupted"
                                ELSE request[i].member[r]]
  OBVIOUS
<1>2. PICK s : s = IF request[i].status = "processing" THEN "interrupted" ELSE request[i].status
  OBVIOUS
<1>3. request[i] \in RequestRow
  BY DEF Inv
<1>4. m \in [Row -> MemberStatus \cup {None}] /\ s \in RequestStatus
  BY <1>1, <1>2, <1>3 DEF RequestRow, MemberStatus, RequestStatus
<1>5. PICK q : q = [request[i] EXCEPT !.status = s]
  OBVIOUS
<1>6. q \in RequestRow /\ q.status = s /\ q.member = request[i].member
      /\ q.provider = request[i].provider /\ q.age = request[i].age
  BY <1>3, <1>4, <1>5 DEF RequestRow
<1>7. Recovered(i) = [q EXCEPT !.member = m]
  BY <1>1, <1>2, <1>5, <1>6 DEF Recovered
<1>8. QED BY <1>1, <1>2, <1>4, <1>6, <1>7 DEF RequestRow

LEMMA RecoverKeeps ==
  ASSUME Inv, Recover
  PROVE  Inv'
<1>1. /\ row' = [r \in Row |-> RowRecovered(r)]
      /\ request' = [i \in RequestId |-> Recovered(i)]
      /\ pc' \in {"enqueue", "choose"}
      /\ UNCHANGED <<content, blocked, scope, spent, fresh, head, tried, turn, group,
                     cur, passed, usage, cool, burnt>>
  BY DEF Recover, RowRecovered, RowInterrupted, RowSuperseded
<1>2. \A r \in Row :
        /\ row'[r] \in QueueRow
        /\ row'[r].attempts = row[r].attempts /\ row'[r].result = row[r].result
        /\ IF row[r].status = "processing" THEN row'[r].status \in {"retry_wait", "superseded"}
           ELSE row'[r].status \in {row[r].status, "superseded"}
        /\ row[r].status = "succeeded" => row'[r].status = "succeeded"
  BY <1>1, RecoveredRow
<1>3. \A i \in RequestId :
        /\ request'[i] \in RequestRow
        /\ request'[i].status = IF request[i].status = "processing" THEN "interrupted" ELSE request[i].status
        /\ \A r \in Row : request'[i].member[r] =
             IF request[i].member[r] = "processing" THEN "interrupted" ELSE request[i].member[r]
        /\ request'[i].provider = request[i].provider /\ request'[i].age = request[i].age
  BY <1>1, RecoveredRequest
<1>4. TypeOK'
  <2>1. row' \in [Row -> QueueRow] /\ request' \in [RequestId -> RequestRow]
    BY <1>1, <1>2, <1>3
  <2>2. QED BY <1>1, <2>1 DEF Inv
<1>5. \A i \in RequestId, r \in Row :
        /\ request'[i].member[r] # "processing"
        /\ request'[i].member[r] # None <=> request[i].member[r] # None
        /\ request[i].member[r] \in {"interrupted", "succeeded"} => request'[i].member[r] = request[i].member[r]
        /\ request[i].member[r] = "processing" => request'[i].member[r] = "interrupted"
  BY <1>3, NoneAssumption DEF MemberStatus
<1>6. \A i \in RequestId : request'[i].status = "none" <=> request[i].status = "none"
  BY <1>3
<1>7. LedgerHolds'
  BY <1>5, <1>6 DEF Inv, LedgerHolds
<1>8. RowsHold'
  <2> SUFFICES ASSUME NEW r \in Row
               PROVE  /\ row'[r].attempts = Cardinality(Asked(r)') /\ row'[r].attempts <= MaxAttempts
                      /\ row'[r].status = "processing" <=> InProgress(r)'
                      /\ row'[r].status = "succeeded" =>
                           row'[r].result \in RequestId
                           /\ request'[row'[r].result].member[r] = "succeeded"
                      /\ row'[r].status = "retry_wait" /\ row'[r].attempts = MaxAttempts
                           => LastInterrupted(r)'
    BY DEF RowsHold
  <2>1. /\ row[r].attempts = Cardinality(Asked(r)) /\ row[r].attempts <= MaxAttempts
        /\ row[r].status = "processing" <=> InProgress(r)
        /\ row[r].status = "succeeded" =>
             row[r].result \in RequestId /\ request[row[r].result].member[r] = "succeeded"
        /\ row[r].status = "retry_wait" /\ row[r].attempts = MaxAttempts => LastInterrupted(r)
    BY DEF Inv, RowsHold
  <2>2. Asked(r)' = Asked(r)
    BY <1>5 DEF Asked
  <2>3. row'[r].status # "processing" /\ ~InProgress(r)'
    BY <1>2, <1>5 DEF InProgress
  <2>4. row'[r].status = "succeeded" =>
          row'[r].result \in RequestId /\ request'[row'[r].result].member[r] = "succeeded"
    BY <1>2, <1>5, <2>1
  <2>5. LastInterrupted(r) => LastInterrupted(r)'
    BY <1>5 DEF LastInterrupted
  <2>6. InProgress(r) => LastInterrupted(r)'
    BY <1>5 DEF InProgress, LastInterrupted, Inv, LedgerHolds
  <2>7. row'[r].status = "retry_wait" => row[r].status \in {"retry_wait", "processing"}
    BY <1>2
  <2>8. QED BY <1>2, <2>1, <2>2, <2>3, <2>4, <2>5, <2>6, <2>7
<1>9. WorkerHolds'
  BY <1>1 DEF WorkerHolds, Choosing, Asking
<1>10. WindowsKept
  BY <1>3, <1>6 DEF WindowsKept, Inv, RequestRow
<1>11. QED BY <1>4, <1>7, <1>8, <1>9, <1>10, KeepsQuota DEF Inv

-----------------------------------------------------------------------------
(* Reserve: a request is made of a group.                                  *)

LEMMA AskedIsFinite ==
  ASSUME NEW r \in Row
  PROVE  IsFiniteSet(Asked(r))
<1>1. IsFiniteSet(RequestId)
  BY FS_Interval, QueueAssumption DEF RequestId
<1>2. QED BY <1>1, FS_Subset DEF Asked

LEMMA ReserveKeeps ==
  ASSUME Inv, Reserve
  PROVE  Inv'
<1>1. PICK i \in RequestId :
        /\ request[i].status = "none"
        /\ \A n \in RequestId : n < i => request[n].status # "none"
        /\ request' = [request EXCEPT ![i] =
             [status |-> "processing", provider |-> Order[turn],
              member |-> [r \in Row |-> IF r \in group THEN "processing" ELSE None],
              age |-> 0, charge |-> Estimate(group)]]
        /\ cur' = i
  BY DEF Reserve
<1>2. /\ pc = "reserve" /\ pc' = "call" /\ spent' = spent + 1
      /\ row' = [r \in Row |-> IF r \in group
                   THEN [row[r] EXCEPT !.status = "processing", !.attempts = @ + 1] ELSE row[r]]
      /\ UNCHANGED <<content, blocked, scope, fresh, head, tried, turn, group, passed, usage, cool, burnt>>
  BY DEF Reserve
<1>3. /\ head \in Row /\ turn \in DOMAIN Order /\ row[head].attempts = tried /\ head \in group
      /\ \A r \in group : r # head => tried = 0 /\ row[r].attempts = 0
      /\ group \subseteq Row
  BY <1>2 DEF Inv, WorkerHolds, Choosing
<1>4. Order[turn] \in Providers
  BY <1>3, ProviderAssumption
<1>5. \A r \in group : row[r].status \in Waiting /\ row[r].attempts < MaxAttempts
  BY DEF Reserve, Reservable, Dispatchable
<1>6. \A r \in Row : row[r] \in QueueRow /\ row[r].attempts \in Nat
  BY DEF Inv, QueueRow
<1>7. /\ request'[i].status = "processing" /\ request'[i].provider = Order[turn]
      /\ request'[i].age = 0
      /\ \A r \in Row : request'[i].member[r] = IF r \in group THEN "processing" ELSE None
      /\ \A n \in RequestId : n # i => request'[n] = request[n]
  BY <1>1 DEF Inv
<1>8. ASSUME NEW r \in group
      PROVE  /\ row'[r].status = "processing" /\ row'[r].attempts = row[r].attempts + 1
             /\ row'[r] \in QueueRow
  <2>1. PICK q : q = row[r]
    OBVIOUS
  <2>2. row'[r] = [q EXCEPT !.status = "processing", !.attempts = q.attempts + 1]
    BY <1>2, <1>3, <2>1
  <2>3. q \in QueueRow /\ q.attempts + 1 \in Nat
    BY <1>3, <1>6, <2>1
  <2>4. QED BY <2>1, <2>2, <2>3 DEF QueueRow, RowStatus
<1>9. \A r \in Row \ group : row'[r] = row[r]
  BY <1>2
<1>10. TypeOK'
  <2>1. row' \in [Row -> QueueRow]
    BY <1>2, <1>6, <1>8, <1>9
  <2>2. PICK m : m = [r \in Row |-> IF r \in group THEN "processing" ELSE None]
    OBVIOUS
  <2>3. m \in [Row -> MemberStatus \cup {None}]
    BY <2>2 DEF MemberStatus
  <2>4. Estimate(group) \in Nat
    BY <1>3, EstimateIsNat
  <2>5. [status |-> "processing", provider |-> Order[turn], member |-> m, age |-> 0,
         charge |-> Estimate(group)] \in RequestRow
    BY <1>4, <2>3, <2>4 DEF RequestRow, RequestStatus, MemberStatus
  <2>6. request' \in [RequestId -> RequestRow]
    BY <1>1, <2>2, <2>5 DEF Inv
  <2>7. cur' = i /\ pc' = "call" /\ spent' = spent + 1
        /\ UNCHANGED <<content, blocked, scope, fresh, head, tried, turn, group, passed, usage, cool, burnt>>
    BY <1>1, <1>2
  <2>8. spent + 1 \in Nat
    BY DEF Inv
  <2>9. QED BY <2>1, <2>6, <2>7, <2>8 DEF Inv
<1>11. \A r \in Row : request[i].member[r] = None
  BY <1>1 DEF Inv, LedgerHolds
<1>12. \A n \in RequestId : n > i => request[n].status = "none"
  BY <1>1, <1>3 DEF Inv, LedgerHolds
<1>13. \A n \in RequestId, r \in Row : n > i => request[n].member[r] = None
  BY <1>12 DEF Inv, LedgerHolds
<1>14. \A r \in Row : r \in group => ~InProgress(r)
  BY <1>5 DEF Inv, RowsHold, Waiting
<1>15. \A r \in Row : row[r].attempts = 0 => \A n \in RequestId : request[n].member[r] = None
  <2> SUFFICES ASSUME NEW r \in Row, row[r].attempts = 0 PROVE Asked(r) = {}
    BY DEF Asked
  <2>1. Cardinality(Asked(r)) = 0
    BY DEF Inv, RowsHold
  <2>2. QED BY <2>1, AskedIsFinite, FS_EmptySet
<1>16. \A r, q \in group : r # q => row[r].attempts = 0
  BY <1>3
<1>17. i \in Nat /\ \A n \in RequestId : n \in Nat
  BY QueueAssumption DEF RequestId
<1>18. LedgerHolds'
  <2> SUFFICES ASSUME NEW n \in RequestId, NEW r \in Row
               PROVE  /\ request'[n].status = "none" =>
                           /\ request'[n].member[r] = None
                           /\ \A k \in RequestId : k > n => request'[k].status = "none"
                      /\ request'[n].member[r] = "processing" =>
                           /\ request'[n].status = "processing"
                           /\ \A k \in RequestId : k > n => request'[k].member[r] = None
                      /\ \A q \in Row :
                           r # q /\ request'[n].member[r] # None /\ request'[n].member[q] # None =>
                             \A k \in RequestId : k < n => request'[k].member[r] = None
    BY DEF LedgerHolds
  <2>1. /\ request[n].status = "none" =>
             request[n].member[r] = None /\ \A k \in RequestId : k > n => request[k].status = "none"
        /\ request[n].member[r] = "processing" =>
             request[n].status = "processing" /\ \A k \in RequestId : k > n => request[k].member[r] = None
        /\ \A q \in Row : r # q /\ request[n].member[r] # None /\ request[n].member[q] # None =>
             \A k \in RequestId : k < n => request[k].member[r] = None
    BY DEF Inv, LedgerHolds
  <2>2. request'[n].status = "none" =>
          request'[n].member[r] = None /\ \A k \in RequestId : k > n => request'[k].status = "none"
    BY <1>1, <1>7, <1>17, <2>1
  <2>3. ASSUME request'[n].member[r] = "processing"
        PROVE  request'[n].status = "processing" /\ \A k \in RequestId : k > n => request'[k].member[r] = None
    <3>1. CASE n = i
      BY <1>7, <1>13, <1>17, <3>1
    <3>2. CASE n # i
      <4>1. request[n].member[r] = "processing" /\ request'[n].status = "processing"
        BY <1>7, <2>1, <2>3, <3>2
      <4>2. r \notin group
        BY <1>14, <2>1, <4>1 DEF InProgress
      <4>3. QED BY <1>7, <2>1, <4>1, <4>2
    <3>3. QED BY <3>1, <3>2
  <2>4. ASSUME NEW q \in Row, r # q, request'[n].member[r] # None, request'[n].member[q] # None,
               NEW k \in RequestId, k < n
        PROVE  request'[k].member[r] = None
    <3>1. CASE n = i
      <4>1. r \in group /\ q \in group /\ k # i
        BY <1>7, <1>17, <2>4, <3>1
      <4>2. QED BY <1>7, <1>15, <1>16, <2>4, <4>1
    <3>2. CASE n # i
      <4>1. request[n].member[r] # None /\ request[n].member[q] # None
        BY <1>7, <2>4, <3>2
      <4>2. k # i
        BY <1>13, <2>4, <4>1
      <4>3. QED BY <1>7, <2>1, <2>4, <4>1, <4>2
    <3>3. QED BY <3>1, <3>2
  <2>5. QED BY <2>2, <2>3, <2>4
<1>19. RowsHold'
  <2> SUFFICES ASSUME NEW r \in Row
               PROVE  /\ row'[r].attempts = Cardinality(Asked(r)') /\ row'[r].attempts <= MaxAttempts
                      /\ row'[r].status = "processing" <=> InProgress(r)'
                      /\ row'[r].status = "succeeded" =>
                           row'[r].result \in RequestId
                           /\ request'[row'[r].result].member[r] = "succeeded"
                      /\ row'[r].status = "retry_wait" /\ row'[r].attempts = MaxAttempts
                           => LastInterrupted(r)'
    BY DEF RowsHold
  <2>1. /\ row[r].attempts = Cardinality(Asked(r)) /\ row[r].attempts <= MaxAttempts
        /\ row[r].status = "processing" <=> InProgress(r)
        /\ row[r].status = "succeeded" =>
             row[r].result \in RequestId /\ request[row[r].result].member[r] = "succeeded"
        /\ row[r].status = "retry_wait" /\ row[r].attempts = MaxAttempts => LastInterrupted(r)
    BY DEF Inv, RowsHold
  <2>2. CASE r \in group
    <3>1. Asked(r)' = Asked(r) \cup {i} /\ i \notin Asked(r)
      BY <1>7, <1>11, <2>2, NoneAssumption DEF Asked, MemberStatus
    <3>2. Cardinality(Asked(r)') = Cardinality(Asked(r)) + 1
      BY <3>1, AskedIsFinite, FS_AddElement
    <3>3. row'[r].status = "processing" /\ row'[r].attempts = row[r].attempts + 1
          /\ row'[r].attempts <= MaxAttempts
      BY <1>5, <1>6, <1>8, <2>2, QueueAssumption
    <3>4. InProgress(r)'
      BY <1>7, <2>2 DEF InProgress
    <3>5. QED BY <2>1, <3>2, <3>3, <3>4
  <2>3. CASE r \notin group
    <3>1. Asked(r)' = Asked(r)
      BY <1>7, <1>11, <2>3 DEF Asked
    <3>2. InProgress(r)' <=> InProgress(r)
      BY <1>7, <1>11, <2>3, NoneAssumption DEF InProgress, MemberStatus
    <3>3. LastInterrupted(r) => LastInterrupted(r)'
      BY <1>7, <1>11, <2>3, NoneAssumption DEF LastInterrupted, MemberStatus
    <3>4. \A n \in RequestId : request[n].member[r] = "succeeded" => request'[n].member[r] = "succeeded"
      BY <1>7, <1>11, NoneAssumption DEF MemberStatus
    <3>5. row'[r] = row[r]
      BY <1>9, <2>3
    <3>6. QED BY <2>1, <3>1, <3>2, <3>3, <3>4, <3>5
  <2>4. QED BY <2>2, <2>3
<1>20. WorkerHolds'
  <2>1. \A r \in group : row'[r].attempts = tried + 1
    BY <1>3, <1>8
  <2>2. QED BY <1>1, <1>2, <1>3, <1>7, <1>8, <2>1 DEF WorkerHolds, Choosing, Asking
<1>21. RequestQuota'
  <2> SUFFICES ASSUME NEW p \in Providers
               PROVE  /\ Cardinality(Window(p, Minute)') <= Limit[p].rpm
                      /\ Limit[p].enforce => Cardinality(Window(p, Day)') <= Limit[p].rpd
    BY DEF RequestQuota
  <2>1. /\ Cardinality(Window(p, Minute)) <= Limit[p].rpm
        /\ Limit[p].enforce => Cardinality(Window(p, Day)) <= Limit[p].rpd
    BY DEF Inv, RequestQuota
  <2>2. /\ Cardinality(Window(Order[turn], Minute)) < Limit[Order[turn]].rpm
        /\ Limit[Order[turn]].enforce => Cardinality(Window(Order[turn], Day)) < Limit[Order[turn]].rpd
    BY DEF Reserve, Reservable, WithinDay, WithinMinute
  <2>3. Limit[p].rpm \in Nat /\ Limit[p].rpd \in Nat
    BY ProviderAssumption
  <2>4. ASSUME NEW length
        PROVE  IF p = Order[turn] THEN Cardinality(Window(p, length)') <= Cardinality(Window(p, length)) + 1
               ELSE Window(p, length)' = Window(p, length)
    <3>1. i \notin Window(p, length)
      BY <1>1 DEF Window
    <3>2. CASE p = Order[turn]
      <4>1. Window(p, length)' \subseteq Window(p, length) \cup {i}
        BY <1>7 DEF Window
      <4>2. Cardinality(Window(p, length) \cup {i}) = Cardinality(Window(p, length)) + 1
            /\ IsFiniteSet(Window(p, length) \cup {i})
        BY <3>1, WindowIsFinite, FS_AddElement
      <4>3. QED BY <3>2, <4>1, <4>2, FS_Subset
    <3>3. CASE p # Order[turn]
      BY <1>7, <3>1, <3>3 DEF Window
    <3>4. QED BY <3>2, <3>3
  <2>5. /\ Cardinality(Window(p, Minute)') \in Nat /\ Cardinality(Window(p, Minute)) \in Nat
        /\ Cardinality(Window(p, Day)) \in Nat /\ Cardinality(Window(p, Day)') \in Nat
    BY WindowIsFinite, FinitePrimed, FS_CardinalityType
  <2>6. CASE p = Order[turn]
    <3>1. /\ Cardinality(Window(p, Minute)') <= Cardinality(Window(p, Minute)) + 1
          /\ Cardinality(Window(p, Day)') <= Cardinality(Window(p, Day)) + 1
      BY <2>4, <2>6
    <3>2. QED BY <2>2, <2>3, <2>5, <2>6, <3>1
  <2>7. CASE p # Order[turn]
    <3>1. Window(p, Minute)' = Window(p, Minute) /\ Window(p, Day)' = Window(p, Day)
      BY <2>4, <2>7
    <3>2. QED BY <2>1, <3>1
  <2>8. QED BY <2>6, <2>7
<1>22. QED BY <1>10, <1>18, <1>19, <1>20, <1>21 DEF Inv


-----------------------------------------------------------------------------
(* Finish: the request under way is settled.                               *)

LEMMA VerdictType ==
  ASSUME NEW r
  PROVE  /\ Verdict(r) \in {"succeeded", "failed", "retry_wait"}
         /\ Verdict(r) = "succeeded" => r \in passed
         /\ Verdict(r) = "retry_wait" => ~(tried + 1 >= MaxAttempts)
BY DEF Verdict

LEMMA FinishKeeps ==
  ASSUME Inv, Finish
  PROVE  Inv'
<1>1. PICK s \in RequestStatus :
        /\ IF \E v \in MemberStatus : \A r \in group : Verdict(r) = v
             THEN \A r \in group : s = Verdict(r)
             ELSE s = "partial"
        /\ request' = [request EXCEPT
             ![cur].status = s, ![cur].charge = Settled(@),
             ![cur].member = [r \in Row |-> IF r \in group THEN Verdict(r) ELSE @[r]]]
  BY DEF Finish
<1>2. /\ pc = "finish" /\ pc' = "top" /\ fresh' = FALSE
      /\ row' = [r \in Row |->
           IF r \in group
             THEN [row[r] EXCEPT !.status = Verdict(r),
                                 !.wait = IF Verdict(r) = "retry_wait" THEN RetryDelay ELSE 0,
                                 !.result = IF r \in passed THEN cur ELSE 0]
             ELSE row[r]]
      /\ head' = None /\ tried' = 0 /\ turn' = 0 /\ group' = {}
      /\ cur' = 0 /\ passed' = {} /\ usage' = None /\ cool' = 0
      /\ UNCHANGED <<content, blocked, scope, spent, burnt>>
  BY DEF Finish
<1>3. /\ cur \in RequestId /\ request[cur].status = "processing" /\ group # {}
      /\ \A r \in Row : request[cur].member[r] = IF r \in group THEN "processing" ELSE None
      /\ \A r \in group : row[r].status = "processing" /\ row[r].attempts = tried + 1
  BY <1>2 DEF Inv, WorkerHolds, Asking
<1>4. \A r \in Row : row[r] \in QueueRow /\ row[r].attempts \in Nat
  BY DEF Inv, QueueRow
<1>5. group \subseteq Row /\ tried \in Nat /\ usage \in Nat \cup {None}
  BY DEF Inv
<1>6. s # "none"
  BY <1>1, <1>3, VerdictType
<1>7. request[cur] \in RequestRow
  BY <1>3 DEF Inv
<1>8. /\ request'[cur] \in RequestRow /\ request'[cur].status = s
      /\ request'[cur].provider = request[cur].provider /\ request'[cur].age = request[cur].age
      /\ \A r \in Row : request'[cur].member[r] = IF r \in group THEN Verdict(r) ELSE None
  <2>1. PICK m : m = [r \in Row |-> IF r \in group THEN Verdict(r) ELSE request[cur].member[r]]
    OBVIOUS
  <2>2. PICK c : c = Settled(request[cur].charge)
    OBVIOUS
  <2>3. c \in Nat
    BY <1>5, <1>7, <2>2 DEF Settled, RequestRow
  <2>4. m \in [Row -> MemberStatus \cup {None}]
    BY <1>7, <2>1, VerdictType DEF RequestRow, MemberStatus
  <2>5. PICK q : q = [request[cur] EXCEPT !.status = s, !.charge = c, !.member = m]
    OBVIOUS
  <2>6. request'[cur] = q
    BY <1>1, <1>3, <2>1, <2>2, <2>5 DEF Inv
  <2>7. \A r \in Row : m[r] = IF r \in group THEN Verdict(r) ELSE None
    BY <1>3, <2>1
  <2>8. QED BY <1>7, <2>3, <2>4, <2>5, <2>6, <2>7 DEF RequestRow
<1>9. \A n \in RequestId : n # cur => request'[n] = request[n]
  BY <1>1 DEF Inv
<1>10. ASSUME NEW r \in group
       PROVE  /\ row'[r] \in QueueRow /\ row'[r].status = Verdict(r)
              /\ row'[r].attempts = row[r].attempts
              /\ r \in passed => row'[r].result = cur
  <2>1. PICK w : w = IF Verdict(r) = "retry_wait" THEN RetryDelay ELSE 0
    OBVIOUS
  <2>2. PICK a : a = IF r \in passed THEN cur ELSE 0
    OBVIOUS
  <2>3. PICK v : v = Verdict(r)
    OBVIOUS
  <2>4. PICK q : q = [row[r] EXCEPT !.status = v, !.wait = w, !.result = a]
    OBVIOUS
  <2>5. row'[r] = q
    BY <1>2, <1>5, <2>1, <2>2, <2>3, <2>4, Zenon
  <2>6. v \in RowStatus /\ w \in Nat /\ a \in Nat
    BY <1>3, <2>1, <2>2, <2>3, VerdictType, TimeAssumption, QueueAssumption DEF RowStatus, RequestId
  <2>7. row[r] \in QueueRow
    BY <1>4, <1>5
  <2>8. QED BY <2>2, <2>3, <2>4, <2>5, <2>6, <2>7 DEF QueueRow
<1>11. \A r \in Row \ group : row'[r] = row[r]
  BY <1>2
<1>12. TypeOK'
  <2>1. row' \in [Row -> QueueRow]
    BY <1>2, <1>4, <1>10, <1>11
  <2>2. request' \in [RequestId -> RequestRow]
    <3>1. DOMAIN request' = RequestId /\ request' = [n \in RequestId |-> request'[n]]
      BY <1>1 DEF Inv
    <3>2. \A n \in RequestId : request'[n] \in RequestRow
      BY <1>8, <1>9 DEF Inv
    <3>3. QED BY <3>1, <3>2
  <2>3. QED BY <1>2, <2>1, <2>2 DEF Inv
<1>13. \A n \in RequestId, r \in Row : request'[n].member[r] # None <=> request[n].member[r] # None
  BY <1>3, <1>8, <1>9, VerdictType, NoneAssumption DEF MemberStatus
<1>14. \A r \in Row : request'[cur].member[r] # "processing"
  BY <1>8, VerdictType, NoneAssumption DEF MemberStatus
<1>15. \A n \in RequestId : request'[n].status = "none" <=> request[n].status = "none"
  BY <1>3, <1>6, <1>8, <1>9
<1>16. \A n \in RequestId, r \in Row :
         request'[n].member[r] = "processing" =>
           n # cur /\ request[n].member[r] = "processing" /\ request'[n].status = request[n].status
  BY <1>9, <1>14
<1>17. LedgerHolds'
  BY <1>13, <1>15, <1>16 DEF Inv, LedgerHolds
<1>18. RowsHold'
  <2> SUFFICES ASSUME NEW r \in Row
               PROVE  /\ row'[r].attempts = Cardinality(Asked(r)') /\ row'[r].attempts <= MaxAttempts
                      /\ row'[r].status = "processing" <=> InProgress(r)'
                      /\ row'[r].status = "succeeded" =>
                           row'[r].result \in RequestId
                           /\ request'[row'[r].result].member[r] = "succeeded"
                      /\ row'[r].status = "retry_wait" /\ row'[r].attempts = MaxAttempts
                           => LastInterrupted(r)'
    BY DEF RowsHold
  <2>1. /\ row[r].attempts = Cardinality(Asked(r)) /\ row[r].attempts <= MaxAttempts
        /\ row[r].status = "processing" <=> InProgress(r)
        /\ row[r].status = "succeeded" =>
             row[r].result \in RequestId /\ request[row[r].result].member[r] = "succeeded"
        /\ row[r].status = "retry_wait" /\ row[r].attempts = MaxAttempts => LastInterrupted(r)
    BY DEF Inv, RowsHold
  <2>2. Asked(r)' = Asked(r)
    BY <1>13 DEF Asked
  <2>3. CASE r \in group
    <3>1. row'[r].attempts = row[r].attempts /\ row'[r].status = Verdict(r)
      BY <1>10, <2>3
    <3>2. ~InProgress(r)'
      <4> SUFFICES ASSUME NEW n \in RequestId, request'[n].member[r] = "processing" PROVE FALSE
        BY DEF InProgress
      <4>1. n # cur /\ request[n].member[r] = "processing" /\ request[cur].member[r] = "processing"
        BY <1>3, <1>16, <2>3
      <4>2. ~(n > cur) /\ ~(cur > n)
        BY <1>3, <4>1, NoneAssumption DEF Inv, LedgerHolds, MemberStatus
      <4>3. n \in Nat /\ cur \in Nat
        BY <1>3, QueueAssumption DEF RequestId
      <4>4. QED BY <4>1, <4>2, <4>3
    <3>3. row'[r].status = "succeeded" =>
            row'[r].result \in RequestId /\ request'[row'[r].result].member[r] = "succeeded"
      BY <1>3, <1>8, <1>10, <2>3, <3>1, VerdictType
    <3>4. row'[r].status = "retry_wait" => row'[r].attempts # MaxAttempts
      <4>1. row[r].attempts = tried + 1
        BY <1>3, <2>3
      <4>2. Verdict(r) = "retry_wait" => ~(tried + 1 >= MaxAttempts)
        BY VerdictType
      <4>3. MaxAttempts \in Nat
        BY QueueAssumption
      <4>4. QED BY <1>5, <3>1, <4>1, <4>2, <4>3
    <3>5. row'[r].status # "processing"
      BY <3>1, VerdictType
    <3>6. QED BY <2>1, <2>2, <3>1, <3>2, <3>3, <3>4, <3>5
  <2>4. CASE r \notin group
    <3>1. row'[r] = row[r]
      BY <1>11, <2>4
    <3>2. \A n \in RequestId : request'[n].member[r] = request[n].member[r]
      BY <1>3, <1>8, <1>9, <2>4
    <3>3. InProgress(r)' <=> InProgress(r)
      BY <1>3, <1>9, <2>4, <3>2, NoneAssumption DEF InProgress, MemberStatus
    <3>4. LastInterrupted(r)' <=> LastInterrupted(r)
      BY <3>2 DEF LastInterrupted
    <3>5. QED BY <2>1, <2>2, <3>1, <3>2, <3>3, <3>4
  <2>5. QED BY <2>3, <2>4
<1>19. WorkerHolds'
  BY <1>2 DEF WorkerHolds, Choosing, Asking
<1>20. WindowsKept
  BY <1>8, <1>9, <1>15 DEF WindowsKept, Inv, RequestRow
<1>21. QED BY <1>12, <1>17, <1>18, <1>19, <1>20, KeepsQuota DEF Inv

-----------------------------------------------------------------------------
(* The invariant holds.                                                    *)

LEMMA InitKeeps ==
  ASSUME Init
  PROVE  Inv
<1>1. /\ content \in CurrentContent
      /\ row = [r \in Row |-> [status |-> "none", attempts |-> 0, wait |-> 0, result |-> 0]]
      /\ request = [i \in RequestId |-> Unused]
      /\ blocked = [p \in Providers |-> 0] /\ burnt = [i \in RequestId |-> 0]
      /\ pc = "off" /\ scope = {} /\ spent = 0 /\ fresh = TRUE
      /\ head = None /\ tried = 0 /\ turn = 0 /\ group = {}
      /\ cur = 0 /\ passed = {} /\ usage = None /\ cool = 0
  BY DEF Init
<1>2. TypeOK
  <2>1. Unused \in RequestRow
    BY DEF Unused, RequestRow, RequestStatus
  <2>2. row \in [Row -> QueueRow]
    BY <1>1 DEF QueueRow, RowStatus
  <2>3. WorkerOK
    BY <1>1
  <2>4. QED BY <1>1, <2>1, <2>2, <2>3
<1>3. \A i \in RequestId, r \in Row : request[i].status = "none" /\ request[i].member[r] = None
  BY <1>1 DEF Unused
<1>4. LedgerHolds
  BY <1>3, NoneAssumption DEF LedgerHolds, MemberStatus
<1>5. RowsHold
  <2> SUFFICES ASSUME NEW r \in Row
               PROVE  /\ row[r].attempts = Cardinality(Asked(r)) /\ row[r].attempts <= MaxAttempts
                      /\ row[r].status = "processing" <=> InProgress(r)
                      /\ row[r].status \notin {"succeeded", "retry_wait"}
    BY DEF RowsHold
  <2>1. Asked(r) = {} /\ ~InProgress(r)
    BY <1>3, NoneAssumption DEF Asked, InProgress, MemberStatus
  <2>2. row[r].attempts = 0 /\ row[r].status = "none"
    BY <1>1
  <2>3. 0 <= MaxAttempts
    BY QueueAssumption
  <2>4. QED BY <2>1, <2>2, <2>3, FS_EmptySet
<1>6. WorkerHolds
  BY <1>1 DEF WorkerHolds, Choosing, Asking
<1>7. RequestQuota
  <2> SUFFICES ASSUME NEW p \in Providers
               PROVE  /\ Cardinality(Window(p, Minute)) <= Limit[p].rpm
                      /\ Limit[p].enforce => Cardinality(Window(p, Day)) <= Limit[p].rpd
    BY DEF RequestQuota
  <2>1. Window(p, Minute) = {} /\ Window(p, Day) = {}
    BY <1>1 DEF Window, Unused
  <2>2. Limit[p].rpm \in Nat /\ Limit[p].rpd \in Nat
    BY ProviderAssumption
  <2>3. QED BY <2>1, <2>2, FS_EmptySet
<1>8. QED BY <1>2, <1>4, <1>5, <1>6, <1>7 DEF Inv

LEMMA NextKeeps ==
  ASSUME Inv, [Next]_vars
  PROVE  Inv'
<1>1. CASE UNCHANGED vars
  <2>1. UNCHANGED <<content, row, request, blocked, pc, scope, spent, fresh, head, tried, turn,
                    group, cur, passed, usage, cool, burnt>>
    BY <1>1 DEF vars
  <2>2. TypeOK'
    BY <2>1 DEF Inv
  <2>3. QED BY <2>1, <2>2, Unwritten
<1>2. CASE Worker
  BY <1>2, RecoverKeeps, ChooseKeeps, EnqueueKeeps, NextJobKeeps, NoJobKeeps, EndRunKeeps, GroupKeeps,
     ReserveKeeps, RefusedKeeps, WaitKeeps, CallKeeps, BlockKeeps, FinishKeeps DEF Worker
<1>3. QED BY <1>1, <1>2, LockKeeps, CrashKeeps, ChangeContentKeeps, TickKeeps DEF Next

\* The invariant is kept by every step of the queue, its worker and its surroundings.
THEOREM InvHolds == Spec => []Inv
<1>1. Init => Inv
  BY InitKeeps
<1>2. Inv /\ [Next]_vars => Inv'
  BY NextKeeps
<1>3. QED BY <1>1, <1>2, PTL DEF Spec

\* Queue and ledger agree, in whatever order workers die and restart: the attempts of a
\* row are the requests that asked about it, it is in progress exactly while one of them
\* is, and the answer it holds is of a request that passed it.
THEOREM LedgerAgreesHolds == Spec => []LedgerAgrees
<1>1. Inv => LedgerAgrees
  <2> SUFFICES ASSUME Inv, NEW r \in Row
               PROVE  /\ row[r].attempts = Cardinality(Asked(r))
                      /\ row[r].status = "processing" <=> InProgress(r)
                      /\ row[r].status = "succeeded" =>
                           row[r].result # 0 /\ request[row[r].result].member[r] = "succeeded"
    BY DEF LedgerAgrees, Asked, InProgress
  <2>1. /\ row[r].attempts = Cardinality(Asked(r))
        /\ row[r].status = "processing" <=> InProgress(r)
        /\ row[r].status = "succeeded" =>
             row[r].result \in RequestId /\ request[row[r].result].member[r] = "succeeded"
    BY DEF Inv, RowsHold
  <2>2. 0 \notin RequestId
    BY QueueAssumption DEF RequestId
  <2>3. QED BY <2>1, <2>2
<1>2. QED BY <1>1, InvHolds, PTL

\* No content is asked about more than max_attempts times, and only an interrupted
\* request leaves one waiting whose attempts are spent.
THEOREM AttemptBudgetHolds == Spec => []AttemptBudget
<1>1. Inv => AttemptBudget
  <2> SUFFICES ASSUME Inv, NEW r \in Row
               PROVE  /\ row[r].attempts <= MaxAttempts
                      /\ row[r].status = "retry_wait" /\ row[r].attempts = MaxAttempts
                           => LastInterrupted(r)
    BY DEF AttemptBudget, LastInterrupted
  <2>1. QED BY DEF Inv, RowsHold
<1>2. QED BY <1>1, InvHolds, PTL

\* Neither the rolling minute nor an enforced rolling day of a provider ever holds more
\* requests than its configuration allows.
THEOREM RequestQuotaHolds == Spec => []RequestQuota
<1>1. Inv => RequestQuota
  BY DEF Inv
<1>2. QED BY <1>1, InvHolds, PTL

\* A row that was asked about before is asked about again only alone.
THEOREM RetriesAloneHolds == Spec => []RetriesAlone
<1>1. Inv => RetriesAlone
  <2> SUFFICES ASSUME Inv, NEW i \in RequestId,
                      Cardinality({r \in Row : request[i].member[r] # None}) > 1,
                      NEW r \in Row, request[i].member[r] # None,
                      NEW n \in RequestId, n < i
               PROVE  request[n].member[r] = None
    BY DEF RetriesAlone
  <2>1. PICK q \in Row : q # r /\ request[i].member[q] # None
    <3> SUFFICES ASSUME \A q \in Row : q # r => request[i].member[q] = None PROVE FALSE
      OBVIOUS
    <3>1. {q \in Row : request[i].member[q] # None} = {r}
      OBVIOUS
    <3>2. Cardinality({r}) = 1
      BY FS_Singleton
    <3>3. QED BY <3>1, <3>2
  <2>2. QED BY <2>1 DEF Inv, LedgerHolds
<1>2. QED BY <1>1, InvHolds, PTL

-----------------------------------------------------------------------------
(* An answer is kept.                                                      *)

KeptFor(r) ==
  row[r].status = "succeeded" =>
    row'[r].status = "succeeded" /\ row'[r].result = row[r].result /\ row'[r].attempts = row[r].attempts

LEMMA StepKeepsAnswer ==
  ASSUME Inv, [Next]_vars, NEW r \in Row
  PROVE  KeptFor(r)
<1>0. row[r] \in QueueRow
  BY DEF Inv
<1>1. CASE UNCHANGED row
  BY <1>1 DEF KeptFor
<1>2. CASE Recover
  <2>1. row' = [n \in Row |-> RowRecovered(n)]
    BY <1>2 DEF Recover, RowRecovered, RowInterrupted, RowSuperseded
  <2>2. QED BY <2>1, RecoveredRow DEF KeptFor
<1>3. CASE Enqueue
  <2>1. row' = [n \in Row |-> IF Requeued(n) THEN [row[n] EXCEPT !.status = "pending"] ELSE row[n]]
    BY <1>3 DEF Enqueue
  <2>2. QED BY <2>1 DEF KeptFor, Requeued
<1>4. CASE NoJob
  <2>1. row' = Swept
    BY <1>4 DEF NoJob, Swept
  <2>2. QED BY <2>1, Sweeps DEF KeptFor, Waiting
<1>5. CASE NextJob
  <2>1. PICK n \in Row :
          /\ Dispatchable(n)
          /\ row' = Swept \/ row' = [Swept EXCEPT ![n].status = "failed"]
    BY <1>5 DEF NextJob, Swept
  <2>2. row[n].status \in Waiting
    BY <2>1 DEF Dispatchable
  <2>3. QED BY <2>1, <2>2, Sweeps DEF KeptFor, Waiting
<1>6. CASE Reserve
  <2>1. \A n \in group : row[n].status \in Waiting
    BY <1>6 DEF Reserve, Reservable, Dispatchable
  <2>2. r \notin group => row'[r] = row[r]
    BY <1>6 DEF Reserve
  <2>3. QED BY <2>1, <2>2 DEF KeptFor, Waiting
<1>7. CASE Finish
  <2>1. \A n \in group : row[n].status = "processing"
    BY <1>7 DEF Finish, Inv, WorkerHolds, Asking
  <2>2. r \notin group => row'[r] = row[r]
    BY <1>7 DEF Finish
  <2>3. QED BY <2>1, <2>2 DEF KeptFor
<1>8. CASE Tick
  <2>1. row' = [n \in Row |-> [row[n] EXCEPT !.wait = Sooner(@)]]
    BY <1>8 DEF Tick
  <2>2. QED BY <1>0, <2>1 DEF KeptFor, QueueRow
<1>9. UNCHANGED row \/ Recover \/ Enqueue \/ NoJob \/ NextJob \/ Reserve \/ Finish \/ Tick
  BY DEF vars, Next, Worker, Lock, Choose, EndRun, Group, Refused, Wait, Call, Block, Crash, ChangeContent
<1>10. QED BY <1>1, <1>2, <1>3, <1>4, <1>5, <1>6, <1>7, <1>8, <1>9

\* A validated answer stays with its row whatever happens after: it is never asked for
\* again, replaced or given up.
THEOREM AnswerIsKeptHolds == Spec => AnswerIsKept
<1>1. Inv /\ [Next]_vars =>
        [\A r \in Row : row[r].status = "succeeded" =>
           row'[r].status = "succeeded" /\ row'[r].result = row[r].result
             /\ row'[r].attempts = row[r].attempts]_vars
  BY StepKeepsAnswer DEF KeptFor
<1>2. QED BY <1>1, InvHolds, PTL DEF Spec, AnswerIsKept

\* The queue read beside the ledger says of every content what was asked and answered.
THEOREM QueueAgreesHolds == Spec => []QueueAgrees
<1>1. Inv => TypeOK
  BY DEF Inv
<1>2. TypeOK /\ LedgerAgrees /\ AttemptBudget <=> QueueAgrees
  BY DEF QueueAgrees
<1>3. QED BY <1>1, <1>2, InvHolds, LedgerAgreesHolds, AttemptBudgetHolds, PTL

-----------------------------------------------------------------------------
(* Tokens.                                                                 *)

Answered == {"block", "finish"}

\* The reservations in a window are within its budget, and what a provider charged for a
\* request is within its reservation, also once its usage is known and replaces it.
TokensHold ==
  /\ \A p \in Providers :
       /\ Used(Window(p, Minute)) <= Limit[p].tpm
       /\ Limit[p].enforce => Used(Window(p, Day)) <= Limit[p].tpd
  /\ \A i \in RequestId : /\ burnt[i] <= request[i].charge
                          /\ request[i].status = "none" => burnt[i] = 0
  /\ pc \in Answered /\ usage # None =>
       burnt[cur] <= usage /\ (request[cur].age < Day => usage <= request[cur].charge)

\* No request in the windows of the quotas costs more than before.
ChargesKept ==
  \A i \in RequestId : request'[i].age < Day => request'[i].charge <= request[i].charge

\* What is charged stays within the reservations.
BurntWithin ==
  \A i \in RequestId : /\ burnt'[i] <= request'[i].charge
                       /\ request'[i].status = "none" => burnt'[i] = 0

LEMMA RequestIdIsFinite == IsFiniteSet(RequestId) /\ \A p, n : Window(p, n) \in SUBSET RequestId
<1>1. IsFiniteSet(RequestId)
  BY FS_Interval, QueueAssumption DEF RequestId
<1>2. QED BY <1>1 DEF Window

LEMMA UsedIsNat ==
  ASSUME TypeOK, NEW S \in SUBSET RequestId
  PROVE  Used(S) \in Nat
<1>1. Charge \in [RequestId -> Nat]
  BY DEF Charge, RequestRow
<1>2. QED BY <1>1, RequestIdIsFinite, SumIsNat DEF Used

LEMMA UsedPrimedIsNat ==
  ASSUME TypeOK', NEW S \in SUBSET RequestId
  PROVE  SumFunctionOnSet(Charge', S) \in Nat
<1>1. Charge' \in [RequestId -> Nat]
  BY DEF Charge, RequestRow
<1>2. QED BY <1>1, RequestIdIsFinite, SumIsNat

LEMMA UsedShrinks ==
  ASSUME TypeOK, TypeOK', WindowsKept, ChargesKept, NEW p \in Providers,
         NEW length \in {Minute, Day}
  PROVE  Used(Window(p, length))' <= Used(Window(p, length))
<1>1. Charge \in [RequestId -> Nat] /\ Charge' \in [RequestId -> Nat]
  BY DEF Charge, RequestRow
<1>2. Window(p, length)' \subseteq Window(p, length) /\ Window(p, length) \subseteq RequestId
  BY TimeAssumption DEF Window, WindowsKept, RequestRow
<1>3. ASSUME NEW i \in Window(p, length)' PROVE Charge'[i] <= Charge[i]
  <2>1. i \in RequestId /\ request'[i].age < length
    BY DEF Window
  <2>2. request'[i].age \in Nat
    BY <2>1 DEF RequestRow
  <2>3. request'[i].age < Day
    BY <2>1, <2>2, TimeAssumption
  <2>4. QED BY <2>1, <2>3 DEF ChargesKept, Charge
<1>4. SumFunctionOnSet(Charge', Window(p, length)') <= SumFunctionOnSet(Charge, Window(p, length))
  BY <1>1, <1>2, <1>3, RequestIdIsFinite, SumIsMonotone
<1>5. QED BY <1>4 DEF Used

LEMMA KeepsTokens ==
  ASSUME TypeOK, TypeOK', TokensHold, WindowsKept, ChargesKept, BurntWithin,
         pc' \in Answered /\ usage' # None =>
           burnt'[cur'] <= usage' /\ (request'[cur'].age < Day => usage' <= request'[cur'].charge)
  PROVE  TokensHold'
<1>1. ASSUME NEW p \in Providers
      PROVE  /\ Used(Window(p, Minute))' <= Limit[p].tpm
             /\ Limit[p].enforce => Used(Window(p, Day))' <= Limit[p].tpd
  <2>1. /\ Used(Window(p, Minute))' <= Used(Window(p, Minute))
        /\ Used(Window(p, Day))' <= Used(Window(p, Day))
    BY UsedShrinks
  <2>2. Used(Window(p, Minute)) \in Nat /\ Used(Window(p, Day)) \in Nat
    BY RequestIdIsFinite, UsedIsNat
  <2>3. Used(Window(p, Minute))' \in Nat /\ Used(Window(p, Day))' \in Nat
    <3>1. Window(p, Minute)' \in SUBSET RequestId /\ Window(p, Day)' \in SUBSET RequestId
      BY DEF Window
    <3>2. QED BY <3>1, UsedPrimedIsNat DEF Used
  <2>4. Limit[p].tpm \in Nat /\ Limit[p].tpd \in Nat
    BY ProviderAssumption
  <2>5. /\ Used(Window(p, Minute)) <= Limit[p].tpm
        /\ Limit[p].enforce => Used(Window(p, Day)) <= Limit[p].tpd
    BY DEF TokensHold
  <2>6. QED BY <2>1, <2>2, <2>3, <2>4, <2>5
<1>2. QED BY <1>1 DEF TokensHold, BurntWithin

\* A step that leaves the ledger alone and what was charged, and no answer comes.
LEMMA TokensUntouched ==
  ASSUME TypeOK, TypeOK', TokensHold, UNCHANGED <<request, burnt>>,
         pc' \in Answered => pc \in Answered /\ UNCHANGED <<cur, usage>>
  PROVE  TokensHold'
<1>1. WindowsKept /\ ChargesKept
  BY DEF WindowsKept, ChargesKept, RequestRow
<1>2. BurntWithin
  BY DEF BurntWithin, TokensHold
<1>3. QED BY <1>1, <1>2, KeepsTokens DEF TokensHold

LEMMA RecoverTokens ==
  ASSUME Inv, TokensHold, TypeOK', Recover
  PROVE  TokensHold'
<1>1. /\ request' = [i \in RequestId |-> Recovered(i)]
      /\ burnt' = burnt /\ pc' \in {"enqueue", "choose"}
  BY DEF Recover
<1>2. ASSUME NEW i \in RequestId
      PROVE  /\ request'[i].status = "none" <=> request[i].status = "none"
             /\ request'[i].provider = request[i].provider /\ request'[i].age = request[i].age
             /\ request'[i].charge = request[i].charge
  <2>1. request'[i] = Recovered(i)
    BY <1>1
  <2>2. Recovered(i).charge = request[i].charge
    <3>1. PICK q : q = request[i]
      OBVIOUS
    <3>2. q \in RequestRow
      BY <3>1 DEF Inv
    <3>3. PICK s, m : Recovered(i) = [q EXCEPT !.status = s, !.member = m]
      BY <3>1 DEF Recovered
    <3>4. QED BY <3>1, <3>2, <3>3 DEF RequestRow
  <2>3. QED BY <2>1, <2>2, RecoveredRequest
<1>3. WindowsKept /\ ChargesKept
  BY <1>2 DEF WindowsKept, ChargesKept, Inv, RequestRow
<1>4. BurntWithin
  BY <1>1, <1>2 DEF BurntWithin, TokensHold
<1>5. pc' \notin Answered
  BY <1>1 DEF Answered
<1>6. QED BY <1>3, <1>4, <1>5, KeepsTokens DEF Inv

LEMMA CallTokens ==
  ASSUME Inv, TokensHold, TypeOK', Call
  PROVE  TokensHold'
<1>1. PICK n \in 0 .. request[cur].charge :
        burnt' = [burnt EXCEPT ![cur] = n] /\ usage' \in {n, None}
  BY DEF Call
<1>2. request' = request /\ cur' = cur /\ pc = "call"
  BY DEF Call
<1>3. cur \in RequestId /\ request[cur].status = "processing"
  BY <1>2 DEF Inv, WorkerHolds, Asking
<1>4. n \in Nat /\ n <= request[cur].charge
  BY <1>3 DEF Inv, RequestRow
<1>5. burnt'[cur] = n /\ \A i \in RequestId : i # cur => burnt'[i] = burnt[i]
  BY <1>1, <1>3 DEF Inv
<1>6. BurntWithin
  BY <1>2, <1>3, <1>4, <1>5 DEF BurntWithin, TokensHold
<1>7. WindowsKept /\ ChargesKept
  BY <1>2 DEF WindowsKept, ChargesKept, Inv, RequestRow
<1>8. usage' # None =>
        burnt'[cur'] <= usage' /\ (request'[cur'].age < Day => usage' <= request'[cur'].charge)
  BY <1>1, <1>2, <1>4, <1>5
<1>9. QED BY <1>6, <1>7, <1>8, KeepsTokens DEF Inv

LEMMA FinishTokens ==
  ASSUME Inv, TokensHold, TypeOK', Finish
  PROVE  TokensHold'
<1>1. PICK s \in RequestStatus :
        /\ IF \E v \in MemberStatus : \A r \in group : Verdict(r) = v
             THEN \A r \in group : s = Verdict(r)
             ELSE s = "partial"
        /\ request' = [request EXCEPT
             ![cur].status = s, ![cur].charge = Settled(@),
             ![cur].member = [r \in Row |-> IF r \in group THEN Verdict(r) ELSE @[r]]]
  BY DEF Finish
<1>2. pc = "finish" /\ pc' = "top" /\ burnt' = burnt
  BY DEF Finish
<1>3. cur \in RequestId /\ request[cur].status = "processing" /\ group # {}
  BY <1>2 DEF Inv, WorkerHolds, Asking
<1>4. s # "none"
  BY <1>1, <1>3, VerdictType
<1>5. request[cur] \in RequestRow
  BY <1>3 DEF Inv
<1>6. /\ request'[cur].status = s /\ request'[cur].charge = Settled(request[cur].charge)
      /\ request'[cur].provider = request[cur].provider /\ request'[cur].age = request[cur].age
  <2>1. PICK m : m = [r \in Row |-> IF r \in group THEN Verdict(r) ELSE request[cur].member[r]]
    OBVIOUS
  <2>2. PICK c : c = Settled(request[cur].charge)
    OBVIOUS
  <2>3. request'[cur] = [request[cur] EXCEPT !.status = s, !.charge = c, !.member = m]
    BY <1>1, <1>3, <2>1, <2>2 DEF Inv
  <2>4. QED BY <1>5, <2>2, <2>3 DEF RequestRow
<1>7. \A n \in RequestId : n # cur => request'[n] = request[n]
  BY <1>1 DEF Inv
<1>8. WindowsKept
  BY <1>3, <1>6, <1>7 DEF WindowsKept, Inv, RequestRow
<1>9. usage # None =>
        burnt[cur] <= usage /\ (request[cur].age < Day => usage <= request[cur].charge)
  BY <1>2 DEF TokensHold, Answered
<1>10. burnt[cur] <= request[cur].charge /\ request[cur].charge \in Nat
  BY <1>3, <1>5 DEF TokensHold, RequestRow
<1>11. /\ burnt[cur] <= Settled(request[cur].charge)
       /\ request[cur].age < Day => Settled(request[cur].charge) <= request[cur].charge
  BY <1>9, <1>10 DEF Settled
<1>12. ASSUME NEW n \in RequestId
       PROVE  /\ request'[n].age < Day => request'[n].charge <= request[n].charge
              /\ burnt'[n] <= request'[n].charge
              /\ request'[n].status = "none" => burnt'[n] = 0
  <2>1. CASE n = cur
    BY <1>2, <1>4, <1>6, <1>11, <2>1
  <2>2. CASE n # cur
    <3>1. request'[n] = request[n] /\ request[n].charge \in Nat
      BY <1>7, <2>2 DEF Inv, RequestRow
    <3>2. QED BY <1>2, <3>1 DEF TokensHold
  <2>3. QED BY <2>1, <2>2
<1>13. ChargesKept /\ BurntWithin
  BY <1>12 DEF ChargesKept, BurntWithin
<1>14. pc' \notin Answered
  BY <1>2 DEF Answered
<1>15. QED BY <1>8, <1>13, <1>14, KeepsTokens DEF Inv

LEMMA TickTokens ==
  ASSUME Inv, TokensHold, TypeOK', Tick
  PROVE  TokensHold'
<1>1. /\ request' = [i \in RequestId |-> Aged(i)]
      /\ burnt' = [i \in RequestId |-> IF request'[i].age = Day THEN 0 ELSE burnt[i]]
      /\ UNCHANGED <<pc, cur, usage>>
  BY DEF Tick
<1>2. ASSUME NEW i \in RequestId
      PROVE  /\ request'[i].status = request[i].status /\ request'[i].provider = request[i].provider
             /\ request'[i].age >= request[i].age
             /\ request'[i].age # Day => request'[i].charge = request[i].charge
             /\ request'[i].charge \in Nat /\ request'[i].age \in Nat
             /\ burnt'[i] \in {0, burnt[i]} /\ (request'[i].age = Day => burnt'[i] = 0)
  <2>1. request'[i] = Aged(i) /\ request[i] \in RequestRow /\ request'[i] \in RequestRow
    BY <1>1 DEF Inv
  <2>2. Day \in Nat
    BY TimeAssumption
  <2>3. PICK q : q = request[i]
    OBVIOUS
  <2>4. q.age \in Nat /\ q \in RequestRow
    BY <2>1, <2>3 DEF RequestRow
  <2>5. request'[i].charge \in Nat /\ request'[i].age \in Nat
    BY <2>1 DEF RequestRow
  <2>6. burnt'[i] \in {0, burnt[i]} /\ (request'[i].age = Day => burnt'[i] = 0)
    BY <1>1
  <2>7. CASE q.status = "none" \/ q.age = Day
    BY <2>1, <2>3, <2>4, <2>5, <2>6, <2>7 DEF Aged
  <2>8. CASE ~(q.status = "none" \/ q.age = Day) /\ q.age + 1 = Day
    <3>1. request'[i] = [q EXCEPT !.age = Day, !.charge = 0]
      BY <2>1, <2>3, <2>8 DEF Aged
    <3>2. request'[i].status = q.status /\ request'[i].provider = q.provider /\ request'[i].age = Day
      BY <2>4, <3>1 DEF RequestRow
    <3>3. Day >= q.age
      BY <2>2, <2>4, <2>8
    <3>4. QED BY <2>3, <2>5, <2>6, <3>2, <3>3
  <2>9. CASE ~(q.status = "none" \/ q.age = Day) /\ q.age + 1 # Day
    <3>1. request'[i] = [q EXCEPT !.age = q.age + 1]
      BY <2>1, <2>3, <2>9 DEF Aged
    <3>2. /\ request'[i].status = q.status /\ request'[i].provider = q.provider
          /\ request'[i].charge = q.charge /\ request'[i].age = q.age + 1
      BY <2>4, <3>1 DEF RequestRow
    <3>3. QED BY <2>3, <2>4, <2>5, <2>6, <3>2
  <2>10. QED BY <2>7, <2>8, <2>9
<1>3. WindowsKept
  BY <1>2 DEF WindowsKept
<1>4. ASSUME NEW i \in RequestId
      PROVE  /\ request'[i].age < Day => request'[i].charge <= request[i].charge
             /\ burnt'[i] <= request'[i].charge
             /\ request'[i].status = "none" => burnt'[i] = 0
  <2>1. Day \in Nat /\ burnt[i] \in Nat /\ request[i].charge \in Nat
    BY TimeAssumption DEF Inv, RequestRow
  <2>2. burnt[i] <= request[i].charge /\ (request[i].status = "none" => burnt[i] = 0)
    BY DEF TokensHold
  <2>3. QED BY <1>2, <2>1, <2>2
<1>5. ChargesKept /\ BurntWithin
  BY <1>4 DEF ChargesKept, BurntWithin
<1>6. ASSUME pc' \in Answered, usage' # None
      PROVE  burnt'[cur'] <= usage' /\ (request'[cur'].age < Day => usage' <= request'[cur'].charge)
  <2>1. pc \in Answered /\ usage # None /\ cur' = cur /\ usage' = usage
    BY <1>1, <1>6
  <2>2. cur \in RequestId
    BY <2>1 DEF Inv, WorkerHolds, Answered, Asking
  <2>3. burnt[cur] <= usage /\ (request[cur].age < Day => usage <= request[cur].charge)
    BY <2>1 DEF TokensHold
  <2>4. Day \in Nat /\ burnt[cur] \in Nat /\ request[cur].age \in Nat /\ usage \in Nat
    BY <2>1, <2>2, TimeAssumption DEF Inv, RequestRow
  <2>5. burnt'[cur] <= usage
    BY <1>2, <2>2, <2>3, <2>4
  <2>6. request'[cur].age < Day => request[cur].age < Day /\ request'[cur].charge = request[cur].charge
    BY <1>2, <2>2, <2>4
  <2>7. QED BY <2>1, <2>3, <2>5, <2>6
<1>7. QED BY <1>3, <1>5, <1>6, KeepsTokens DEF Inv

\* The new request is the only one in its windows that was not there before.
LEMMA ReserveTokens ==
  ASSUME Inv, TokensHold, TypeOK', Reserve
  PROVE  TokensHold'
<1> DEFINE e == Estimate(group)
           o == Order[turn]
<1>1. PICK i \in RequestId :
        /\ request[i].status = "none"
        /\ request' = [request EXCEPT ![i] =
             [status |-> "processing", provider |-> o,
              member |-> [r \in Row |-> IF r \in group THEN "processing" ELSE None],
              age |-> 0, charge |-> e]]
  BY DEF Reserve
<1>2. pc = "reserve" /\ pc' = "call" /\ burnt' = burnt
  BY DEF Reserve
<1>3. turn \in DOMAIN Order /\ group \subseteq Row
  BY <1>2 DEF Inv, WorkerHolds, Choosing
<1>4. o \in Providers /\ e \in Nat
  <2>1. Order[turn] \in Providers
    BY <1>3, ProviderAssumption
  <2>2. Estimate(group) \in Nat
    BY <1>3, EstimateIsNat
  <2>3. QED BY <2>1, <2>2
<1>5. WithinDay(o, e) /\ WithinMinute(o, e)
  BY DEF Reserve, Reservable
<1> HIDE DEF e, o
<1>6. /\ request'[i].status = "processing" /\ request'[i].provider = o
      /\ request'[i].age = 0 /\ request'[i].charge = e
      /\ \A n \in RequestId : n # i => request'[n] = request[n]
  BY <1>1 DEF Inv
<1>7. Charge \in [RequestId -> Nat] /\ Charge' \in [RequestId -> Nat] /\ Charge'[i] = e
  BY <1>6 DEF Inv, Charge, RequestRow
<1>8. ASSUME NEW p \in Providers, NEW length \in {Minute, Day}
      PROVE  LET W == Window(p, length)
             IN  /\ Used(W) \in Nat /\ Used(W)' \in Nat
                 /\ p = o => Used(W)' <= e + Used(W)
                 /\ p # o => Used(W)' <= Used(W)
  <2> DEFINE W == Window(p, length)
             V == Window(p, length)'
             F(S) == SumFunctionOnSet(Charge, S)
             G(S) == SumFunctionOnSet(Charge', S)
  <2>1. W \in SUBSET RequestId /\ V \in SUBSET RequestId /\ i \in RequestId \ W
    BY <1>1 DEF Window
  <2>2. V \subseteq W \cup {i} /\ (p # o => V \subseteq W)
    BY <1>6 DEF Window
  <2>3. \A x \in W : Charge'[x] = Charge[x]
    BY <1>6, <2>1 DEF Charge
  <2>4. Used(W) = F(W) /\ Used(W)' = G(V)
    BY DEF Used
  <2> HIDE DEF W, V
  <2>5. F(W) \in Nat /\ G(V) \in Nat /\ G(W) \in Nat
    BY <1>7, <2>1, RequestIdIsFinite, SumIsNat
  <2>6. \A x \in RequestId : Charge'[x] <= Charge'[x]
    BY <1>7
  <2>7. \A x \in W : Charge'[x] <= Charge[x]
    BY <1>7, <2>1, <2>3
  <2>8. G(W) <= F(W)
    BY <1>7, <2>1, <2>7, RequestIdIsFinite, SumIsMonotone
  <2>9. Charge' \in [RequestId -> Int]
    BY <1>7
  <2>10. G(W \cup {i}) = e + G(W)
    BY <1>7, <2>1, <2>9, RequestIdIsFinite, SumAdds
  <2>11. G(V) <= G(W \cup {i})
    <3>1. W \cup {i} \in SUBSET RequestId /\ V \in SUBSET (W \cup {i})
      BY <2>1, <2>2
    <3>2. \A x \in V : Charge'[x] <= Charge'[x]
      BY <2>1, <2>6
    <3>3. QED BY <1>7, <3>1, <3>2, RequestIdIsFinite, SumIsMonotone
  <2>12. p # o => G(V) <= F(W)
    <3> SUFFICES ASSUME p # o PROVE G(V) <= F(W)
      OBVIOUS
    <3>1. V \in SUBSET W /\ \A x \in V : Charge'[x] <= Charge[x]
      BY <2>2, <2>7
    <3>2. QED BY <1>7, <2>1, <3>1, RequestIdIsFinite, SumIsMonotone
  <2>13. G(V) <= e + F(W)
    <3> HIDE DEF F, G
    <3>1. QED BY <1>4, <2>5, <2>8, <2>10, <2>11
  <2> HIDE DEF F, G
  <2>14. QED BY <2>4, <2>5, <2>12, <2>13 DEF W
<1>9. ASSUME NEW p \in Providers
      PROVE  /\ Used(Window(p, Minute))' <= Limit[p].tpm
             /\ Limit[p].enforce => Used(Window(p, Day))' <= Limit[p].tpd
  <2>1. Limit[p].tpm \in Nat /\ Limit[p].tpd \in Nat
    BY ProviderAssumption
  <2>2. /\ Used(Window(p, Minute)) <= Limit[p].tpm
        /\ Limit[p].enforce => Used(Window(p, Day)) <= Limit[p].tpd
    BY DEF TokensHold
  <2>3. /\ Used(Window(p, Minute)) \in Nat /\ Used(Window(p, Minute))' \in Nat
        /\ p = o => Used(Window(p, Minute))' <= e + Used(Window(p, Minute))
        /\ p # o => Used(Window(p, Minute))' <= Used(Window(p, Minute))
    BY <1>8
  <2>4. /\ Used(Window(p, Day)) \in Nat /\ Used(Window(p, Day))' \in Nat
        /\ p = o => Used(Window(p, Day))' <= e + Used(Window(p, Day))
        /\ p # o => Used(Window(p, Day))' <= Used(Window(p, Day))
    BY <1>8
  <2>5. p = o => /\ Used(Window(p, Minute)) + e <= Limit[p].tpm
                 /\ Limit[p].enforce => Used(Window(p, Day)) + e <= Limit[p].tpd
    BY <1>5 DEF WithinDay, WithinMinute
  <2>6. Used(Window(p, Minute))' <= Limit[p].tpm
    BY <1>4, <2>1, <2>2, <2>3, <2>5
  <2>7. Limit[p].enforce => Used(Window(p, Day))' <= Limit[p].tpd
    BY <1>4, <2>1, <2>2, <2>4, <2>5
  <2>8. QED BY <2>6, <2>7
<1>10. ASSUME NEW n \in RequestId
       PROVE  /\ burnt'[n] <= request'[n].charge
              /\ request'[n].status = "none" => burnt'[n] = 0
  BY <1>1, <1>2, <1>4, <1>6 DEF TokensHold
<1>11. pc' \notin Answered
  BY <1>2 DEF Answered
<1>12. QED BY <1>9, <1>10, <1>11 DEF TokensHold

LEMMA TokensStep ==
  ASSUME Inv, TokensHold, TypeOK', [Next]_vars
  PROVE  TokensHold'
<1>1. CASE Recover \/ Reserve \/ Call \/ Finish \/ Tick
  BY <1>1, RecoverTokens, ReserveTokens, CallTokens, FinishTokens, TickTokens
<1>2. CASE ~(Recover \/ Reserve \/ Call \/ Finish \/ Tick)
  <2>1. CASE UNCHANGED vars
    BY <2>1, TokensUntouched DEF vars, Inv
  <2>2. CASE (\E phase \in {"enrich", "backfill"} : Lock(phase)) \/ Choose \/ Crash
    BY <2>2, TokensUntouched DEF Lock, Choose, Crash, Forget, Answered, Inv
  <2>3. CASE Enqueue \/ NextJob \/ NoJob \/ EndRun
    BY <2>3, TokensUntouched DEF Enqueue, NextJob, NoJob, EndRun, Forget, Answered, Inv
  <2>4. CASE Group \/ Refused \/ Wait
    BY <2>4, TokensUntouched DEF Group, Refused, Wait, Forget, Answered, Inv
  <2>5. CASE Block \/ ChangeContent
    BY <2>5, TokensUntouched DEF Block, ChangeContent, Answered, Inv
  <2>6. QED BY <1>2, <2>1, <2>2, <2>3, <2>4, <2>5 DEF Next, Worker
<1>3. QED BY <1>1, <1>2

\* In no minute, and in no day where the budget is enforced, does a provider charge more
\* tokens than its configuration allows, as no request costs more than its estimate.
LEMMA TokensBound ==
  ASSUME TypeOK, TokensHold
  PROVE  TokenQuota
<1> SUFFICES ASSUME NEW p \in Providers
             PROVE  /\ SumFunctionOnSet(burnt, Window(p, Minute)) <= Limit[p].tpm
                    /\ Limit[p].enforce =>
                         SumFunctionOnSet(burnt, Window(p, Day)) <= Limit[p].tpd
  BY DEF TokenQuota
<1>1. burnt \in [RequestId -> Nat] /\ Charge \in [RequestId -> Nat]
  BY DEF Charge, RequestRow
<1>2. \A i \in RequestId : burnt[i] <= Charge[i]
  BY DEF TokensHold, Charge
<1>3. ASSUME NEW W \in SUBSET RequestId
      PROVE  /\ SumFunctionOnSet(burnt, W) <= Used(W)
             /\ SumFunctionOnSet(burnt, W) \in Nat /\ Used(W) \in Nat
  <2>1. SumFunctionOnSet(burnt, W) <= Used(W)
    <3>1. W \in SUBSET W /\ \A i \in W : burnt[i] <= Charge[i]
      BY <1>2
    <3>2. QED BY <1>1, <3>1, RequestIdIsFinite, SumIsMonotone DEF Used
  <2>2. QED BY <1>1, <2>1, UsedIsNat, RequestIdIsFinite, SumIsNat
<1>4. /\ Used(Window(p, Minute)) <= Limit[p].tpm
      /\ Limit[p].enforce => Used(Window(p, Day)) <= Limit[p].tpd
  BY DEF TokensHold
<1>5. Limit[p].tpm \in Nat /\ Limit[p].tpd \in Nat
  BY ProviderAssumption
<1>6. Window(p, Minute) \in SUBSET RequestId /\ Window(p, Day) \in SUBSET RequestId
  BY RequestIdIsFinite
<1>7. QED BY <1>3, <1>4, <1>5, <1>6

\* No window of any provider is overdrawn, in requests or in tokens, over crashes,
\* shrinking and fallback.
THEOREM QuotaHoldsAlways == Spec => []QuotaHolds
<1>1. Init => Inv /\ TokensHold
  <2> SUFFICES ASSUME Init PROVE TokensHold
    BY InitKeeps
  <2>1. /\ pc = "off" /\ burnt = [i \in RequestId |-> 0]
        /\ request = [i \in RequestId |-> Unused]
    BY DEF Init
  <2>2. \A p, n : Window(p, n) = {}
    BY <2>1 DEF Window, Unused
  <2>3. Used({}) = 0
    BY SumOfNone DEF Used
  <2>4. \A p \in Providers : Limit[p].tpm \in Nat /\ Limit[p].tpd \in Nat
    BY ProviderAssumption
  <2>5. \A i \in RequestId : burnt[i] = 0 /\ request[i].charge = 0
    BY <2>1 DEF Unused
  <2>6. ASSUME NEW p \in Providers
        PROVE  /\ Used(Window(p, Minute)) <= Limit[p].tpm
               /\ Limit[p].enforce => Used(Window(p, Day)) <= Limit[p].tpd
    <3>1. Used(Window(p, Minute)) = 0 /\ Used(Window(p, Day)) = 0
      BY <2>2, <2>3
    <3>2. QED BY <2>4, <3>1
  <2>7. pc \notin Answered
    BY <2>1 DEF Answered
  <2>8. \A i \in RequestId : burnt[i] <= request[i].charge
    BY <2>5
  <2>9. QED BY <2>5, <2>6, <2>7, <2>8 DEF TokensHold
<1>2. Inv /\ TokensHold /\ [Next]_vars => (Inv /\ TokensHold)'
  <2> SUFFICES ASSUME Inv, TokensHold, [Next]_vars PROVE Inv' /\ TokensHold'
    OBVIOUS
  <2>1. Inv'
    BY NextKeeps
  <2>2. TypeOK'
    BY <2>1 DEF Inv
  <2>3. QED BY <2>1, <2>2, TokensStep
<1>3. Inv /\ TokensHold => QuotaHolds
  BY TokensBound DEF QuotaHolds, Inv
<1>4. QED BY <1>1, <1>2, <1>3, PTL DEF Spec

=============================================================================
