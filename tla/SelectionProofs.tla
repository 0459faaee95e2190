---------------------------- MODULE SelectionProofs ----------------------------
(***************************************************************************)
(* Theorems about _select (TaskContext): whatever the candidates, their    *)
(* sizes and ranks, the budgets, and whatever could be fetched, a pack     *)
(* keeps to its budgets, gives optional sources nothing that a required    *)
(* one needs, and leaves out for lack of budget only what does not fit.    *)
(***************************************************************************)
EXTENDS TaskContext, TLAPS, FiniteSetTheorems, WellFoundedInduction, NaturalsInduction

(* What can be candidates of one selection.                                *)
AreCandidates(S) ==
  /\ IsFiniteSet(S)
  /\ \A s \in S :
       /\ s.id \in Nat /\ s.class \in Classes /\ s.priority \in Nat
       /\ s.required \in BOOLEAN /\ s.truncation \in BOOLEAN
       /\ s.bytes \in Nat /\ s.width \in Nat \ {0}
  /\ \A s, t \in S : s.class = t.class /\ s.id = t.id => s = t

AreBudgets(budgets) ==
  /\ budgets.total \in Nat /\ budgets.perSource \in Nat
  /\ budgets.class \in [Classes -> Nat]

-----------------------------------------------------------------------------
(* Inductions: of the numbers, or the finite sets, for which something     *)
(* fails there would be a least one.                                       *)
LEMMA LeastNumber ==
  ASSUME NEW S \in SUBSET Nat, S # {}
  PROVE  \E i \in S : \A j \in S : i <= j
<1>1. PICK i \in S : \A j \in S : ~(<<j, i>> \in OpToRel(<, Nat))
  BY WFMin, NatLessThanWellFounded, Zenon
<1>2. \A j \in S : ~(j < i)
  BY <1>1 DEF OpToRel
<1> QED BY <1>2, SMT

LEMMA LeastSubset ==
  ASSUME NEW S, IsFiniteSet(S), NEW Bad \in SUBSET (SUBSET S), Bad # {}
  PROVE  \E T \in Bad : \A U \in SUBSET T : U \in Bad => U = T
<1>1. Bad \subseteq FiniteSubsetsOf(S)
  BY FS_Subset DEF FiniteSubsetsOf
<1>2. PICK T \in Bad : \A U \in Bad : ~(<<U, T>> \in StrictSubsetOrdering(S))
  BY <1>1, WFMin, FS_StrictSubsetOrderingWellFounded, Zenon
<1>3. ASSUME NEW U \in SUBSET T, U \in Bad, U # T PROVE FALSE
  BY <1>2, <1>3 DEF StrictSubsetOrdering
<1> QED BY <1>3

-----------------------------------------------------------------------------
(* The order of _rank.                                                     *)
LEMMA BeforeIsTotal ==
  ASSUME NEW S, AreCandidates(S), NEW a \in S, NEW b \in S
  PROVE  /\ a # b => Before(a, b) \/ Before(b, a)
         /\ ~Before(a, a)
BY DEF AreCandidates, Before, Classes

LEMMA BeforeIsTransitive ==
  ASSUME NEW S, AreCandidates(S), NEW a \in S, NEW b \in S, NEW d \in S,
         Before(a, b), Before(b, d)
  PROVE  Before(a, d)
BY DEF AreCandidates, Before, Classes

Position(S, s) == Cardinality({o \in S : Before(o, s)})

LEMMA PositionsGrow ==
  ASSUME NEW S, AreCandidates(S), NEW a \in S, NEW b \in S, Before(a, b)
  PROVE  /\ Position(S, a) \in Nat /\ Position(S, b) \in Nat
         /\ Position(S, a) < Position(S, b)
<1> DEFINE A == {o \in S : Before(o, a)}
           B == {o \in S : Before(o, b)}
<1>1. IsFiniteSet(B) /\ Cardinality(B) \in Nat
  BY FS_Subset, FS_CardinalityType DEF AreCandidates
<1>2. A \in SUBSET B /\ A # B
  BY BeforeIsTransitive, BeforeIsTotal
<1>3. IsFiniteSet(A) /\ Cardinality(A) \in Nat
  BY FS_Subset, FS_CardinalityType DEF AreCandidates
<1>4. Cardinality(A) <= Cardinality(B) /\ Cardinality(B) # Cardinality(A)
  BY <1>1, <1>2, FS_Subset
<1> QED BY <1>1, <1>3, <1>4 DEF Position

LEMMA PositionsFit ==
  ASSUME NEW S, AreCandidates(S), NEW s \in S
  PROVE  Position(S, s) \in 0 .. Cardinality(S) - 1
<1> DEFINE A == {o \in S : Before(o, s)}
<1>1. IsFiniteSet(S) /\ Cardinality(S) \in Nat
  BY FS_CardinalityType DEF AreCandidates
<1>2. A \in SUBSET S /\ A # S
  BY BeforeIsTotal
<1>3. IsFiniteSet(A) /\ Cardinality(A) \in Nat
  BY <1>1, <1>2, FS_Subset, FS_CardinalityType
<1>4. Cardinality(A) <= Cardinality(S) /\ Cardinality(S) # Cardinality(A)
  BY <1>1, <1>2, FS_Subset
<1> QED BY <1>1, <1>3, <1>4 DEF Position

(* No two candidates share a position, so that every position is taken.    *)
LEMMA PositionsAreTaken ==
  ASSUME NEW S, AreCandidates(S), NEW i \in 1 .. Cardinality(S)
  PROVE  \E s \in S : Position(S, s) = i - 1
<1> DEFINE n == Cardinality(S)
           place == [s \in S |-> Position(S, s) + 1]
<1>1. IsFiniteSet(S) /\ n \in Nat
  BY FS_CardinalityType DEF AreCandidates
<1>2. IsFiniteSet(1 .. n) /\ Cardinality(1 .. n) = n
  BY <1>1, FS_Interval
<1>3. \A s \in S : Position(S, s) \in 0 .. n - 1
  BY PositionsFit
<1>4. \A s, t \in S : Position(S, s) = Position(S, t) => s = t
  BY BeforeIsTotal, PositionsGrow
<1> HIDE DEF n
<1>5. place \in Injection(S, 1 .. n)
  <2>1. place \in [S -> 1 .. n]
    BY <1>1, <1>3
  <2>2. \A s, t \in S : place[s] = place[t] => s = t
    BY <1>1, <1>3, <1>4
  <2> HIDE DEF place
  <2> QED BY <2>1, <2>2 DEF Injection, IsInjective
<1>6. place \in Surjection(S, 1 .. n)
  <2> HIDE DEF place
  <2> QED BY <1>2, <1>5, FS_Injection DEF n
<1>7. PICK s \in S : place[s] = i
  <2> HIDE DEF place
  <2> QED BY <1>6 DEF Surjection, n
<1> QED BY <1>1, <1>3, <1>7

(* sorted(candidates, key=_rank) is a list of all candidates in order.     *)
LEMMA RankedIsSorted ==
  ASSUME NEW S, AreCandidates(S)
  PROVE  LET n == Cardinality(S)
             r == Ranked(S)
         IN  /\ n \in Nat /\ r \in [1 .. n -> S] /\ Len(r) = n
             /\ \A i \in 1 .. n : Position(S, r[i]) = i - 1
             /\ \A s \in S : \E i \in 1 .. n : r[i] = s
             /\ \A i, j \in 1 .. n : i < j => Before(r[i], r[j])
<1> DEFINE n == Cardinality(S)
           r == Ranked(S)
<1>1. n \in Nat
  BY FS_CardinalityType DEF AreCandidates
<1>2. ASSUME NEW i \in 1 .. n PROVE r[i] \in S /\ Position(S, r[i]) = i - 1
  <2>1. \E s \in S : Cardinality({o \in S : Before(o, s)}) = i - 1
    BY PositionsAreTaken DEF Position
  <2>2. r[i] = CHOOSE s \in S : Cardinality({o \in S : Before(o, s)}) = i - 1
    BY DEF Ranked
  <2> QED BY <2>1, <2>2 DEF Position
<1>3. r \in [1 .. n -> S]
  BY <1>2 DEF Ranked
<1>4. Len(r) = n
  BY <1>1, <1>3
<1>5. ASSUME NEW s \in S PROVE \E i \in 1 .. n : r[i] = s
  <2>1. Position(S, s) \in 0 .. n - 1
    BY PositionsFit
  <2> DEFINE i == Position(S, s) + 1
  <2>2. i \in 1 .. n /\ Position(S, s) = i - 1
    BY <1>1, <2>1
  <2>3. r[i] \in S /\ Position(S, r[i]) = Position(S, s)
    BY <1>2, <2>2
  <2>4. r[i] = s
    BY <2>3, BeforeIsTotal, PositionsGrow
  <2> QED BY <2>2, <2>4
<1>6. ASSUME NEW i \in 1 .. n, NEW j \in 1 .. n, i < j PROVE Before(r[i], r[j])
  <2>1. /\ r[i] \in S /\ r[j] \in S
        /\ Position(S, r[i]) = i - 1 /\ Position(S, r[j]) = j - 1
    BY <1>2
  <2>2. r[i] # r[j]
    BY <1>1, <1>6, <2>1
  <2>3. ~Before(r[j], r[i])
    BY <1>1, <1>6, <2>1, PositionsGrow
  <2> QED BY <2>1, <2>2, <2>3, BeforeIsTotal
<1> HIDE DEF n, r
<1> QED BY <1>1, <1>2, <1>3, <1>4, <1>5, <1>6 DEF n, r

-----------------------------------------------------------------------------
(* One turn of the loop of _select.                                        *)

LEMMA LeastOfThree ==
  ASSUME NEW i \in Nat, NEW j \in Nat, NEW k \in Nat
  PROVE  /\ Min({i, j, k}) \in Nat
         /\ Min({i, j, k}) <= i /\ Min({i, j, k}) <= j /\ Min({i, j, k}) <= k
<1>1. \E n \in {i, j, k} : \A m \in {i, j, k} : n <= m
  <2>1. CASE i <= j /\ i <= k
    BY <2>1
  <2>2. CASE j <= i /\ j <= k
    BY <2>2
  <2>3. CASE k <= i /\ k <= j
    BY <2>3
  <2> QED BY <2>1, <2>2, <2>3
<1>2. /\ Min({i, j, k}) \in {i, j, k}
      /\ \A m \in {i, j, k} : Min({i, j, k}) <= m
  BY <1>1 DEF Min
<1> QED BY <1>2

(* longest_utf8_prefix: a prefix is no longer than its limit.              *)
LEMMA PrefixFits ==
  ASSUME NEW source, source.width \in Nat \ {0}, NEW limit \in Nat
  PROVE  Prefix(source, limit) \in 0..limit
<1>1. PICK n \in Nat \ {0} : n = source.width
  OBVIOUS
<1>2. limit % n \in 0..(n - 1)
  OBVIOUS
<1>3. limit % n <= limit
  <2>1. CASE limit >= n
    BY <1>2, <2>1
  <2>2. CASE limit < n
    BY <2>2
  <2> QED BY <2>1, <2>2
<1> QED BY <1>1, <1>2, <1>3 DEF Prefix

(* What is chosen of a source fits into what every budget has left, so that*)
(* no turn of the loop overdraws one; what has been chosen of its class    *)
(* before is not chosen again, and what could not be fetched not at all.   *)
THEOREM ChoicesFit ==
  ASSUME NEW source, NEW fetched, NEW left, NEW budgets,
         source.bytes \in Nat, source.width \in Nat \ {0}, source.class \in Classes,
         source.truncation \in BOOLEAN,
         left.total \in Nat, left.class \in [Classes -> Nat], budgets.perSource \in Nat
  PROVE  LET bytes == Choice(source, fetched, left, budgets).bytes
         IN  /\ bytes \in Nat /\ bytes <= source.bytes
             /\ bytes <= left.total /\ bytes <= left.class[source.class]
             /\ bytes <= budgets.perSource
             /\ bytes > 0 => /\ fetched = "exact"
                             /\ Identity(source) \notin left.seen
<1> DEFINE allowance == Allowance(source, left, budgets)
           kept == CASE source.bytes <= allowance -> source.bytes
                     [] source.truncation /\ source.bytes > allowance
                          -> Prefix(source, allowance)
                     [] OTHER -> 0
           seen == Identity(source) \in left.seen
<1>1. /\ allowance \in Nat /\ allowance <= budgets.perSource
      /\ allowance <= left.total /\ allowance <= left.class[source.class]
  BY LeastOfThree DEF Allowance
<1>2. Choice(source, fetched, left, budgets).bytes
        = IF fetched # "exact" \/ seen THEN 0 ELSE kept
  BY DEF Choice
<1> HIDE DEF allowance, seen
<1>3. kept \in Nat /\ kept <= source.bytes /\ kept <= allowance
  <2>1. CASE source.bytes <= allowance
    <3>1. kept = source.bytes
      BY <1>1, <2>1
    <3> QED BY <2>1, <3>1
  <2>2. CASE source.truncation /\ source.bytes > allowance
    <3>1. kept = Prefix(source, allowance)
      BY <1>1, <2>2
    <3>2. Prefix(source, allowance) \in 0..allowance
      BY <1>1, PrefixFits
    <3> HIDE DEF kept
    <3> QED BY <1>1, <2>2, <3>1, <3>2
  <2>3. CASE ~source.truncation /\ source.bytes > allowance
    <3>1. kept = 0
      BY <1>1, <2>3
    <3> QED BY <1>1, <3>1
  <2> QED BY <1>1, <2>1, <2>2, <2>3
<1> HIDE DEF kept
<1>4. left.class[source.class] \in Nat
  OBVIOUS
<1> QED BY <1>1, <1>2, <1>3, <1>4 DEF seen

-----------------------------------------------------------------------------
(* The loop of _select.                                                    *)
Start(budgets) == [total |-> budgets.total, class |-> budgets.class, seen |-> {},
                   chosen |-> [s \in {} |-> {}]]

(* left is what the first k turns leave, turn by turn.                     *)
Leaves(left, ranked, fetched, budgets, k) ==
  left = [i \in 0 .. k |->
            IF i = 0 THEN Start(budgets)
            ELSE Rest(ranked[i], fetched[ranked[i]], left[i - 1], budgets)]

LEMMA LoopGoesOn ==
  ASSUME NEW k \in Nat, NEW left, NEW ranked, NEW fetched, NEW budgets,
         Leaves(left, ranked, fetched, budgets, k)
  PROVE  \E more : Leaves(more, ranked, fetched, budgets, k + 1)
<1> DEFINE turn(i, before) == Rest(ranked[i], fetched[ranked[i]], before, budgets)
           more == [i \in 0 .. k + 1 |-> IF i <= k THEN left[i] ELSE turn(i, left[k])]
<1>1. ASSUME NEW i \in 0 .. k
      PROVE  left[i] = IF i = 0 THEN Start(budgets) ELSE turn(i, left[i - 1])
  BY Zenon DEF Leaves
<1> HIDE DEF turn
<1>2. ASSUME NEW i \in 0 .. k + 1
      PROVE  more[i] = IF i = 0 THEN Start(budgets) ELSE turn(i, more[i - 1])
  <2>1. CASE i = 0
    BY <1>1, <2>1
  <2>2. CASE i \in 1 .. k
    BY <1>1, <2>2
  <2>3. CASE i = k + 1
    BY <2>3
  <2> QED BY <2>1, <2>2, <2>3
<1>3. more = [i \in 0 .. k + 1 |-> IF i = 0 THEN Start(budgets) ELSE turn(i, more[i - 1])]
  <2>1. more = [i \in 0 .. k + 1 |-> more[i]]
    OBVIOUS
  <2> HIDE DEF more
  <2> QED BY <1>2, <2>1, Zenon
<1> HIDE DEF more
<1>4. Leaves(more, ranked, fetched, budgets, k + 1)
  BY <1>3, Zenon DEF Leaves, turn
<1> QED BY <1>4

LEMMA LoopRuns ==
  ASSUME NEW n \in Nat, NEW ranked, NEW fetched, NEW budgets
  PROVE  \E left : Leaves(left, ranked, fetched, budgets, n)
<1> DEFINE Stuck == {k \in Nat : ~\E left : Leaves(left, ranked, fetched, budgets, k)}
<1> SUFFICES ASSUME Stuck # {} PROVE FALSE
  OBVIOUS
<1>1. PICK k \in Stuck : \A j \in Stuck : k <= j
  <2>1. Stuck \in SUBSET Nat
    OBVIOUS
  <2> HIDE DEF Stuck
  <2> QED BY <2>1, LeastNumber
<1>2. CASE k = 0
  <2> DEFINE left == [i \in 0 .. 0 |-> Start(budgets)]
  <2>1. left = [i \in 0 .. 0 |-> IF i = 0 THEN Start(budgets)
                  ELSE Rest(ranked[i], fetched[ranked[i]], left[i - 1], budgets)]
    OBVIOUS
  <2>2. Leaves(left, ranked, fetched, budgets, 0)
    BY <2>1, Zenon DEF Leaves
  <2> QED BY <1>2, <2>2
<1>3. CASE k # 0
  <2>1. k - 1 \in Nat /\ k - 1 \notin Stuck /\ (k - 1) + 1 = k
    BY <1>1, <1>3
  <2> QED BY <2>1, LoopGoesOn
<1> QED BY <1>2, <1>3

(* Every turn starts from what the one before it left.                     *)
LEMMA TurnByTurn ==
  ASSUME NEW ranked, NEW fetched, NEW budgets, Len(ranked) \in Nat
  PROVE  LET left == Leftovers(ranked, fetched, budgets)
         IN  /\ left[0] = Start(budgets)
             /\ \A i \in 1 .. Len(ranked) :
                  left[i] = Rest(ranked[i], fetched[ranked[i]], left[i - 1], budgets)
<1> DEFINE n == Len(ranked)
           left == Leftovers(ranked, fetched, budgets)
<1>1. left = CHOOSE g : Leaves(g, ranked, fetched, budgets, n)
  BY DEF Leftovers, Leaves, Start
<1>2. Leaves(left, ranked, fetched, budgets, n)
  BY <1>1, LoopRuns, Zenon
<1> HIDE DEF left
<1>3. left = [i \in 0 .. n |-> IF i = 0 THEN Start(budgets)
                ELSE Rest(ranked[i], fetched[ranked[i]], left[i - 1], budgets)]
  BY <1>2, Zenon DEF Leaves
<1> HIDE DEF n
<1>4. n \in Nat
  BY DEF n
<1>5. left[0] = Start(budgets)
  BY <1>3, <1>4
<1>6. ASSUME NEW i \in 1 .. n
      PROVE left[i] = Rest(ranked[i], fetched[ranked[i]], left[i - 1], budgets)
  BY <1>3, <1>4
<1> QED BY <1>5, <1>6 DEF left, n

-----------------------------------------------------------------------------
(* What was emitted of a set of sources, added up in whatever order.       *)

(* total is the sum over every set of sources in D.                        *)
Adds(total, selection, D) ==
  total = [T \in D |->
             IF T = {} THEN 0
             ELSE LET x == CHOOSE x \in T : TRUE IN selection[x].bytes + total[T \ {x}]]

UpTo(S, k) == {T \in SUBSET S : Cardinality(T) <= k}

LEMMA SumsGoOn ==
  ASSUME NEW S, IsFiniteSet(S), NEW selection, NEW k \in Nat, NEW total,
         Adds(total, selection, UpTo(S, k))
  PROVE  \E more : Adds(more, selection, UpTo(S, k + 1))
<1> DEFINE any(T) == CHOOSE x \in T : TRUE
           sum(T, before) == selection[any(T)].bytes + before[T \ {any(T)}]
           more == [T \in UpTo(S, k + 1) |->
                      IF T \in UpTo(S, k) THEN total[T] ELSE sum(T, total)]
<1>1. ASSUME NEW T \in UpTo(S, k)
      PROVE  total[T] = IF T = {} THEN 0 ELSE sum(T, total)
  BY Zenon DEF Adds
<1>2. {} \in UpTo(S, k)
  BY FS_EmptySet DEF UpTo
<1>3. ASSUME NEW T \in UpTo(S, k + 1), T # {}
      PROVE  /\ T \ {any(T)} \in UpTo(S, k)
             /\ T \ {any(T)} \in UpTo(S, k + 1)
  <2>1. any(T) \in T
    BY <1>3
  <2>2. T \in SUBSET S /\ IsFiniteSet(T) /\ Cardinality(T) \in Nat /\ Cardinality(T) <= k + 1
    BY <1>3, FS_Subset, FS_CardinalityType DEF UpTo
  <2> HIDE DEF any
  <2>3. Cardinality(T \ {any(T)}) = Cardinality(T) - 1
    BY <2>1, <2>2, FS_RemoveElement
  <2> QED BY <2>2, <2>3 DEF UpTo
<1>4. \A T \in UpTo(S, k) : T \in UpTo(S, k + 1)
  <2> SUFFICES ASSUME NEW T \in UpTo(S, k) PROVE T \in UpTo(S, k + 1)
    OBVIOUS
  <2>1. T \in SUBSET S /\ Cardinality(T) \in Nat /\ Cardinality(T) <= k
    BY FS_Subset, FS_CardinalityType DEF UpTo
  <2> QED BY <2>1 DEF UpTo
<1> HIDE DEF any
<1>5. ASSUME NEW T \in UpTo(S, k + 1)
      PROVE  more[T] = IF T = {} THEN 0 ELSE sum(T, more)
  <2>1. CASE T = {}
    BY <1>1, <1>2, <1>4, <2>1
  <2>2. CASE T # {}
    <3>1. T \ {any(T)} \in UpTo(S, k) /\ T \ {any(T)} \in UpTo(S, k + 1)
      BY <1>3, <2>2
    <3>2. more[T \ {any(T)}] = total[T \ {any(T)}]
      BY <3>1
    <3>3. more[T] = sum(T, total)
      BY <1>1, <2>2
    <3> QED BY <2>2, <3>2, <3>3
  <2> QED BY <2>1, <2>2
<1>6. more = [T \in UpTo(S, k + 1) |-> more[T]]
  OBVIOUS
<1> HIDE DEF more
<1>7. more = [T \in UpTo(S, k + 1) |-> IF T = {} THEN 0 ELSE sum(T, more)]
  BY <1>5, <1>6, Zenon
<1>8. Adds(more, selection, UpTo(S, k + 1))
  BY <1>7, Zenon DEF Adds, any
<1> QED BY <1>8

LEMMA SumsExist ==
  ASSUME NEW S, IsFiniteSet(S), NEW selection
  PROVE  \E total : Adds(total, selection, SUBSET S)
<1> DEFINE Stuck == {k \in Nat : ~\E total : Adds(total, selection, UpTo(S, k))}
<1>1. Cardinality(S) \in Nat /\ UpTo(S, Cardinality(S)) = SUBSET S
  BY FS_CardinalityType, FS_Subset DEF UpTo
<1> SUFFICES ASSUME Stuck # {} PROVE FALSE
  <2>1. CASE Stuck = {}
    <3>1. \E total : Adds(total, selection, UpTo(S, Cardinality(S)))
      BY <1>1, <2>1
    <3> QED BY <1>1, <3>1
  <2> QED BY <2>1
<1>2. PICK k \in Stuck : \A j \in Stuck : k <= j
  <2>1. Stuck \in SUBSET Nat
    OBVIOUS
  <2> HIDE DEF Stuck
  <2> QED BY <2>1, LeastNumber
<1>3. CASE k = 0
  <2> DEFINE total == [T \in {{}} |-> 0]
  <2>1. UpTo(S, 0) = {{}}
    BY FS_EmptySet, FS_Subset, FS_CardinalityType DEF UpTo
  <2>2. total = [T \in {{}} |-> IF T = {} THEN 0
                   ELSE LET x == CHOOSE x \in T : TRUE
                        IN  selection[x].bytes + total[T \ {x}]]
    OBVIOUS
  <2>3. Adds(total, selection, {{}})
    BY <2>2, Zenon DEF Adds
  <2> QED BY <1>3, <2>1, <2>3
<1>4. CASE k # 0
  <2>1. k - 1 \in Nat /\ k - 1 \notin Stuck /\ (k - 1) + 1 = k
    BY <1>2, <1>4
  <2> QED BY <2>1, SumsGoOn
<1> QED BY <1>3, <1>4

LEMMA SumsAgree ==
  ASSUME NEW S, IsFiniteSet(S), NEW T, T \subseteq S, NEW selection, NEW more, NEW total,
         Adds(more, selection, SUBSET S), Adds(total, selection, SUBSET T)
  PROVE  more[T] = total[T]
<1>0. T \in SUBSET S
  OBVIOUS
<1> DEFINE Bad == {U \in SUBSET T : more[U] # total[U]}
           any(U) == CHOOSE x \in U : TRUE
<1> SUFFICES ASSUME Bad # {} PROVE FALSE
  OBVIOUS
<1>1. PICK U \in Bad : \A V \in SUBSET U : V \in Bad => V = U
  <2>1. Bad \in SUBSET (SUBSET S)
    BY <1>0
  <2> HIDE DEF Bad
  <2> QED BY <2>1, LeastSubset
<1>2. more[U] = IF U = {} THEN 0 ELSE selection[any(U)].bytes + more[U \ {any(U)}]
  <2>1. U \in SUBSET S
    BY <1>0
  <2> QED BY <2>1, Zenon DEF Adds
<1>3. total[U] = IF U = {} THEN 0 ELSE selection[any(U)].bytes + total[U \ {any(U)}]
  BY Zenon DEF Adds
<1>4. U # {}
  BY <1>2, <1>3
<1>5. any(U) \in U
  BY <1>4
<1> HIDE DEF any
<1>6. U \ {any(U)} \in SUBSET T /\ U \ {any(U)} \notin Bad
  BY <1>1, <1>5
<1> QED BY <1>2, <1>3, <1>6

LEMMA EmittedIsASum ==
  ASSUME NEW S, IsFiniteSet(S), NEW selection
  PROVE  /\ S = {} => EmittedBytes(selection, S) = 0
         /\ S # {} => \E x \in S :
              EmittedBytes(selection, S)
                = selection[x].bytes + EmittedBytes(selection, S \ {x})
<1> DEFINE sum(T) == CHOOSE total : Adds(total, selection, SUBSET T)
           any(T) == CHOOSE x \in T : TRUE
<1>1. \A T : EmittedBytes(selection, T) = sum(T)[T]
  BY Zenon DEF EmittedBytes, MapThenSumSet, MapThenFoldSet, Adds
<1>2. ASSUME NEW T, IsFiniteSet(T) PROVE Adds(sum(T), selection, SUBSET T)
  BY <1>2, SumsExist, Zenon
<1> HIDE DEF sum
<1>3. sum(S) = [T \in SUBSET S |-> IF T = {} THEN 0
                  ELSE selection[any(T)].bytes + sum(S)[T \ {any(T)}]]
  BY <1>2, Zenon DEF Adds
<1>4. sum(S)[S] = IF S = {} THEN 0 ELSE selection[any(S)].bytes + sum(S)[S \ {any(S)}]
  BY <1>3
<1>5. CASE S = {}
  BY <1>1, <1>4, <1>5
<1>6. CASE S # {}
  <2>1. any(S) \in S
    BY <1>6
  <2> HIDE DEF any
  <2> DEFINE others == S \ {any(S)}
  <2>2. others \subseteq S /\ IsFiniteSet(others)
    BY FS_Subset
  <2>3. sum(S)[others] = sum(others)[others]
    <3>1. Adds(sum(S), selection, SUBSET S) /\ Adds(sum(others), selection, SUBSET others)
      BY <1>2, <2>2
    <3>2. PICK more, total : more = sum(S) /\ total = sum(others)
      OBVIOUS
    <3>3. Adds(more, selection, SUBSET S) /\ Adds(total, selection, SUBSET others)
      BY <3>1, <3>2
    <3> HIDE DEF others
    <3>4. more[others] = total[others]
      BY <2>2, <3>3, SumsAgree
    <3> QED BY <3>2, <3>4
  <2>4. sum(S)[others] = EmittedBytes(selection, others)
    BY <1>1, <2>3
  <2> QED BY <1>1, <1>4, <1>6, <2>1, <2>4
<1> QED BY <1>5, <1>6

(* Any source may be the last to be added.                                 *)
LEMMA EmittedOfOne ==
  ASSUME NEW S, IsFiniteSet(S), NEW selection, \A s \in S : selection[s].bytes \in Nat
  PROVE  /\ EmittedBytes(selection, S) \in Nat
         /\ \A x \in S : EmittedBytes(selection, S)
                          = selection[x].bytes + EmittedBytes(selection, S \ {x})
<1> DEFINE Good(T) ==
             /\ EmittedBytes(selection, T) \in Nat
             /\ \A x \in T : EmittedBytes(selection, T)
                              = selection[x].bytes + EmittedBytes(selection, T \ {x})
           Bad == {T \in SUBSET S : ~Good(T)}
<1> SUFFICES ASSUME Bad # {} PROVE FALSE
  OBVIOUS
<1>1. PICK T \in Bad : \A U \in SUBSET T : U \in Bad => U = T
  <2>1. Bad \in SUBSET (SUBSET S)
    OBVIOUS
  <2> HIDE DEF Bad
  <2> QED BY <2>1, LeastSubset
<1>2. \A U \in SUBSET T : U # T => Good(U)
  <2> HIDE DEF Good
  <2> QED BY <1>1
<1>3. IsFiniteSet(T)
  BY FS_Subset
<1>4. T # {}
  BY <1>3, EmittedIsASum
<1>5. PICK x \in T : EmittedBytes(selection, T)
                       = selection[x].bytes + EmittedBytes(selection, T \ {x})
  BY <1>3, <1>4, EmittedIsASum
<1>6. Good(T \ {x})
  <2> HIDE DEF Good
  <2> QED BY <1>2
<1>7. EmittedBytes(selection, T) \in Nat
  BY <1>5, <1>6
<1>8. ASSUME NEW y \in T, y # x
      PROVE  EmittedBytes(selection, T)
               = selection[y].bytes + EmittedBytes(selection, T \ {y})
  <2> DEFINE both == T \ {x, y}
  <2>1. both = (T \ {x}) \ {y} /\ both = (T \ {y}) \ {x}
    OBVIOUS
  <2>2. Good(T \ {y}) /\ Good(both)
    <3>1. T \ {y} \in SUBSET T /\ T \ {y} # T /\ both \in SUBSET T /\ both # T
      OBVIOUS
    <3> HIDE DEF Good, both
    <3> QED BY <1>2, <3>1
  <2>3. EmittedBytes(selection, T \ {x}) = selection[y].bytes + EmittedBytes(selection, both)
    BY <1>6, <1>8, <2>1
  <2>4. EmittedBytes(selection, T \ {y}) = selection[x].bytes + EmittedBytes(selection, both)
    BY <1>8, <2>1, <2>2
  <2>5. /\ selection[x].bytes \in Nat /\ selection[y].bytes \in Nat
        /\ EmittedBytes(selection, both) \in Nat
    BY <2>2
  <2> HIDE DEF both
  <2> QED BY <1>5, <2>3, <2>4, <2>5
<1> QED BY <1>1, <1>5, <1>7, <1>8

LEMMA EmittedOfOneMore ==
  ASSUME NEW S, IsFiniteSet(S), NEW x, x \notin S, NEW selection,
         \A s \in S \cup {x} : selection[s].bytes \in Nat
  PROVE  /\ EmittedBytes(selection, S) \in Nat
         /\ EmittedBytes(selection, S \cup {x})
              = EmittedBytes(selection, S) + selection[x].bytes
<1>1. IsFiniteSet(S \cup {x}) /\ (S \cup {x}) \ {x} = S
  BY FS_AddElement
<1>2. EmittedBytes(selection, S) \in Nat
  BY EmittedOfOne
<1>3. EmittedBytes(selection, S \cup {x})
        = selection[x].bytes + EmittedBytes(selection, (S \cup {x}) \ {x})
  BY <1>1, EmittedOfOne
<1>4. EmittedBytes(selection, (S \cup {x}) \ {x}) = EmittedBytes(selection, S)
  BY <1>1, Zenon
<1>5. selection[x].bytes \in Nat
  OBVIOUS
<1> QED BY <1>2, <1>3, <1>4, <1>5

-----------------------------------------------------------------------------
(* The turns of the loop together.                                         *)

LEMMA RankedOnce ==
  ASSUME NEW S, AreCandidates(S)
  PROVE  \A i, j \in 1 .. Cardinality(S) : Ranked(S)[i] = Ranked(S)[j] => i = j
<1> DEFINE n == Cardinality(S)
           r == Ranked(S)
<1> SUFFICES ASSUME NEW i \in 1 .. n, NEW j \in 1 .. n, r[i] = r[j], i # j PROVE FALSE
  OBVIOUS
<1>1. n \in Nat /\ r[i] \in S /\ (i < j => Before(r[i], r[j])) /\ (j < i => Before(r[j], r[i]))
  BY RankedIsSorted
<1>2. ~Before(r[i], r[i])
  BY <1>1, BeforeIsTotal
<1> HIDE DEF n, r
<1> QED BY <1>1, <1>2

(* The sources of the first i turns.                                       *)
Served(S, i) == {Ranked(S)[j] : j \in 1 .. i}

LEMMA OneMoreServed ==
  ASSUME NEW S, AreCandidates(S), NEW i \in 1 .. Cardinality(S)
  PROVE  /\ Served(S, 0) = {} /\ Served(S, Cardinality(S)) = S
         /\ Served(S, i) = Served(S, i - 1) \cup {Ranked(S)[i]}
         /\ Ranked(S)[i] \notin Served(S, i - 1)
         /\ Served(S, i - 1) \in SUBSET S /\ IsFiniteSet(Served(S, i - 1))
<1> DEFINE n == Cardinality(S)
           r == Ranked(S)
<1>1. /\ n \in Nat /\ \A j \in 1 .. n : r[j] \in S
      /\ \A s \in S : \E j \in 1 .. n : r[j] = s
  BY RankedIsSorted
<1>2. \A j \in 1 .. n : r[j] = r[i] => j = i
  BY RankedOnce
<1> HIDE DEF n, r
<1>3. i \in 1 .. n
  BY DEF n
<1>4. Served(S, 0) = {} /\ Served(S, n) = S
  BY <1>1 DEF Served, r
<1>5. 1 .. i = 1 .. (i - 1) \cup {i}
  BY <1>1, <1>3
<1>6. Served(S, i) = Served(S, i - 1) \cup {r[i]}
  BY <1>5 DEF Served, r
<1>7. r[i] \notin Served(S, i - 1)
  BY <1>1, <1>2, <1>3 DEF Served, r
<1>8. Served(S, i - 1) \in SUBSET S
  BY <1>1, <1>3 DEF Served, r
<1>9. IsFiniteSet(Served(S, i - 1))
  BY <1>8, FS_Subset DEF AreCandidates
<1> QED BY <1>4, <1>6, <1>7, <1>8, <1>9 DEF n, r

(* What is chosen of the sources of the first i turns is chosen in turn.   *)
ChosenSoFar(S, fetched, budgets, i) ==
  LET r == Ranked(S)
      left == Leftovers(r, fetched, budgets)
  IN  /\ DOMAIN left[i].chosen = Served(S, i)
      /\ \A j \in 1 .. i :
           left[i].chosen[r[j]] = Choice(r[j], fetched[r[j]], left[j - 1], budgets)

LEMMA ChosenTurnByTurn ==
  ASSUME NEW S, AreCandidates(S), NEW fetched, NEW budgets, NEW i \in 0 .. Cardinality(S)
  PROVE  ChosenSoFar(S, fetched, budgets, i)
<1> DEFINE n == Cardinality(S)
           r == Ranked(S)
           left == Leftovers(r, fetched, budgets)
           Bad == {j \in 0 .. n : ~ChosenSoFar(S, fetched, budgets, j)}
<1>1. n \in Nat /\ Len(r) = n
  BY RankedIsSorted
<1>2. /\ left[0] = Start(budgets)
      /\ \A j \in 1 .. n : left[j] = Rest(r[j], fetched[r[j]], left[j - 1], budgets)
  BY <1>1, TurnByTurn
<1> SUFFICES ASSUME Bad # {} PROVE FALSE
  OBVIOUS
<1>3. PICK j \in Bad : \A k \in Bad : j <= k
  <2>1. Bad \in SUBSET Nat
    BY <1>1
  <2> HIDE DEF Bad
  <2> QED BY <2>1, LeastNumber
<1>4. CASE j = 0
  <2>1. left[0].chosen = [s \in {} |-> {}]
    BY <1>2 DEF Start
  <2>2. Served(S, 0) = {}
    BY DEF Served
  <2>3. DOMAIN left[0].chosen = Served(S, 0)
    BY <2>1, <2>2
  <2> HIDE DEF left, r
  <2>4. ChosenSoFar(S, fetched, budgets, 0)
    BY <2>3 DEF ChosenSoFar, left, r
  <2> QED BY <1>3, <1>4, <2>4
<1>5. CASE j # 0
  <2>1. j \in 1 .. n /\ j - 1 \in 0 .. n /\ ~(j <= j - 1)
    BY <1>1, <1>3, <1>5
  <2> DEFINE x == r[j]
             before == left[j - 1]
             choice == Choice(x, fetched[x], before, budgets)
  <2>2. ChosenSoFar(S, fetched, budgets, j - 1)
    BY <1>3, <2>1
  <2>3. left[j].chosen = [s \in DOMAIN before.chosen \cup {x} |->
                            IF s = x THEN choice ELSE before.chosen[s]]
    <3>1. left[j] = Rest(x, fetched[x], before, budgets)
      BY <1>2, <2>1
    <3> HIDE DEF x, before
    <3> QED BY <3>1 DEF Rest
  <2>4. /\ Served(S, j) = Served(S, j - 1) \cup {x}
        /\ x \notin Served(S, j - 1)
    BY <2>1, OneMoreServed
  <2>5. /\ DOMAIN before.chosen = Served(S, j - 1)
        /\ \A k \in 1 .. j - 1 :
             before.chosen[r[k]] = Choice(r[k], fetched[r[k]], left[k - 1], budgets)
    BY <2>2 DEF ChosenSoFar
  <2>6. \A k \in 1 .. j - 1 : r[k] \in Served(S, j - 1)
    BY DEF Served
  <2> HIDE DEF left, r
  <2>7. ASSUME NEW k \in 1 .. j
        PROVE  left[j].chosen[r[k]] = Choice(r[k], fetched[r[k]], left[k - 1], budgets)
    <3>1. CASE k = j
      BY <2>3, <2>5, <3>1
    <3>2. CASE k # j
      <4>1. k \in 1 .. j - 1
        BY <2>1, <3>2
      <4>2. r[k] \in Served(S, j - 1) /\ r[k] # x
        BY <2>4, <2>6, <4>1
      <4>3. left[j].chosen[r[k]] = before.chosen[r[k]]
        BY <2>3, <2>5, <4>2
      <4> QED BY <2>5, <4>1, <4>3
    <3> QED BY <3>1, <3>2
  <2>8. DOMAIN left[j].chosen = Served(S, j)
    BY <2>3, <2>4, <2>5
  <2>9. ChosenSoFar(S, fetched, budgets, j)
    BY <2>7, <2>8 DEF ChosenSoFar, left, r
  <2> QED BY <1>3, <2>9
<1> QED BY <1>4, <1>5

(* Something is chosen of every candidate, and in its turn.                *)
LEMMA SelectionIsOfAll ==
  ASSUME NEW S, AreCandidates(S), NEW fetched, NEW budgets
  PROVE  DOMAIN Select(S, fetched, budgets) = S
<1> DEFINE n == Cardinality(S)
<1>1. n \in 0 .. n /\ Len(Ranked(S)) = n
  BY RankedIsSorted
<1>2. ChosenSoFar(S, fetched, budgets, n)
  BY <1>1, ChosenTurnByTurn
<1>3. Served(S, n) = S
  BY RankedIsSorted DEF Served
<1> QED BY <1>1, <1>2, <1>3 DEF Select, ChosenSoFar

LEMMA ChosenInTurn ==
  ASSUME NEW S, AreCandidates(S), NEW fetched, NEW budgets, NEW i \in 1 .. Cardinality(S)
  PROVE  LET r == Ranked(S)
             left == Leftovers(r, fetched, budgets)
         IN  Select(S, fetched, budgets)[r[i]] = Choice(r[i], fetched[r[i]], left[i - 1], budgets)
<1> DEFINE n == Cardinality(S)
<1>1. n \in 0 .. n /\ Len(Ranked(S)) = n
  BY RankedIsSorted
<1>2. ChosenSoFar(S, fetched, budgets, n)
  BY <1>1, ChosenTurnByTurn
<1> QED BY <1>1, <1>2 DEF Select, ChosenSoFar

OfClass(S, k) == {s \in S : s.class = k}
Identities(S, fetched) == {Identity(s) : s \in {t \in S : fetched[t] = "exact"}}

(* What is left and what has been emitted make up the budgets.             *)
Balance(S, fetched, budgets, selection, left, i) ==
  /\ left.total \in Nat /\ left.class \in [Classes -> Nat]
  /\ \A s \in Served(S, i) : selection[s].bytes \in Nat
  /\ left.total + EmittedBytes(selection, Served(S, i)) = budgets.total
  /\ \A k \in Classes :
       left.class[k] + EmittedBytes(selection, OfClass(Served(S, i), k)) = budgets.class[k]
  /\ left.seen = Identities(Served(S, i), fetched)

LEMMA BalanceAtStart ==
  ASSUME NEW S, NEW fetched, NEW budgets, AreBudgets(budgets), NEW selection
  PROVE  Balance(S, fetched, budgets, selection, Start(budgets), 0)
<1>1. Served(S, 0) = {} /\ \A k : OfClass({}, k) = {} /\ Identities({}, fetched) = {}
  BY DEF Served, OfClass, Identities
<1>2. EmittedBytes(selection, {}) = 0
  BY FS_EmptySet, EmittedIsASum
<1> QED BY <1>1, <1>2 DEF Balance, Start, AreBudgets

LEMMA TurnBalances ==
  ASSUME NEW S, AreCandidates(S), NEW fetched, NEW budgets, AreBudgets(budgets),
         NEW selection, NEW i \in 1 .. Cardinality(S), NEW left,
         Balance(S, fetched, budgets, selection, left, i - 1),
         selection[Ranked(S)[i]]
           = Choice(Ranked(S)[i], fetched[Ranked(S)[i]], left, budgets)
  PROVE  Balance(S, fetched, budgets, selection,
                 Rest(Ranked(S)[i], fetched[Ranked(S)[i]], left, budgets), i)
<1> DEFINE x == Ranked(S)[i]
           before == Served(S, i - 1)
           now == Served(S, i)
           rest == Rest(x, fetched[x], left, budgets)
           bytes == Choice(x, fetched[x], left, budgets).bytes
<1>1. /\ now = before \cup {x} /\ x \notin before
      /\ before \in SUBSET S /\ IsFiniteSet(before)
  BY OneMoreServed
<1>2. x \in S
  BY RankedIsSorted
<1>3. /\ x.class \in Classes /\ x.bytes \in Nat /\ x.width \in Nat \ {0}
      /\ x.truncation \in BOOLEAN
  BY <1>2 DEF AreCandidates
<1>4. /\ left.total \in Nat /\ left.class \in [Classes -> Nat] /\ budgets.perSource \in Nat
      /\ left.total + EmittedBytes(selection, before) = budgets.total
      /\ \A k \in Classes :
           left.class[k] + EmittedBytes(selection, OfClass(before, k)) = budgets.class[k]
      /\ left.seen = Identities(before, fetched)
      /\ \A s \in before : selection[s].bytes \in Nat
  BY DEF Balance, AreBudgets
<1>5. bytes \in Nat /\ bytes <= left.total /\ bytes <= left.class[x.class]
  BY <1>3, <1>4, ChoicesFit
<1>6. selection[x].bytes = bytes
  OBVIOUS
<1>7. /\ rest.total = left.total - bytes
      /\ rest.class = [left.class EXCEPT ![x.class] = left.class[x.class] - bytes]
      /\ rest.seen = IF fetched[x] # "exact" THEN left.seen
                     ELSE left.seen \cup {Identity(x)}
  BY DEF Rest
<1> HIDE DEF x, before, now, rest, bytes
<1>8. rest.total \in Nat /\ rest.total + EmittedBytes(selection, now) = budgets.total
  <2>1. /\ EmittedBytes(selection, before) \in Nat
        /\ EmittedBytes(selection, now) = EmittedBytes(selection, before) + bytes
    <3>1. \A s \in before \cup {x} : selection[s].bytes \in Nat
      BY <1>4, <1>5, <1>6
    <3> QED BY <1>1, <1>6, <3>1, EmittedOfOneMore
  <2> QED BY <1>4, <1>5, <1>7, <2>1
<1>9. rest.class \in [Classes -> Nat]
  BY <1>3, <1>4, <1>5, <1>7
<1>10. ASSUME NEW k \in Classes
       PROVE  rest.class[k] + EmittedBytes(selection, OfClass(now, k)) = budgets.class[k]
  <2>1. OfClass(before, k) \in SUBSET S /\ IsFiniteSet(OfClass(before, k))
        /\ x \notin OfClass(before, k)
    BY <1>1, FS_Subset DEF OfClass
  <2>2. CASE x.class = k
    <3>1. OfClass(now, k) = OfClass(before, k) \cup {x}
      BY <1>1, <2>2 DEF OfClass
    <3>2. \A s \in OfClass(before, k) \cup {x} : selection[s].bytes \in Nat
      BY <1>4, <1>5, <1>6 DEF OfClass
    <3>3. /\ EmittedBytes(selection, OfClass(before, k)) \in Nat
          /\ EmittedBytes(selection, OfClass(now, k))
               = EmittedBytes(selection, OfClass(before, k)) + bytes
      BY <1>6, <2>1, <3>1, <3>2, EmittedOfOneMore
    <3>4. rest.class[k] = left.class[k] - bytes /\ left.class[k] \in Nat
      BY <1>4, <1>7, <2>2
    <3> QED BY <1>4, <1>5, <3>3, <3>4
  <2>3. CASE x.class # k
    <3>1. OfClass(now, k) = OfClass(before, k)
      BY <1>1, <2>3 DEF OfClass
    <3>2. rest.class[k] = left.class[k]
      BY <1>4, <1>7, <2>3
    <3> QED BY <1>4, <3>1, <3>2
  <2> QED BY <2>2, <2>3
<1>11. rest.seen = Identities(now, fetched)
  <2>1. CASE fetched[x] = "exact"
    BY <1>1, <1>4, <1>7, <2>1 DEF Identities
  <2>2. CASE fetched[x] # "exact"
    BY <1>1, <1>4, <1>7, <2>2 DEF Identities
  <2> QED BY <2>1, <2>2
<1>12. \A s \in now : selection[s].bytes \in Nat
  BY <1>1, <1>4, <1>5, <1>6
<1>13. Balance(S, fetched, budgets, selection, rest, i)
  BY <1>8, <1>9, <1>10, <1>11, <1>12 DEF Balance, now
<1> QED BY <1>13 DEF rest, x

(* The books are balanced after every turn.                                *)
LEMMA SelectionBalances ==
  ASSUME NEW S, AreCandidates(S), NEW fetched, NEW budgets, AreBudgets(budgets),
         NEW i \in 0 .. Cardinality(S)
  PROVE  Balance(S, fetched, budgets, Select(S, fetched, budgets),
                 Leftovers(Ranked(S), fetched, budgets)[i], i)
<1> DEFINE n == Cardinality(S)
           r == Ranked(S)
           left == Leftovers(r, fetched, budgets)
           selection == Select(S, fetched, budgets)
           Bad == {j \in 0 .. n : ~Balance(S, fetched, budgets, selection, left[j], j)}
<1>1. n \in Nat /\ Len(r) = n
  BY RankedIsSorted
<1>2. /\ left[0] = Start(budgets)
      /\ \A j \in 1 .. n : left[j] = Rest(r[j], fetched[r[j]], left[j - 1], budgets)
  BY <1>1, TurnByTurn
<1>3. \A j \in 1 .. n : selection[r[j]] = Choice(r[j], fetched[r[j]], left[j - 1], budgets)
  BY ChosenInTurn
<1> SUFFICES ASSUME Bad # {} PROVE FALSE
  OBVIOUS
<1>4. PICK j \in Bad : \A k \in Bad : j <= k
  <2>1. Bad \in SUBSET Nat
    BY <1>1
  <2> HIDE DEF Bad
  <2> QED BY <2>1, LeastNumber
<1>5. CASE j = 0
  BY <1>2, <1>4, <1>5, BalanceAtStart
<1>6. CASE j # 0
  <2>1. j \in 1 .. n /\ j - 1 \in 0 .. n /\ ~(j <= j - 1)
    BY <1>1, <1>4, <1>6
  <2>2. Balance(S, fetched, budgets, selection, left[j - 1], j - 1)
    BY <1>4, <2>1
  <2>3. selection[r[j]] = Choice(r[j], fetched[r[j]], left[j - 1], budgets)
    BY <1>3, <2>1
  <2> HIDE DEF left, selection, Bad
  <2>4. Balance(S, fetched, budgets, selection, Rest(r[j], fetched[r[j]], left[j - 1], budgets), j)
    BY <2>1, <2>2, <2>3, TurnBalances
  <2>5. Balance(S, fetched, budgets, selection, left[j], j)
    BY <1>2, <2>1, <2>4
  <2> QED BY <1>4, <2>5 DEF Bad
<1> QED BY <1>5, <1>6

(* _select: whatever the candidates, their sizes and ranks, and whatever   *)
(* could be fetched of them, no budget is exceeded.                        *)
THEOREM SelectionFits ==
  ASSUME NEW S, AreCandidates(S), NEW fetched, NEW budgets, AreBudgets(budgets)
  PROVE  LET selection == Select(S, fetched, budgets)
         IN  /\ EmittedBytes(selection, S) <= budgets.total
             /\ \A k \in Classes : EmittedBytes(selection, OfClass(S, k)) <= budgets.class[k]
             /\ \A s \in S : selection[s].bytes <= budgets.perSource
<1> DEFINE n == Cardinality(S)
           r == Ranked(S)
           left == Leftovers(r, fetched, budgets)
           selection == Select(S, fetched, budgets)
<1>1. /\ n \in Nat /\ \A i \in 1 .. n : r[i] \in S
      /\ \A s \in S : \E i \in 1 .. n : r[i] = s
  BY RankedIsSorted
<1>2. \A i \in 0 .. n : Balance(S, fetched, budgets, selection, left[i], i)
  BY SelectionBalances
<1>3. \A i \in 1 .. n : selection[r[i]] = Choice(r[i], fetched[r[i]], left[i - 1], budgets)
  BY ChosenInTurn
<1>4. Served(S, n) = S
  <2>1. \A s \in S : \E i \in 1 .. n : r[i] = s
    BY <1>1
  <2> QED BY <1>1 DEF Served
<1> HIDE DEF n, r, left, selection
<1>5. IsFiniteSet(S) /\ \A s \in S : selection[s].bytes \in Nat
  BY <1>1, <1>2, <1>4 DEF AreCandidates, Balance
<1>6. /\ left[n].total \in Nat /\ left[n].class \in [Classes -> Nat]
      /\ left[n].total + EmittedBytes(selection, S) = budgets.total
      /\ \A k \in Classes :
           left[n].class[k] + EmittedBytes(selection, OfClass(S, k)) = budgets.class[k]
  BY <1>1, <1>2, <1>4 DEF Balance
<1>7. EmittedBytes(selection, S) \in Nat
  BY <1>5, EmittedOfOne
<1>8. ASSUME NEW k \in Classes
      PROVE  EmittedBytes(selection, OfClass(S, k)) \in Nat
  <2>1. IsFiniteSet(OfClass(S, k)) /\ \A s \in OfClass(S, k) : selection[s].bytes \in Nat
    BY <1>5, FS_Subset DEF OfClass
  <2> QED BY <2>1, EmittedOfOne
<1>9. EmittedBytes(selection, S) <= budgets.total
  BY <1>6, <1>7 DEF AreBudgets
<1>10. ASSUME NEW k \in Classes
       PROVE  EmittedBytes(selection, OfClass(S, k)) <= budgets.class[k]
  BY <1>6, <1>8 DEF AreBudgets
<1>11. ASSUME NEW s \in S PROVE selection[s].bytes <= budgets.perSource
  <2>1. PICK i \in 1 .. n : r[i] = s
    BY <1>1
  <2>2. i - 1 \in 0 .. n
    BY <1>1
  <2>3. left[i - 1].total \in Nat /\ left[i - 1].class \in [Classes -> Nat]
    BY <1>2, <2>2 DEF Balance
  <2>4. /\ s.class \in Classes /\ s.bytes \in Nat /\ s.width \in Nat \ {0}
        /\ s.truncation \in BOOLEAN
    BY DEF AreCandidates
  <2>5. Choice(s, fetched[s], left[i - 1], budgets).bytes <= budgets.perSource
    BY <2>3, <2>4, ChoicesFit DEF AreBudgets
  <2> QED BY <1>3, <2>1, <2>5
<1> QED BY <1>9, <1>10, <1>11 DEF selection

-----------------------------------------------------------------------------
(* What a compilation selects from.                                        *)

ContextFields == {"at", "request", "control", "fetched", "pack"}
RequestFields == {"issue", "control", "context", "product", "current", "inputs", "budgets"}

(* A compilation is about one offer, and a pack is what _select makes of   *)
(* it.                                                                     *)
SelectInv ==
  /\ DOMAIN c = ContextFields /\ DOMAIN c.request = RequestFields
  /\ c.at # "idle" => \E offer \in Offers : /\ c.request.inputs = offer.inputs
                                            /\ c.request.budgets = {offer.budgets}
  /\ c.at \in {"select", "packed"} => \E f \in [c.request.inputs -> Retrievals] : c.fetched = {f}
  /\ c.at # "packed" => c.pack = {}
  /\ c.pack \subseteq {Select(Candidates, Retrieved, Budgets)}

LEMMA SelectInitially == InitContext => SelectInv
BY DEF InitContext, NoRequest, SelectInv, ContextFields, RequestFields

LEMMA SelectGoesOn ==
  ASSUME SelectInv, c.at \notin {"idle", "packed"},
         DOMAIN c' = ContextFields, c'.request = c.request, c'.pack = c.pack,
         c'.at \notin {"idle", "select", "packed"}
  PROVE  SelectInv'
BY DEF SelectInv

LEMMA TurnsGoOn ==
  ASSUME SelectInv, c.at \notin {"idle", "packed"}, NEW at, Turn([c EXCEPT !.at = at]),
         at \notin {"idle", "select", "packed"}
  PROVE  SelectInv'
<1>1. c' = [c EXCEPT !.at = at] /\ DOMAIN c = ContextFields
  BY DEF Turn, SelectInv
<1>2. /\ DOMAIN c' = ContextFields /\ c'.request = c.request /\ c'.pack = c.pack
      /\ c'.at = at
  BY <1>1 DEF ContextFields
<1> QED BY <1>2, SelectGoesOn

LEMMA AuthorKeepsSelection == SelectInv /\ AuthorReads => SelectInv'
<1> SUFFICES ASSUME SelectInv, AuthorReads PROVE SelectInv'
  OBVIOUS
<1>1. PICK field, value : c' = [c EXCEPT !.request = [c.request EXCEPT ![field] = value]]
  BY DEF AuthorReads, Turn
<1>2. c.at = "idle" /\ DOMAIN c = ContextFields /\ DOMAIN c.request = RequestFields
      /\ c.pack = {}
  BY DEF AuthorReads, SelectInv
<1>3. /\ DOMAIN c' = ContextFields /\ DOMAIN c'.request = RequestFields
      /\ c'.at = "idle" /\ c'.pack = {}
  BY <1>1, <1>2 DEF ContextFields
<1> QED BY <1>3 DEF SelectInv

LEMMA RequestKeepsSelection == SelectInv /\ CompleteRequest => SelectInv'
<1> SUFFICES ASSUME SelectInv, CompleteRequest PROVE SelectInv'
  OBVIOUS
<1>1. PICK current \in BOOLEAN, choice \in Offers :
        c' = [c EXCEPT !.at = "control", !.request.current = current,
                       !.request.inputs = choice.inputs,
                       !.request.budgets = {choice.budgets}]
  BY DEF CompleteRequest
<1>2. c.at = "idle" /\ DOMAIN c = ContextFields /\ DOMAIN c.request = RequestFields
      /\ c.pack = {}
  BY DEF CompleteRequest, SelectInv
<1>3. /\ DOMAIN c' = ContextFields /\ c'.at = "control" /\ c'.pack = {}
      /\ c'.request = [c.request EXCEPT !.current = current, !.inputs = choice.inputs,
                                        !.budgets = {choice.budgets}]
  BY <1>1, <1>2 DEF ContextFields
<1>4. /\ DOMAIN c'.request = RequestFields
      /\ c'.request.inputs = choice.inputs /\ c'.request.budgets = {choice.budgets}
  BY <1>2, <1>3 DEF RequestFields
<1> QED BY <1>3, <1>4 DEF SelectInv

LEMMA FetchingKeepsSelection == SelectInv /\ FetchSources => SelectInv'
<1> SUFFICES ASSUME SelectInv, FetchSources PROVE SelectInv'
  OBVIOUS
<1>0. c.at = "fetch" /\ DOMAIN c = ContextFields /\ c.pack = {}
  BY DEF FetchSources, SelectInv
<1>1. CASE Refuse
  BY <1>0, <1>1, TurnsGoOn DEF Refuse
<1>2. ASSUME NEW f \in [c.request.inputs -> Retrievals],
             c' = [c EXCEPT !.at = "select", !.fetched = {f}]
      PROVE  SelectInv'
  <2>1. /\ DOMAIN c' = ContextFields /\ c'.request = c.request /\ c'.pack = {}
        /\ c'.at = "select" /\ c'.fetched = {f}
    BY <1>0, <1>2 DEF ContextFields
  <2>2. \E g \in [c'.request.inputs -> Retrievals] : c'.fetched = {g}
    BY <2>1
  <2> QED BY <1>0, <2>1, <2>2 DEF SelectInv
<1> QED BY <1>1, <1>2 DEF FetchSources, Turn

LEMMA EmittingKeepsSelection == SelectInv /\ EmitPack => SelectInv'
<1> SUFFICES ASSUME SelectInv, EmitPack PROVE SelectInv'
  OBVIOUS
<1>0. c.at = "select" /\ DOMAIN c = ContextFields
  BY DEF EmitPack, SelectInv
<1>1. CASE Refuse
  BY <1>0, <1>1, TurnsGoOn DEF Refuse
<1>2. CASE c' = [c EXCEPT !.at = "packed", !.pack = {Select(Candidates, Retrieved, Budgets)}]
  <2>1. /\ DOMAIN c' = ContextFields /\ c'.request = c.request /\ c'.at = "packed"
        /\ c'.fetched = c.fetched /\ c'.pack = {Select(Candidates, Retrieved, Budgets)}
    BY <1>0, <1>2 DEF ContextFields
  <2>2. /\ Candidates' = Candidates /\ Budgets' = Budgets
    BY <2>1 DEF Candidates, Budgets
  <2>3. Retrieved' = Retrieved
    BY <2>1, <2>2 DEF Retrieved
  <2>4. c'.pack = {Select(Candidates', Retrieved', Budgets')}
    BY <2>1, <2>2, <2>3
  <2>5. c'.pack \subseteq {Select(Candidates, Retrieved, Budgets)'}
    BY <2>4, Zenon
  <2> QED BY <1>0, <2>1, <2>5 DEF SelectInv
<1> QED BY <1>1, <1>2 DEF EmitPack, Turn

LEMMA SelectKept == SelectInv /\ (ContextNext \/ UNCHANGED c) => SelectInv'
<1> SUFFICES ASSUME SelectInv, ContextNext \/ UNCHANGED c PROVE SelectInv'
  OBVIOUS
<1>1. CASE UNCHANGED c
  <2>1. Candidates' = Candidates /\ Retrieved' = Retrieved /\ Budgets' = Budgets
    BY <1>1 DEF Candidates, Retrieved, Budgets
  <2>2. Select(Candidates, Retrieved, Budgets)' = Select(Candidates, Retrieved, Budgets)
    BY <1>1, <2>1
  <2> QED BY <1>1, <2>2 DEF SelectInv
<1>2. CASE ObserveControl
  <2>1. c.at = "control" /\ DOMAIN c = ContextFields
        /\ c' = [c EXCEPT !.at = "context", !.control = {heads["control"]}]
    BY <1>2 DEF ObserveControl, Turn, SelectInv
  <2>2. /\ DOMAIN c' = ContextFields /\ c'.request = c.request /\ c'.pack = c.pack
        /\ c'.at = "context"
    BY <2>1 DEF ContextFields
  <2> QED BY <2>1, <2>2, SelectGoesOn
<1>3. CASE ObserveContext
  BY <1>3, TurnsGoOn DEF ObserveContext, Refuse
<1>4. CASE ObserveProduct
  BY <1>4, TurnsGoOn DEF ObserveProduct, Refuse
<1>5. CASE FetchIssue
  BY <1>5, TurnsGoOn DEF FetchIssue, Refuse
<1> QED BY <1>1, <1>2, <1>3, <1>4, <1>5, AuthorKeepsSelection, RequestKeepsSelection,
           FetchingKeepsSelection, EmittingKeepsSelection
        DEF ContextNext

(* The compilation keeps what the selection rests on: what was offered, the*)
(* retrieval of what was asked for, and a pack that _select made of them.   *)
THEOREM SelectInvariant == ContextSpec => []SelectInv
<1>1. [ContextNext \/ OthersDuringContext]_<<contextVars, sourceVars>>
        => ContextNext \/ UNCHANGED c
  BY DEF OthersDuringContext, contextVars
<1> QED BY <1>1, SelectInitially, SelectKept, PTL DEF ContextSpec

LEMMA MandatoryAreCandidates ==
  /\ IsFiniteSet(Mandatory)
  /\ \A s \in Mandatory :
       /\ s.id \in Nat /\ s.class \in Classes /\ s.priority \in Nat
       /\ s.required \in BOOLEAN /\ s.truncation \in BOOLEAN
       /\ s.bytes \in Nat /\ s.width \in Nat \ {0} /\ s.class # ProductSource
  /\ \A s, t \in Mandatory : s.id = t.id => s = t
<1>1. IsFiniteSet(Mandatory)
  <2>1. \A a, b, d, e, f : IsFiniteSet({a, b, d, e, f})
    <3> TAKE a, b, d, e, f
    <3>1. {a, b, d, e, f} = (((({} \cup {a}) \cup {b}) \cup {d}) \cup {e}) \cup {f}
      OBVIOUS
    <3>2. IsFiniteSet((((({} \cup {a}) \cup {b}) \cup {d}) \cup {e}) \cup {f})
      BY FS_EmptySet, FS_AddElement
    <3> QED BY <3>1, <3>2
  <2> QED BY <2>1 DEF Mandatory
<1> QED BY <1>1 DEF Mandatory, Source, Classes, CurrentState, GitHubCI, ProductSource,
                    KnowledgeDelta, Ledger

LEMMA CompilationIsTyped ==
  ASSUME SelectInv, c.at # "idle"
  PROVE  AreCandidates(Candidates) /\ AreBudgets(Budgets)
<1>1. PICK offer \in Offers : /\ c.request.inputs = offer.inputs
                              /\ c.request.budgets = {offer.budgets}
  BY DEF SelectInv
<1>2. Candidates = Mandatory \cup offer.inputs /\ Budgets = offer.budgets
  BY <1>1 DEF Candidates, Budgets
<1>3. IsFiniteSet(Candidates)
  BY <1>2, MandatoryAreCandidates, OffersAssumption, FS_Union
<1>4. ProductSource \in Classes
  BY DEF ProductSource, Classes
<1>5. AreCandidates(Candidates)
  BY <1>2, <1>3, <1>4, MandatoryAreCandidates, OffersAssumption DEF AreCandidates
<1> QED BY <1>2, <1>5, OffersAssumption DEF AreBudgets

LEMMA PacksFit ==
  ASSUME SelectInv PROVE BudgetsHold
<1> SUFFICES ASSUME NEW selection \in c.pack
             PROVE  /\ EmittedBytes(selection, DOMAIN selection) <= Budgets.total
                    /\ \A k \in Classes :
                         EmittedBytes(selection, {s \in DOMAIN selection : s.class = k})
                           <= Budgets.class[k]
                    /\ \A s \in DOMAIN selection : selection[s].bytes <= Budgets.perSource
  BY Zenon DEF BudgetsHold
<1>1. c.at = "packed" /\ selection = Select(Candidates, Retrieved, Budgets)
  BY DEF SelectInv
<1>2. AreCandidates(Candidates) /\ AreBudgets(Budgets)
  BY <1>1, CompilationIsTyped
<1>3. DOMAIN selection = Candidates
  BY <1>1, <1>2, SelectionIsOfAll
<1> QED BY <1>1, <1>2, <1>3, SelectionFits DEF OfClass

(* _select: no pack exceeds the total, a class's or a source's budget.     *)
THEOREM BudgetsAlwaysHold == ContextSpec => []BudgetsHold
<1> QED BY SelectInvariant, PacksFit, PTL

-----------------------------------------------------------------------------
(* Required sources come first: the optional ones change nothing of what   *)
(* is chosen of them.                                                      *)
Required(S) == {s \in S : s.required}

LEMMA RequiredFirst ==
  ASSUME NEW S, AreCandidates(S)
  PROVE  /\ AreCandidates(Required(S)) /\ Cardinality(Required(S)) <= Cardinality(S)
         /\ \A s \in Required(S) : Position(Required(S), s) = Position(S, s)
<1>1. Required(S) \in SUBSET S
  BY DEF Required
<1>2. IsFiniteSet(Required(S)) /\ Cardinality(Required(S)) <= Cardinality(S)
  BY <1>1, FS_Subset DEF AreCandidates
<1>3. AreCandidates(Required(S))
  BY <1>1, <1>2 DEF AreCandidates
<1>4. ASSUME NEW s \in Required(S) PROVE Position(Required(S), s) = Position(S, s)
  <2>1. \A o \in S : Before(o, s) => o \in Required(S)
    BY DEF Required, Before
  <2>2. {o \in Required(S) : Before(o, s)} = {o \in S : Before(o, s)}
    BY <1>1, <2>1
  <2> QED BY <2>2 DEF Position
<1> QED BY <1>2, <1>3, <1>4

LEMMA RequiredRankedFirst ==
  ASSUME NEW S, AreCandidates(S), NEW i \in 1 .. Cardinality(Required(S))
  PROVE  /\ i \in 1 .. Cardinality(S)
         /\ Ranked(Required(S))[i] = Ranked(S)[i]
<1> DEFINE R == Required(S)
           x == Ranked(R)[i]
           y == Ranked(S)[i]
<1>1. /\ AreCandidates(R) /\ Cardinality(R) <= Cardinality(S)
      /\ \A s \in R : Position(R, s) = Position(S, s)
  BY RequiredFirst
<1>2. Cardinality(R) \in Nat /\ x \in R /\ Position(R, x) = i - 1
  <2> HIDE DEF R
  <2> QED BY <1>1, RankedIsSorted DEF R
<1>3. Cardinality(S) \in Nat
  BY RankedIsSorted
<1>4. i \in 1 .. Cardinality(S)
  BY <1>1, <1>2, <1>3
<1>5. y \in S /\ Position(S, y) = i - 1
  BY <1>4, RankedIsSorted
<1>6. x \in S
  BY <1>2 DEF Required
<1> HIDE DEF x, y, R
<1>7. Position(S, x) = Position(S, y)
  BY <1>1, <1>2, <1>5
<1>8. x = y
  BY <1>5, <1>6, <1>7, BeforeIsTotal, PositionsGrow
<1> QED BY <1>4, <1>8 DEF x, y, R

LEMMA RequiredLeaveTheSame ==
  ASSUME NEW S, AreCandidates(S), NEW fetched, NEW budgets,
         NEW i \in 0 .. Cardinality(Required(S))
  PROVE  Leftovers(Ranked(Required(S)), fetched, budgets)[i]
           = Leftovers(Ranked(S), fetched, budgets)[i]
<1> DEFINE R == Required(S)
           m == Cardinality(R)
           n == Cardinality(S)
           few == Ranked(R)
           all == Ranked(S)
           left == Leftovers(few, fetched, budgets)
           more == Leftovers(all, fetched, budgets)
           Bad == {j \in 0 .. m : left[j] # more[j]}
<1>1. AreCandidates(R)
  BY RequiredFirst
<1>2. m \in Nat /\ Len(few) = m
  <2> HIDE DEF R
  <2> QED BY <1>1, RankedIsSorted
<1>3. n \in Nat /\ Len(all) = n
  BY RankedIsSorted
<1>4. \A j \in 1 .. m : j \in 1 .. n /\ few[j] = all[j]
  BY RequiredRankedFirst
<1> HIDE DEF few, all, n, m
<1>5. /\ left[0] = Start(budgets)
      /\ \A j \in 1 .. m : left[j] = Rest(few[j], fetched[few[j]], left[j - 1], budgets)
  BY <1>2, TurnByTurn
<1>6. /\ more[0] = Start(budgets)
      /\ \A j \in 1 .. n : more[j] = Rest(all[j], fetched[all[j]], more[j - 1], budgets)
  BY <1>3, TurnByTurn
<1> HIDE DEF left, more
<1> SUFFICES ASSUME Bad # {} PROVE FALSE
  BY DEF left, more, few, all, m
<1>7. PICK j \in Bad : \A k \in Bad : j <= k
  <2>1. Bad \in SUBSET Nat
    BY <1>2
  <2> HIDE DEF Bad
  <2> QED BY <2>1, LeastNumber
<1>8. j # 0
  BY <1>5, <1>6, <1>7
<1>9. j \in 1 .. m /\ j - 1 \in 0 .. m /\ ~(j <= j - 1)
  BY <1>2, <1>7, <1>8
<1>10. left[j - 1] = more[j - 1]
  BY <1>7, <1>9
<1> QED BY <1>4, <1>5, <1>6, <1>7, <1>9, <1>10

(* _select: what is chosen of the required sources is what would be chosen *)
(* of them alone.                                                          *)
THEOREM RequiredChosenAlone ==
  ASSUME NEW S, AreCandidates(S), NEW fetched, NEW budgets, NEW s \in Required(S)
  PROVE  Select(S, fetched, budgets)[s] = Select(Required(S), fetched, budgets)[s]
<1> DEFINE R == Required(S)
<1>1. AreCandidates(R)
  BY RequiredFirst
<1>2. PICK i \in 1 .. Cardinality(R) : Ranked(R)[i] = s
  <2> HIDE DEF R
  <2> QED BY <1>1, RankedIsSorted DEF R
<1>3. i \in 1 .. Cardinality(S) /\ Ranked(S)[i] = s
  BY <1>2, RequiredRankedFirst
<1>4. Cardinality(R) \in Nat
  <2> HIDE DEF R
  <2> QED BY <1>1, RankedIsSorted
<1>5. Leftovers(Ranked(R), fetched, budgets)[i - 1] = Leftovers(Ranked(S), fetched, budgets)[i - 1]
  BY <1>4, RequiredLeaveTheSame
<1>6. Select(R, fetched, budgets)[s]
        = Choice(s, fetched[s], Leftovers(Ranked(R), fetched, budgets)[i - 1], budgets)
  <2> HIDE DEF R
  <2> QED BY <1>1, <1>2, ChosenInTurn
<1>7. Select(S, fetched, budgets)[s]
        = Choice(s, fetched[s], Leftovers(Ranked(S), fetched, budgets)[i - 1], budgets)
  BY <1>3, ChosenInTurn
<1> QED BY <1>5, <1>6, <1>7

LEMMA PacksPutRequiredFirst ==
  ASSUME SelectInv PROVE OptionalNeverDisplaces
<1> SUFFICES ASSUME NEW selection \in c.pack, NEW s \in Required(Candidates)
             PROVE  selection[s] = Select(Required(Candidates), Retrieved, Budgets)[s]
  BY Zenon DEF OptionalNeverDisplaces, Required
<1>1. c.at = "packed" /\ selection = Select(Candidates, Retrieved, Budgets)
  BY DEF SelectInv
<1>2. AreCandidates(Candidates)
  BY <1>1, CompilationIsTyped
<1> QED BY <1>1, <1>2, RequiredChosenAlone

(* _select: optional sources never take anything from required ones.       *)
THEOREM OptionalNeverDisplacesRequired == ContextSpec => []OptionalNeverDisplaces
<1> QED BY SelectInvariant, PacksPutRequiredFirst, PTL

-----------------------------------------------------------------------------
(* Nothing is left out that would still fit, or that was not chosen before.*)

LEMMA LeftoversShrink ==
  ASSUME NEW S, AreCandidates(S), NEW fetched, NEW budgets, AreBudgets(budgets),
         NEW j \in 0 .. Cardinality(S)
  PROVE  LET left == Leftovers(Ranked(S), fetched, budgets)
         IN  \A i \in 0 .. j : /\ left[j].total <= left[i].total
                               /\ \A k \in Classes : left[j].class[k] <= left[i].class[k]
<1> DEFINE n == Cardinality(S)
           r == Ranked(S)
           left == Leftovers(r, fetched, budgets)
           Good(h) == \A i \in 0 .. h :
                        /\ left[h].total <= left[i].total
                        /\ \A k \in Classes : left[h].class[k] <= left[i].class[k]
           Bad == {h \in 0 .. n : ~Good(h)}
<1>1. n \in Nat /\ Len(r) = n /\ \A h \in 1 .. n : r[h] \in S
  BY RankedIsSorted
<1>2. \A h \in 1 .. n : left[h] = Rest(r[h], fetched[r[h]], left[h - 1], budgets)
  BY <1>1, TurnByTurn
<1>3. \A h \in 0 .. n : left[h].total \in Nat /\ left[h].class \in [Classes -> Nat]
  BY SelectionBalances DEF Balance
<1> HIDE DEF n, r, left
<1> SUFFICES ASSUME Bad # {} PROVE FALSE
  BY DEF left, r, n
<1>4. PICK h \in Bad : \A g \in Bad : h <= g
  <2>1. Bad \in SUBSET Nat
    BY <1>1
  <2> HIDE DEF Bad
  <2> QED BY <2>1, LeastNumber
<1>5. CASE h = 0
  <2>1. left[0].total \in Nat /\ left[0].class \in [Classes -> Nat]
    BY <1>1, <1>3
  <2>2. \A k \in Classes : left[0].class[k] \in Nat
    BY <2>1
  <2>3. \A i \in 0 .. 0 : i = 0
    OBVIOUS
  <2>4. Good(0)
    BY <2>1, <2>2, <2>3
  <2> QED BY <1>4, <1>5, <2>4
<1>6. CASE h # 0
  <2>1. h \in 1 .. n /\ h - 1 \in 0 .. n /\ h \in 0 .. n /\ ~(h <= h - 1)
    BY <1>1, <1>4, <1>6
  <2>2. Good(h - 1)
    <3> HIDE DEF Good
    <3> QED BY <1>4, <2>1
  <2> DEFINE x == r[h]
             before == left[h - 1]
             bytes == Choice(x, fetched[x], before, budgets).bytes
  <2>3. /\ x.class \in Classes /\ x.bytes \in Nat /\ x.width \in Nat \ {0}
        /\ x.truncation \in BOOLEAN
    BY <1>1, <2>1 DEF AreCandidates
  <2>4. before.total \in Nat /\ before.class \in [Classes -> Nat]
    BY <1>3, <2>1
  <2>5. bytes \in Nat
    BY <2>3, <2>4, ChoicesFit DEF AreBudgets
  <2>6. /\ left[h].total = before.total - bytes
        /\ left[h].class = [before.class EXCEPT ![x.class] = before.class[x.class] - bytes]
    <3>1. left[h] = Rest(x, fetched[x], before, budgets)
      BY <1>2, <2>1
    <3> HIDE DEF x, before
    <3> QED BY <3>1 DEF Rest
  <2> HIDE DEF x, bytes
  <2>7. left[h].total <= before.total
    BY <2>4, <2>5, <2>6
  <2>8. \A k \in Classes : left[h].class[k] <= before.class[k] /\ left[h].class[k] \in Int
    BY <2>3, <2>4, <2>5, <2>6
  <2>9. ASSUME NEW i \in 0 .. h
        PROVE  /\ left[h].total <= left[i].total
               /\ \A k \in Classes : left[h].class[k] <= left[i].class[k]
    <3>1. CASE i = h
      <4>1. \A k \in Classes : left[h].class[k] \in Nat
        BY <1>3, <2>1
      <4>2. left[h].total \in Nat
        BY <1>3, <2>1
      <4> QED BY <3>1, <4>1, <4>2
    <3>2. CASE i \in 0 .. h - 1
      <4>1. i \in 0 .. n
        BY <1>1, <2>1, <3>2
      <4>2. /\ left[i].total \in Nat /\ \A k \in Classes : left[i].class[k] \in Nat
            /\ left[h].total \in Nat /\ \A k \in Classes : left[h].class[k] \in Nat
            /\ \A k \in Classes : before.class[k] \in Nat
        BY <1>3, <2>1, <2>4, <4>1
      <4>3. before.total <= left[i].total /\ \A k \in Classes : before.class[k] <= left[i].class[k]
        BY <2>2, <3>2
      <4> HIDE DEF before
      <4> QED BY <2>4, <2>7, <2>8, <4>2, <4>3
    <3> QED BY <2>1, <3>1, <3>2
  <2> QED BY <1>4, <2>9
<1> QED BY <1>5, <1>6

LEMMA LeastOfLess ==
  ASSUME NEW h \in Nat, NEW i \in Nat, NEW j \in Nat, NEW l \in Nat, NEW m \in Nat,
         i <= l, j <= m
  PROVE  Min({h, i, j}) <= Min({h, l, m})
<1>1. \A a, b, d \in Nat : Min({a, b, d}) \in {a, b, d}
  <2> SUFFICES ASSUME NEW a \in Nat, NEW b \in Nat, NEW d \in Nat
               PROVE  Min({a, b, d}) \in {a, b, d}
    OBVIOUS
  <2>1. \E n \in {a, b, d} : \A o \in {a, b, d} : n <= o
    <3>1. CASE a <= b /\ a <= d
      BY <3>1
    <3>2. CASE b <= a /\ b <= d
      BY <3>2
    <3>3. CASE d <= a /\ d <= b
      BY <3>3
    <3> QED BY <3>1, <3>2, <3>3
  <2> QED BY <2>1 DEF Min
<1>2. Min({h, l, m}) \in {h, l, m}
  BY <1>1
<1>3. /\ Min({h, i, j}) \in Nat
      /\ Min({h, i, j}) <= h /\ Min({h, i, j}) <= i /\ Min({h, i, j}) <= j
  BY LeastOfThree
<1> QED BY <1>2, <1>3

(* What the status of a choice says.                                       *)
LEMMA StatusesMean ==
  ASSUME NEW source, NEW fetched \in Retrievals, NEW left, NEW budgets,
         source.bytes \in Nat, source.class \in Classes,
         left.total \in Nat, left.class \in [Classes -> Nat], budgets.perSource \in Nat
  PROVE  LET choice == Choice(source, fetched, left, budgets)
             seen == Identity(source) \in left.seen
         IN  /\ choice.status = "omitted" => source.bytes > Allowance(source, left, budgets)
             /\ choice.status = "deduplicated" => seen
             /\ Emitted(choice) => fetched = "exact" /\ ~seen
<1> DEFINE allowance == Allowance(source, left, budgets)
           choice == Choice(source, fetched, left, budgets)
           seen == Identity(source) \in left.seen
           kept == CASE source.bytes <= allowance -> source.bytes
                     [] source.truncation /\ source.bytes > allowance
                          -> Prefix(source, allowance)
                     [] OTHER -> 0
<1>1. allowance \in Nat
  BY LeastOfThree DEF Allowance
<1>2. choice.status = IF fetched # "exact" THEN fetched
                      ELSE IF seen THEN "deduplicated"
                      ELSE IF kept = source.bytes THEN "included"
                      ELSE IF kept > 0 THEN "truncated" ELSE "omitted"
  <2>1. CASE fetched # "exact"
    BY <2>1 DEF Choice
  <2>2. CASE fetched = "exact" /\ seen
    BY <2>2 DEF Choice
  <2>3. CASE fetched = "exact" /\ ~seen
    BY <2>3 DEF Choice
  <2> QED BY <2>1, <2>2, <2>3
<1>3. ASSUME source.bytes <= allowance PROVE kept = source.bytes
  <2>1. ~(source.bytes > allowance)
    BY <1>1, <1>3
  <2> HIDE DEF allowance
  <2> QED BY <1>3, <2>1
<1> HIDE DEF choice, kept, seen, allowance
<1>4. fetched # "exact" => choice.status \in {"unknown", "error"}
  BY <1>2 DEF Retrievals
<1>5. choice.status = "omitted" => source.bytes > allowance
  BY <1>1, <1>2, <1>3, <1>4
<1>6. choice.status = "deduplicated" => seen
  BY <1>2, <1>4
<1>7. Emitted(choice) => fetched = "exact" /\ ~seen
  BY <1>2, <1>4 DEF Emitted
<1> QED BY <1>5, <1>6, <1>7 DEF choice, seen, allowance

(* What the status of the source whose turn it is says.                    *)
LEMMA StatusesOfTurns ==
  ASSUME NEW S, AreCandidates(S), NEW fetched \in [S -> Retrievals],
         NEW budgets, AreBudgets(budgets), NEW i \in 1 .. Cardinality(S)
  PROVE  LET selection == Select(S, fetched, budgets)
             s == Ranked(S)[i]
             end == Leftovers(Ranked(S), fetched, budgets)[Cardinality(S)]
             seen == \E o \in Served(S, i - 1) : Identity(o) = Identity(s) /\ fetched[o] = "exact"
         IN  /\ selection[s].status = "omitted" => s.bytes > Allowance(s, end, budgets)
             /\ selection[s].status = "deduplicated" => seen
             /\ Emitted(selection[s]) => fetched[s] = "exact" /\ ~seen
<1> DEFINE n == Cardinality(S)
           s == Ranked(S)[i]
           all == Leftovers(Ranked(S), fetched, budgets)
           left == all[i - 1]
           end == all[n]
           selection == Select(S, fetched, budgets)
           choice == Choice(s, fetched[s], left, budgets)
           seen == \E o \in Served(S, i - 1) : Identity(o) = Identity(s) /\ fetched[o] = "exact"
<1>1. n \in Nat /\ s \in S /\ selection[s] = choice
  <2>1. selection[s] = choice
    BY ChosenInTurn
  <2>2. n \in Nat /\ s \in S
    BY RankedIsSorted
  <2> QED BY <2>1, <2>2
<1>2. i - 1 \in 0 .. n /\ n \in 0 .. n
  BY <1>1
<1>3. /\ left.total \in Nat /\ left.class \in [Classes -> Nat]
      /\ left.seen = Identities(Served(S, i - 1), fetched)
      /\ end.total \in Nat /\ end.class \in [Classes -> Nat]
  BY <1>2, SelectionBalances DEF Balance
<1>4. s.bytes \in Nat /\ s.class \in Classes /\ fetched[s] \in Retrievals
      /\ budgets.perSource \in Nat
  BY <1>1 DEF AreCandidates, AreBudgets
<1>5. end.total <= left.total /\ \A k \in Classes : end.class[k] <= left.class[k]
  BY <1>2, LeftoversShrink
<1> HIDE DEF s, all, choice, selection, n
<1>6. Identity(s) \in left.seen <=> seen
  <2>1. ASSUME seen PROVE Identity(s) \in left.seen
    BY <1>3, <2>1 DEF Identities
  <2>2. ASSUME Identity(s) \in left.seen PROVE seen
    <3>1. PICK o \in Served(S, i - 1) :
            fetched[o] = "exact" /\ Identity(s) = Identity(o)
      BY <1>3, <2>2 DEF Identities
    <3> QED BY <3>1
  <2> QED BY <2>1, <2>2
<1>7. Allowance(s, end, budgets) <= Allowance(s, left, budgets)
  <2>1. end.class[s.class] \in Nat /\ left.class[s.class] \in Nat
        /\ end.class[s.class] <= left.class[s.class]
    BY <1>3, <1>4, <1>5
  <2> QED BY <1>3, <1>4, <1>5, <2>1, LeastOfLess DEF Allowance
<1>8. Allowance(s, end, budgets) \in Nat /\ Allowance(s, left, budgets) \in Nat
  BY <1>3, <1>4, LeastOfThree DEF Allowance
<1>9. /\ choice.status = "omitted" => s.bytes > Allowance(s, left, budgets)
      /\ choice.status = "deduplicated" => Identity(s) \in left.seen
      /\ Emitted(choice) => fetched[s] = "exact" /\ Identity(s) \notin left.seen
  BY <1>3, <1>4, StatusesMean DEF choice
<1>10. selection[s].status = "omitted" => s.bytes > Allowance(s, end, budgets)
  BY <1>1, <1>4, <1>7, <1>8, <1>9
<1>11. selection[s].status = "deduplicated" => seen
  BY <1>1, <1>6, <1>9
<1>12. Emitted(selection[s]) => fetched[s] = "exact" /\ ~seen
  BY <1>1, <1>6, <1>9
<1> QED BY <1>10, <1>11, <1>12 DEF selection, s, all, n

LEMMA TwinsAreOne ==
  ASSUME NEW s, NEW o
  PROVE  Identity(s) = Identity(o) <=> Twins(s, o)
BY DEF Identity, Twins

LeavesNothing(selection, S, budgets) ==
  LET left(k) == Min({budgets.perSource,
                      budgets.total - EmittedBytes(selection, S),
                      budgets.class[k] - EmittedBytes(selection, {s \in S : s.class = k})})
  IN  /\ \A s \in S :
           /\ selection[s].status = "omitted" => s.bytes > left(s.class)
           /\ selection[s].status = "deduplicated" =>
                \E o \in S : o # s /\ Twins(o, s) /\ Before(o, s)
      /\ \A s, o \in S :
           s # o /\ Twins(s, o) =>
             ~(Emitted(selection[s]) /\ Emitted(selection[o]))

(* _select: what is omitted would not fit into what is left in the end     *)
(* either; what is deduplicated has a twin of its class, media type and    *)
(* content before it in the order of the pack; and of twins no two are     *)
(* emitted.                                                                *)
THEOREM NothingFittingLeftOut ==
  ASSUME NEW S, AreCandidates(S), NEW fetched \in [S -> Retrievals],
         NEW budgets, AreBudgets(budgets)
  PROVE  LeavesNothing(Select(S, fetched, budgets), S, budgets)
<1> DEFINE n == Cardinality(S)
           r == Ranked(S)
           end == Leftovers(r, fetched, budgets)[n]
           selection == Select(S, fetched, budgets)
           left(k) == Min({budgets.perSource,
                           budgets.total - EmittedBytes(selection, S),
                           budgets.class[k] - EmittedBytes(selection, OfClass(S, k))})
           seen(i) == \E o \in Served(S, i - 1) :
                        Identity(o) = Identity(r[i]) /\ fetched[o] = "exact"
<1>1. /\ n \in Nat /\ \A i \in 1 .. n : r[i] \in S
      /\ \A s \in S : \E i \in 1 .. n : r[i] = s
      /\ \A i, j \in 1 .. n : i < j => Before(r[i], r[j])
  BY RankedIsSorted
<1>2. \A i \in 1 .. n :
        /\ selection[r[i]].status = "omitted" => r[i].bytes > Allowance(r[i], end, budgets)
        /\ selection[r[i]].status = "deduplicated" => seen(i)
        /\ Emitted(selection[r[i]]) => fetched[r[i]] = "exact" /\ ~seen(i)
  BY StatusesOfTurns
<1>3. \A s \in S : s.class \in Classes /\ s.bytes \in Nat
  BY DEF AreCandidates
<1>4. ASSUME NEW k \in Classes
      PROVE  left(k) = Min({budgets.perSource, end.total, end.class[k]})
  <2>1. Served(S, n) = S
    BY <1>1 DEF Served
  <2>2. Balance(S, fetched, budgets, selection, end, n)
    BY <1>1, SelectionBalances
  <2> HIDE DEF end, selection, n
  <2>3. /\ end.total \in Nat /\ end.class[k] \in Nat
        /\ end.total + EmittedBytes(selection, S) = budgets.total
        /\ end.class[k] + EmittedBytes(selection, OfClass(S, k)) = budgets.class[k]
        /\ IsFiniteSet(S) /\ \A s \in S : selection[s].bytes \in Nat
    BY <2>1, <2>2 DEF Balance, AreCandidates
  <2>4. EmittedBytes(selection, S) \in Nat
    BY <2>3, EmittedOfOne
  <2>5. EmittedBytes(selection, OfClass(S, k)) \in Nat
    <3>1. IsFiniteSet(OfClass(S, k)) /\ \A s \in OfClass(S, k) : selection[s].bytes \in Nat
      BY <2>3, FS_Subset DEF OfClass
    <3> QED BY <3>1, EmittedOfOne
  <2>6. /\ budgets.total - EmittedBytes(selection, S) = end.total
        /\ budgets.class[k] - EmittedBytes(selection, OfClass(S, k)) = end.class[k]
    BY <2>3, <2>4, <2>5 DEF AreBudgets
  <2> QED BY <2>6
<1>5. ASSUME NEW s \in S, selection[s].status = "omitted" PROVE s.bytes > left(s.class)
  <2>1. PICK i \in 1 .. n : r[i] = s
    BY <1>1
  <2>2. s.bytes > Allowance(s, end, budgets)
    BY <1>2, <1>5, <2>1
  <2> QED BY <1>3, <1>4, <2>2 DEF Allowance
<1> HIDE DEF selection, r, n
<1>6. \A i \in 1 .. n : seen(i) => \E j \in 1 .. i - 1 :
        Identity(r[j]) = Identity(r[i]) /\ fetched[r[j]] = "exact"
  BY DEF Served, r
<1>7. ASSUME NEW s \in S, selection[s].status = "deduplicated"
      PROVE  \E o \in S : o # s /\ Twins(o, s) /\ Before(o, s)
  <2>1. PICK i \in 1 .. n : r[i] = s
    BY <1>1
  <2>2. PICK j \in 1 .. i - 1 : Identity(r[j]) = Identity(s)
    BY <1>2, <1>6, <1>7, <2>1
  <2>3. j \in 1 .. n /\ j < i
    BY <1>1, <2>1, <2>2
  <2>4. Before(r[j], s) /\ r[j] \in S
    BY <1>1, <2>1, <2>3
  <2>5. r[j] # s
    BY <2>4, BeforeIsTotal
  <2> QED BY <2>2, <2>4, <2>5, TwinsAreOne
<1>8. ASSUME NEW i \in 1 .. n, NEW j \in 1 .. n, j < i,
             Identity(r[i]) = Identity(r[j]),
             Emitted(selection[r[i]]), Emitted(selection[r[j]])
      PROVE  FALSE
  <2>1. fetched[r[j]] = "exact" /\ ~seen(i)
    BY <1>2, <1>8
  <2>2. r[j] \in Served(S, i - 1)
    <3>1. j \in 1 .. i - 1
      BY <1>1, <1>8
    <3> QED BY <3>1 DEF Served, r
  <2> QED BY <1>8, <2>1, <2>2
<1>9. ASSUME NEW s \in S, NEW o \in S, s # o, Twins(s, o),
             Emitted(selection[s]), Emitted(selection[o])
      PROVE  FALSE
  <2>1. PICK i \in 1 .. n, j \in 1 .. n : r[i] = s /\ r[j] = o
    BY <1>1
  <2>2. i < j \/ j < i
    BY <1>1, <1>9, <2>1
  <2> QED BY <1>8, <1>9, <2>1, <2>2, TwinsAreOne
<1>10. \A k : {s \in S : s.class = k} = OfClass(S, k)
  BY DEF OfClass
<1>11. \A s \in S : selection[s].status = "omitted" =>
         s.bytes > Min({budgets.perSource,
                        budgets.total - EmittedBytes(selection, S),
                        budgets.class[s.class]
                          - EmittedBytes(selection, {t \in S : t.class = s.class})})
  BY <1>5, <1>10, Zenon
<1> HIDE DEF left
<1>12. LeavesNothing(selection, S, budgets)
  BY <1>7, <1>9, <1>11, Zenon DEF LeavesNothing
<1> QED BY <1>12 DEF selection

LEMMA PacksLeaveNothing ==
  ASSUME SelectInv PROVE NothingFittingIsOmitted
<1> SUFFICES ASSUME NEW selection \in c.pack
             PROVE  LeavesNothing(selection, DOMAIN selection, Budgets)
  BY Zenon DEF NothingFittingIsOmitted, LeavesNothing
<1>1. c.at = "packed" /\ selection = Select(Candidates, Retrieved, Budgets)
  BY DEF SelectInv
<1>2. AreCandidates(Candidates) /\ AreBudgets(Budgets)
  BY <1>1, CompilationIsTyped
<1>3. DOMAIN selection = Candidates
  BY <1>1, <1>2, SelectionIsOfAll
<1>4. Retrieved \in [Candidates -> Retrievals]
  <2>1. PICK f \in [c.request.inputs -> Retrievals] : c.fetched = {f}
    BY <1>1 DEF SelectInv
  <2>2. Retrieved = [s \in Candidates |-> IF s \in DOMAIN f THEN f[s] ELSE "exact"]
    BY <2>1 DEF Retrieved
  <2>3. "exact" \in Retrievals /\ \A s \in DOMAIN f : f[s] \in Retrievals
    BY DEF Retrievals
  <2> QED BY <2>2, <2>3
<1> QED BY <1>1, <1>2, <1>3, <1>4, NothingFittingLeftOut

(* _select: a pack leaves out for lack of budget only what would not fit   *)
(* into what is left in the end, and holds nothing twice of one content,   *)
(* class and media type.                                                   *)
THEOREM NothingFittingIsEverOmitted == ContextSpec => []NothingFittingIsOmitted
<1> QED BY SelectInvariant, PacksLeaveNothing, PTL
=============================================================================
