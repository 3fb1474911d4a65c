-------------------------- MODULE CheckOrderProofs --------------------------
(***************************************************************************)
(* Insertion sort, the whole of sort.Sort for up to 12 checks, puts those  *)
(* of shallow terms first, whatever order they come in and whatever the    *)
(* comparison says within one depth.                                       *)
(***************************************************************************)
EXTENDS CheckOrder, TLAPS

\* Depth decides the comparison, and equal depths leave it open.
LEMMA LessByDepth ==
  ASSUME NEW r \in Seq(Part), NEW s \in Seq(Part)
  PROVE  /\ Len(r) < Len(s) => Less(r, s)
         /\ Less(r, s) => Len(r) <= Len(s)
  BY DEF Less, Compare

\* The lists of checks a rule may have are sequences of locations.
LEMMA ListsAreSequences == ASSUME NEW c \in Lists PROVE c \in Seq(Seq(Part))
  BY CheckAssumption DEF Lists, Locations, CheckAssumption

\* A swap moves the check in hand past one that is not shallower.
LEMMA SwapKeeps == ASSUME SortInv, Swap PROVE SortInv'
<1> USE DEF SortInv, Sorted
<1>1. /\ j \in 2..i /\ i \in 2..Len(checks) /\ j - 1 \in DOMAIN checks /\ j \in DOMAIN checks
      /\ checks[j] \in Seq(Part) /\ checks[j - 1] \in Seq(Part)
      /\ i \in Int /\ j \in Int
  BY DEF Swap
<1>2. Len(checks[j]) <= Len(checks[j - 1])
  BY <1>1, LessByDepth DEF Swap
<1>3. /\ checks' \in Seq(Seq(Part)) /\ Len(checks') = Len(checks)
      /\ checks'[j] = checks[j - 1] /\ checks'[j - 1] = checks[j]
      /\ \A n \in DOMAIN checks : n # j /\ n # j - 1 => checks'[n] = checks[n]
  BY <1>1 DEF Swap
<1>4. i' = i /\ j' = j - 1
  BY DEF Swap
<1>a. \A n \in DOMAIN checks : Len(checks[n]) \in Nat
  OBVIOUS
<1>5. ASSUME NEW p \in DOMAIN checks', NEW q \in DOMAIN checks', p < q, q <= i, q # j - 1
      PROVE  Len(checks'[p]) <= Len(checks'[q])
  <2>0. p \in DOMAIN checks /\ q \in DOMAIN checks /\ p \in Int /\ q \in Int
    BY <1>3, <1>5
  <2>a. ASSUME NEW m \in DOMAIN checks, NEW n \in DOMAIN checks, m < n, n <= i, n # j
        PROVE  Len(checks[m]) <= Len(checks[n])
    BY <2>a DEF InOrder
  <2>1. CASE q = j /\ p = j - 1
    <3>1. checks'[p] = checks[j] /\ checks'[q] = checks[j - 1]
      BY <1>3, <2>1
    <3> QED
      BY <1>2, <3>1
  <2>2. CASE q = j /\ p < j - 1
    <3>0. p # j /\ p # j - 1 /\ j - 1 # j /\ j - 1 <= i
      BY <1>1, <2>0, <2>2
    <3>1. Len(checks[p]) <= Len(checks[j - 1])
      BY <1>1, <2>0, <2>2, <2>a, <3>0
    <3>2. checks'[p] = checks[p] /\ checks'[q] = checks[j - 1]
      BY <1>3, <2>0, <2>2, <3>0
    <3> QED
      BY <3>1, <3>2
  <2>3. CASE q > j /\ p = j
    <3>0. q # j /\ q # j - 1 /\ j - 1 < q
      BY <1>1, <2>0, <2>3
    <3>1. Len(checks[j - 1]) <= Len(checks[q])
      BY <1>1, <1>5, <2>0, <2>3, <2>a, <3>0
    <3>2. checks'[q] = checks[q] /\ checks'[p] = checks[j - 1]
      BY <1>3, <2>0, <2>3, <3>0
    <3> QED
      BY <3>1, <3>2
  <2>4. CASE q > j /\ p = j - 1
    <3>0. q # j /\ q # j - 1
      BY <1>1, <2>0, <2>4
    <3>1. Len(checks[j]) <= Len(checks[q])
      BY <1>1, <1>5, <2>0, <2>4, <2>a, <3>0
    <3>2. checks'[q] = checks[q] /\ checks'[p] = checks[j]
      BY <1>3, <2>0, <2>4, <3>0
    <3> QED
      BY <3>1, <3>2
  <2>5. CASE p # j /\ p # j - 1 /\ q # j /\ q # j - 1
    <3>1. Len(checks[p]) <= Len(checks[q])
      BY <1>5, <2>0, <2>5, <2>a
    <3>2. checks'[q] = checks[q] /\ checks'[p] = checks[p]
      BY <1>3, <2>0, <2>5
    <3> QED
      BY <3>1, <3>2
  <2> QED
    BY <1>1, <1>5, <2>0, <2>1, <2>2, <2>3, <2>4, <2>5
<1> QED
  BY <1>1, <1>3, <1>4, <1>5 DEF InOrder

\* A check that stays where it is is not shallower than the one before it.
LEMMA InsertKeeps == ASSUME SortInv, Insert PROVE SortInv'
<1> USE DEF SortInv, Sorted
<1>1. i \in 2..Len(checks) /\ i' = i + 1 /\ j' = i + 1 /\ checks' = checks
  BY DEF Insert
<1>2. ASSUME j > 1
      PROVE  j - 1 \in DOMAIN checks /\ Len(checks[j - 1]) <= Len(checks[j])
  <2>1. j - 1 \in DOMAIN checks /\ j \in DOMAIN checks
    BY <1>1, <1>2
  <2>2. checks[j] \in Seq(Part) /\ checks[j - 1] \in Seq(Part)
    BY <2>1
  <2>3. ~ Less(checks[j], checks[j - 1])
    BY <1>2 DEF Insert
  <2> QED
    BY <2>1, <2>2, <2>3, LessByDepth
<1>3. ASSUME NEW p \in DOMAIN checks, NEW q \in DOMAIN checks, p < q, q <= i
      PROVE  Len(checks[p]) <= Len(checks[q])
  <2> USE DEF InOrder
  <2>1. CASE q # j
    BY <1>3, <2>1
  <2>2. CASE q = j /\ p = j - 1
    BY <1>2, <1>3, <2>2
  <2>3. CASE q = j /\ p < j - 1
    <3>1. Len(checks[p]) <= Len(checks[j - 1])
      BY <1>1, <1>2, <1>3, <2>3
    <3>2. Len(checks[p]) \in Nat /\ Len(checks[j - 1]) \in Nat /\ Len(checks[j]) \in Nat
      BY <1>1, <1>2, <1>3, <2>3
    <3> QED
      BY <1>2, <2>3, <3>1, <3>2
  <2> QED
    BY <1>1, <1>3, <2>1, <2>2, <2>3
<1> QED
  BY <1>1, <1>3 DEF InOrder

\* The sort keeps the checks it has passed in order of depth.
THEOREM SortInvariant == SortSpec => []SortInv
<1>1. SortInit => SortInv
  BY ListsAreSequences DEF SortInit, SortInv, Sorted
<1>2. SortInv /\ [SortNext]_sortVars => SortInv'
  BY SwapKeeps, InsertKeeps DEF SortNext, sortVars, SortInv, Sorted, InOrder
<1> QED
  BY <1>1, <1>2, PTL DEF SortSpec

\* Generated code makes the checks of a term before those of its arguments.
THEOREM ChecksShallowFirst == SortSpec => []ShallowFirst
<1>1. SortInv => ShallowFirst
  <2> SUFFICES ASSUME SortInv, Sorted,
                      NEW p \in DOMAIN checks, NEW q \in DOMAIN checks, p < q
               PROVE  Len(checks[p]) <= Len(checks[q])
    BY DEF ShallowFirst
  <2>1. q <= i /\ q # j
    BY DEF SortInv, Sorted
  <2> QED
    BY <2>1 DEF SortInv, InOrder
<1> QED
  BY <1>1, SortInvariant, PTL
=============================================================================
