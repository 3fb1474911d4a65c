----------------------------- MODULE CheckOrder -----------------------------
(***************************************************************************)
(* The order in which a rule makes its checks (src/compiler/checks.go,     *)
(* reference.go): sort.Sort with a Less that is no order.  It holds in     *)
(* both directions for two checks of one location, and in neither for      *)
(* equal positions that are different objects, which the compiler compares *)
(* by address.  For up to 12 checks sort.Sort ends in an insertion sort    *)
(* of what earlier passes have left in any arrangement; it is the one of   *)
(* the standard library.  Longer lists are partitioned first and are not   *)
(* modelled.                                                               *)
(***************************************************************************)
EXTENDS Integers, Sequences

CONSTANTS Part,     \* the parts of locations: cells and positions
          MaxDepth, MaxChecks

\* A part: its kind, the name of a cell or a position counted from the front
\* ("known") or from the end of a list ("length"), and its address.
Kinds == {"cell", "known", "length"}
ASSUME CheckAssumption ==
  /\ \A p \in Part : p.kind \in Kinds /\ p.at \in Int
  /\ MaxDepth \in Nat /\ MaxChecks \in Nat

VARIABLES checks,  \* the locations of the checks, as sorted so far
          i, j     \* insertion sort: the check in hand is at j, those before i are sorted

sortVars == <<checks, i, j>>

\* A term of the cell, an argument of one, and so on.
Locations ==
  {loc \in UNION {[1..n -> Part] : n \in 1..MaxDepth} :
     \A n \in DOMAIN loc : (loc[n].kind = "cell") = (n = 1)}
Lists     == UNION {[1..n -> Locations] : n \in 0..MaxChecks}

-----------------------------------------------------------------------------
(* Comparison.                                                             *)

\* Two lengths are only compared after equal prefixes, the locations whose
\* length they take: LengthOffset.LessThan compares those and finds them equal.
LessThan(p, q) == p.kind = "known" /\ (q.kind = "known" => p.at < q.at)
ComparePart(p, q) ==
  CASE p.kind = "cell" /\ q.kind = "cell" -> IF p.at < q.at THEN -1 ELSE IF p.at = q.at THEN 0 ELSE 1
    [] (p.kind = "cell") # (q.kind = "cell") -> -1
    [] OTHER -> IF LessThan(p, q) THEN -1 ELSE IF p = q THEN 0 ELSE 1
\* The first difference of two locations of one depth decides.
CompareParts(r, s) ==
  LET differ == {n \in DOMAIN r : n \in DOMAIN s /\ ComparePart(r[n], s[n]) # 0}
      first  == CHOOSE n \in differ : \A m \in differ : n <= m
  IN IF differ = {} THEN 0 ELSE ComparePart(r[first], s[first])
Compare_bug(r, s) == CompareParts(r, s)
Compare(r, s) ==
  IF Len(r) < Len(s) THEN -1 ELSE IF Len(r) > Len(s) THEN 1 ELSE CompareParts(r, s)
Less(r, s) == Compare(r, s) <= 0

-----------------------------------------------------------------------------
(* Insertion sort.                                                         *)

Sorted == i > Len(checks)

SortInit == checks \in Lists /\ i = 2 /\ j = 2
Swap ==
  /\ ~ Sorted /\ j > 1 /\ Less(checks[j], checks[j - 1])
  /\ checks' = [checks EXCEPT ![j] = checks[j - 1], ![j - 1] = checks[j]]
  /\ j' = j - 1 /\ UNCHANGED i
Insert ==
  /\ ~ Sorted /\ ~ (j > 1 /\ Less(checks[j], checks[j - 1]))
  /\ i' = i + 1 /\ j' = i + 1 /\ UNCHANGED checks

SortNext == Swap \/ Insert \/ (Sorted /\ UNCHANGED sortVars)
SortSpec == SortInit /\ [][SortNext]_sortVars

-----------------------------------------------------------------------------
(* Properties.                                                             *)

\* Whatever the comparison says of checks at one depth, those on a term come
\* before those on its arguments: generated code reads an argument only after
\* the checks that make sure it is there.
ShallowFirst ==
  Sorted => \A p, q \in DOMAIN checks : p < q => Len(checks[p]) <= Len(checks[q])

InOrder(p, q) == Len(checks[p]) <= Len(checks[q])
\* The inductive invariant: up to i, the checks other than the one in hand are
\* in order, and those behind it are not shallower than it.
SortInv ==
  /\ checks \in Seq(Seq(Part)) /\ i \in Nat \ {0, 1} /\ j \in 1..i
  /\ Sorted => j = i
  /\ \A p, q \in DOMAIN checks : p < q /\ q <= i /\ q # j => InOrder(p, q)
=============================================================================
