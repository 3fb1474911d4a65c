------------------------------- MODULE Int64 -------------------------------
(***************************************************************************)
(* int64_t as the runtime computes with it (src/runtime/k_builtins.c), on  *)
(* fewer bits: the labels that are integers stand for an interval that     *)
(* wraps around, as the compiled additions do.  A quotient is rounded      *)
(* towards zero; the one that does not fit makes the processor trap.       *)
(***************************************************************************)
EXTENDS Integers, FiniteSets

CONSTANT Num   \* labels that are integers -> the integers

IntValue == {Num[l] : l \in DOMAIN Num}
Least    == CHOOSE i \in IntValue : \A j \in IntValue : i <= j
Wrap(i)  == Least + ((i - Least) % Cardinality(IntValue))
\* (The i64_val of a label that is no integer is one integer or another.)
IntLabel(i) == CHOOSE l \in DOMAIN Num : Wrap(i) \in IntValue => Num[l] = Wrap(i)

Size(i) == IF i < 0 THEN -i ELSE i
Quotient(a, b) ==
  LET q == Size(a) \div Size(b) IN IF (a < 0) = (b < 0) THEN q ELSE -q

Arithmetic == {"#plusInt", "#minusInt", "#timesInt", "#divInt", "#negInt"}
DivTraps(a, b) == Quotient(a, b) \notin IntValue

\* What k_builtin_int_plus and the others return for the integers a.
IntOp(fn, a) ==
  CASE fn = "#plusInt"  -> a[1] + a[2]
    [] fn = "#minusInt" -> a[1] - a[2]
    [] fn = "#timesInt" -> a[1] * a[2]
    [] fn = "#divInt"   -> Quotient(a[1], a[2])
    [] fn = "#negInt"   -> - a[1]
=============================================================================
