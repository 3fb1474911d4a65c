----------------------------- MODULE RuleSyntax -----------------------------
(***************************************************************************)
(* The abstract syntax of kinc rules and terms (src/compiler/kinc_t.go),   *)
(* as the parser and CompleteVariableTypes leave it: a variable carries    *)
(* the sort it has in the whole rule.  Parentheses are dropped.            *)
(***************************************************************************)
EXTENDS Sequences

CONSTANT Subsorts  \* sort -> the labels declared for it under "syntax"

\* A term: an element of the K cell, or what an ATerm file holds.
T(l, a) == [l |-> l, a |-> a]

\* Items of a list: an application, whose label may be rewritten to another one;
\* a variable of some sort; a rewrite of one list to another.
Appl(l, body)       == [op |-> "appl", label |-> l, to |-> l, body |-> body]
Relabel(l, m, body) == [op |-> "appl", label |-> l, to |-> m, body |-> body]
Sorted(x, s)        == [op |-> "var", name |-> x, sort |-> s, reverse |-> FALSE]
NotSorted(x, s)     == [op |-> "var", name |-> x, sort |-> s, reverse |-> TRUE]
Var(x)              == Sorted(x, "k")
ListVar(x)          == Sorted(x, "listk")
Rewrite(lhs, rhs)   == [op |-> "rewrite", lhs |-> lhs, rhs |-> rhs]

\* A rule: the K cell, and the map cell's items: variables looked up, X |-> V,
\* and terms added, .map => X |-> T.
Rule(k, get, put) == [k |-> k, get |-> get, put |-> put]
Lookup(x, v)      == [key |-> x, val |-> v]

IsList(it) == it.op = "var" /\ it.sort = "listk"

\* The labels a sort stands for: those declared, or the one it names.
Allowable(sort) == IF sort \in DOMAIN Subsorts THEN Subsorts[sort] ELSE {sort}
=============================================================================
