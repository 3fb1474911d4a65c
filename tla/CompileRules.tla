---------------------------- MODULE CompileRules ----------------------------
(***************************************************************************)
(* How the compiler turns a rule into C (src/compiler/v_constraints.go,    *)
(* compile.go): the checks, bindings and replacements of the rule, and the *)
(* statements generated for them, in their order.  A statement is a record *)
(* whose op says which runtime calls it makes; Rewriter executes it.       *)
(*                                                                         *)
(* A location is the sequence of positions, counted from 1, that leads     *)
(* from the computation cell (<<>>) to a term.  Only TLC uses this module: *)
(* rules are trees and the operators on them are recursive.                *)
(***************************************************************************)
EXTENDS RuleSyntax, Integers, SequencesExt

\* Functions of k_builtins.c that rules call; those that make an integer.
MakesInt == {"#plusInt", "#minusInt", "#timesInt", "#divInt", "#negInt"}
Builtin  == {"#not", "#lteInt"} \cup MakesInt
Constant == {"#true", "#false"}

\* A list the compiler has not looked at yet; n counts the arguments before it.
Nothing(n) == [chk |-> <<>>, bnd |-> <<>>, rep |-> <<>>, list |-> FALSE, n |-> n]

CheckNumArgs(loc, b) == [kind |-> "num", loc |-> loc, num |-> b.n, exact |-> ~ b.list]

RECURSIVE BuildKChecks(_, _, _), BuildKChecksTermListHelper(_, _, _)

\* Checks, bindings and replacements of one item at position off+1 of loc; n is
\* the number of arguments it accounts for.
BuildKChecks(it, loc, off) ==
  LET at == Append(loc, off + 1) IN
  CASE IsList(it) ->
         [Nothing(0) EXCEPT !.list = TRUE,
            !.bnd = <<[op |-> "without", dst |-> it.name, loc |-> loc, left |-> off]>>]
    [] it.op = "var" /\ ~ IsList(it) ->
         [Nothing(1) EXCEPT
            !.chk = IF it.sort = "k" THEN <<>>
                      ELSE <<[kind |-> "sort", loc |-> at, labels |-> Allowable(it.sort),
                              reverse |-> it.reverse]>>,
            !.bnd = <<[op |-> "bind", dst |-> it.name, loc |-> at]>>]
    [] it.op = "appl" ->
         LET b == BuildKChecksTermListHelper(it.body, at, 0) IN
         [b EXCEPT
            !.chk = <<[kind |-> "label", loc |-> at, label |-> it.label]>> \o @
                      \o <<CheckNumArgs(at, b)>>,
            !.rep = (IF it.to = it.label THEN <<>>
                       ELSE <<[kind |-> "LabelChange", loc |-> at, to |-> it.to]>>) \o @,
            !.list = FALSE, !.n = 1]
    [] it.op = "rewrite" ->
         LET b == BuildKChecksTermListHelper(it.lhs, loc, off) IN
         [b EXCEPT
            !.rep = Append(@, [kind |-> "TermChange", loc |-> loc, pos |-> off,
                               rest |-> b.list, count |-> b.n - off, result |-> it.rhs]),
            !.n = IF b.list THEN 0 ELSE b.n - off]

\* The items of a list in turn, each after the arguments counted so far.
BuildKChecksTermListHelper(items, loc, off) ==
  IF items = <<>> THEN Nothing(off)
  ELSE LET f == BuildKChecksTermListHelper(Front(items), loc, off)
           l == BuildKChecks(Last(items), loc, f.n)
       IN [chk |-> f.chk \o l.chk, bnd |-> f.bnd \o l.bnd, rep |-> f.rep \o l.rep,
           list |-> l.list, n |-> f.n + l.n]

\* The computation cell, then the map cell of a rule.
BuildChecks(rule) ==
  LET k == BuildKChecksTermListHelper(rule.k, <<>>, 0) IN
  [k EXCEPT
     !.chk = Append(@, CheckNumArgs(<<>>, k)),
     !.bnd = @ \o [i \in DOMAIN rule.get |->
                     [op |-> "state_get_item", dst |-> rule.get[i].val, key |-> rule.get[i].key]],
     !.rep = @ \o [i \in DOMAIN rule.put |->
                     [kind |-> "MapAdd", key |-> rule.put[i].key, val |-> rule.put[i].val]]]

-----------------------------------------------------------------------------
(* Code.                                                                   *)

NewK(dst, l, items) == [op |-> "k_new", dst |-> dst, label |-> l, items |-> items]
\* The C variable that holds the term t once CompileTerm(t, dst) has run.
Holds(t, dst) == IF t.op = "var" THEN t.name ELSE IF t.label \in Constant THEN t.label ELSE dst
Item(t, dst)  == [v |-> Holds(t, dst), list |-> IsList(t)]
ArgName(dst, i) == dst \o "_" \o ToString(i)

\* Statements that build the term t in dst, children first.  The arguments of a
\* built-in are compiled a second time, for the call itself.
RECURSIVE CompileTerm(_, _)
CompileTerm(t, dst) ==
  IF t.op = "var" \/ Holds(t, dst) \in Constant THEN <<>>
  ELSE LET build == FlattenSeq([i \in DOMAIN t.body |-> CompileTerm(t.body[i], ArgName(dst, i))])
           items == [i \in DOMAIN t.body |-> Item(t.body[i], ArgName(dst, i))]
       IN IF t.label \in Builtin
            THEN build \o build
                 \o <<[op |-> "k_builtin", fn |-> t.label, dst |-> dst,
                       args |-> [i \in DOMAIN items |-> items[i].v]]>>
                 \o (IF t.label \in MakesInt THEN <<NewK(dst, "#int", <<[v |-> dst, list |-> FALSE]>>)>>
                     ELSE <<>>)
            ELSE build \o <<NewK(dst, t.label, items)>>

\* Statements of the i-th replacement.
CompileReplacement(rep, i) ==
  CASE rep.kind = "TermChange" ->
         LET dst(j) == "r" \o ToString(i) \o "_" \o ToString(j) IN
         FlattenSeq([j \in DOMAIN rep.result |-> CompileTerm(rep.result[j], dst(j))])
         \o <<[op |-> "insert_elems", loc |-> rep.loc, pos |-> rep.pos, rest |-> rep.rest,
               count |-> rep.count,
               items |-> [j \in DOMAIN rep.result |-> Item(rep.result[j], dst(j))]]>>
         \o (IF rep.loc = <<>> THEN <<[op |-> "new_holder"]>> ELSE <<>>)
    [] rep.kind = "LabelChange" ->
         <<[op |-> "k_set_label", loc |-> rep.loc, label |-> rep.to]>>
    [] rep.kind = "MapAdd" ->
         LET dst == "m" \o ToString(i) IN
         CompileTerm(rep.val, dst)
         \o <<[op |-> "updateStore", key |-> rep.key, val |-> Holds(rep.val, dst)]>>

\* The function generated for a rule: checks; then oldK, bindings, replacements,
\* the disposal of list copies, and Dec(oldK).
Replace(ch) == FlattenSeq([i \in DOMAIN ch.rep |-> CompileReplacement(ch.rep[i], i)])
Cleanup(ch) == LET list == SelectSeq(ch.bnd, LAMBDA b : b.op = "without") IN
               [i \in DOMAIN list |-> [op |-> "k_dispose", v |-> list[i].dst]]

CompileRule_leak(rule) ==
  LET ch == BuildChecks(rule) IN
  [chk  |-> ch.chk,
   code |-> <<[op |-> "Inc_oldK"]>> \o ch.bnd \o Replace(ch) \o <<[op |-> "Dec_oldK"]>>]
CompileRule_early(rule) ==
  LET ch == BuildChecks(rule) IN
  [chk  |-> ch.chk,
   code |-> <<[op |-> "Inc_oldK"]>> \o ch.bnd \o Cleanup(ch) \o Replace(ch) \o <<[op |-> "Dec_oldK"]>>]
CompileRule(rule) ==
  LET ch == BuildChecks(rule) IN
  [chk  |-> ch.chk,
   code |-> <<[op |-> "Inc_oldK"]>> \o ch.bnd \o Replace(ch) \o Cleanup(ch) \o <<[op |-> "Dec_oldK"]>>]

-----------------------------------------------------------------------------
(* The code that runs before the rules.                                    *)

\* aterm_to_k: the arguments are converted last one first.
RECURSIVE AtermToK(_, _)
AtermToK(t, dst) ==
  IF t.l = "#bool" THEN <<>>
  ELSE LET n == Len(t.a)
           name(i) == IF t.a[i].l = "#bool" THEN t.a[i].a[1].l ELSE ArgName(dst, i)
       IN FlattenSeq([i \in 1..n |-> AtermToK(t.a[n + 1 - i], ArgName(dst, n + 1 - i))])
          \o <<NewK(dst, t.l, [i \in 1..n |-> [v |-> name(i), list |-> FALSE]])>>

\* k_init_builtins, as far as rules and programs use it.
InitBuiltins ==
  FlattenSeq(SetToSeq({<<NewK("leaf", c, <<>>),
                         NewK(c, "#bool", <<[v |-> "leaf", list |-> FALSE]>>),
                         [op |-> "k_make_permanent", v |-> c]>> : c \in Constant}))

\* k_init, aterm_file_to_k and new_configuration, for the program pgm, which has
\* no hole (the integer that run makes for it stays unused).
Boot(pgm) ==
  InitBuiltins \o AtermToK(pgm, "pgm")
  \o <<NewK("holder", "_kra", <<>>), [op |-> "newComputationCell", v |-> "holder"],
       [op |-> "computation_add_front",
        v |-> IF pgm.l = "#bool" THEN pgm.a[1].l ELSE "pgm"]>>

\* C variables a piece of code assigns.
Assigned(code) == {code[i].dst : i \in {j \in DOMAIN code : "dst" \in DOMAIN code[j]}}
=============================================================================
