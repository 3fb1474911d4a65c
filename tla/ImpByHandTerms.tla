--------------------------- MODULE ImpByHandTerms ---------------------------
(***************************************************************************)
(* ImpByHand related to what IMP means: whenever repl (or a handler that   *)
(* follows another) looks at the cells, they are read back as terms into   *)
(* the history variable seen.  The terms seen one after the other must be  *)
(* steps of term rewriting by the rules the handlers stand for, and what   *)
(* run returns must be what evaluating the program gives.                  *)
(***************************************************************************)
EXTENDS ImpByHand

CONSTANTS Source,   \* test -> the term of its program, with #hole for the input
          Input,    \* the number given to run
          Subsorts,
          Rules,    \* HandRules
          Sound     \* the tests that mean something and fit in the cell

VARIABLE seen

RECURSIVE TermAt(_)
TermAt(n) == [l |-> label[n], a |-> [i \in DOMAIN args[n] |-> TermAt(args[n][i])]]
Store == [x \in Owned |-> TermAt(root[x])]
Terms(s) == [i \in DOMAIN s |-> TermAt(s[i])]

\* A handler is about to look at the cells.
AtRule == /\ phase = "repl" /\ Idle
          /\ calls = <<>> \/ Call.op \in {"handleValue", "handleIf"}

HtInit == HwInit /\ seen = [cell |-> <<>>, store |-> <<>>, run |-> 0]
HtNext == /\ HwNext
          /\ seen' = IF AtRule' THEN [cell |-> Terms(Cell'), store |-> Store', run |-> run'] ELSE seen
HtSpec == HtInit /\ [][HtNext]_<<hwVars, seen>>
\* One thread, which runs on until the program has ended: weak fairness of
\* HtNext, with ~ Over for ENABLED (a step is possible until the end, and TLC
\* takes too long over ENABLED here).
HtFairSpec == HtSpec /\ ([]<>Over \/ []<><<HtNext>>_<<hwVars, seen>>)

-----------------------------------------------------------------------------
(* The rules of IMP that the handlers carry out.                           *)

S == INSTANCE RuleSyntax
K == S!ListVar("K")
V(x) == S!Sorted(x, "result")
N(x) == S!NotSorted(x, "result")
I(x) == S!Sorted(x, "#int")
W(x) == S!Var(x)
App(l, s) == S!Appl(l, s)
Id(x)  == App("id", <<W(x)>>)
IntT(i) == App("#int", <<App(i, <<>>)>>)
TruthT(b) == App("#bool", <<App(b, <<>>)>>)
HoleT == App("_hole", <<>>)
Rewrites(lhs, rhs) == S!Rule(<<S!Rewrite(lhs, rhs), K>>, <<>>, <<>>)
Drops(p) == S!Rule(<<S!Rewrite(<<p, K>>, <<K>>)>>, <<>>, <<>>)

\* Argument i of l goes to the top, and comes back as a value.
Strictly(l, n, i) ==
  LET With(x) == App(l, [j \in 1..n |-> IF j = i THEN x ELSE W("A" \o ToString(j))])
  IN <<Rewrites(<<With(N("X"))>>, <<N("X"), With(HoleT)>>),
       Rewrites(<<V("X"), With(HoleT)>>, <<With(V("X"))>>)>>
BothStrictly(l) == Strictly(l, 2, 1) \o Strictly(l, 2, 2)
Operator(l, f) == Rewrites(<<App(l, <<I("X"), I("Y")>>)>>, <<App(f, <<I("X"), I("Y")>>)>>)
Body == S!ListVar("Ss")

HandRules ==
  Strictly("assign", 2, 2) \o Strictly("ifThenElse", 3, 1) \o Strictly("not", 1, 1)
  \o Strictly("neg", 1, 1)
  \o BothStrictly("lte") \o BothStrictly("plus") \o BothStrictly("minus")
  \o BothStrictly("div") \o BothStrictly("and")
  \o << S!Rule(<<S!Rewrite(<<Id("X")>>, <<W("I")>>), K>>, <<S!Lookup("X", "I")>>, <<>>),
        Rewrites(<<App("program", <<W("S"), W("R")>>)>>, <<W("S"), W("R")>>),
        Drops(App("statements", <<>>)),
        Rewrites(<<App("statements", <<W("S")>>)>>, <<W("S")>>),
        Rewrites(<<App("statements", <<W("S"), Body>>)>>, <<W("S"), App("statements", <<Body>>)>>),
        Drops(App("var", <<>>)),
        S!Rule(<<S!Rewrite(<<App("var", <<Id("X"), Body>>)>>, <<App("var", <<Body>>)>>), K>>,
               <<>>, <<S!Lookup("X", IntT("0"))>>),
        S!Rule(<<S!Rewrite(<<App("assign", <<Id("X"), V("E")>>), K>>, <<K>>)>>,
               <<>>, <<S!Lookup("X", V("E"))>>),
        Rewrites(<<App("while", <<W("B"), W("S")>>)>>,
          <<App("ifThenElse", <<W("B"), App("statements", <<W("S"), App("while", <<W("B"), W("S")>>)>>),
                                App("skip", <<>>)>>)>>),
        Rewrites(<<App("ifThenElse", <<TruthT("#true"), W("S"), W("R")>>)>>, <<W("S")>>),
        Rewrites(<<App("ifThenElse", <<TruthT("#false"), W("S"), W("R")>>)>>, <<W("R")>>),
        Rewrites(<<App("not", <<V("B")>>)>>, <<App("#not", <<V("B")>>)>>),
        Operator("lte", "#lteInt"), Operator("plus", "#plusInt"),
        Operator("minus", "#minusInt"), Operator("div", "#divInt"),
        Rewrites(<<App("and", <<TruthT("#true"), TruthT("#true")>>)>>, <<App("#true", <<>>)>>),
        Rewrites(<<App("and", <<V("A"), V("B")>>)>>, <<App("#false", <<>>)>>),
        Rewrites(<<App("neg", <<I("X")>>)>>, <<App("#negInt", <<I("X")>>)>>),
        Drops(App("skip", <<>>)) >>

Abstract == INSTANCE Rewriting WITH cell <- seen.cell, store <- seen.store, LabelVars <- {}

-----------------------------------------------------------------------------
(* Evaluation: integers wrap, booleans are TRUE and FALSE.                 *)

Name(e) == e.a[1].a[1].l
Literal(e) == e.a[1].l
RECURSIVE Eval(_, _), Exec(_, _), ExecAll(_, _)
Eval(e, st) ==
  CASE e.l = "#hole" -> Input
    [] e.l = "#int"  -> Num[Literal(e)]
    [] e.l = "#true" -> TRUE
    [] e.l = "#false" -> FALSE
    [] e.l = "id"    -> st[Name(e)]
    [] e.l = "paren" -> Eval(e.a[1], st)
    [] e.l = "not"   -> ~ Eval(e.a[1], st)
    [] e.l = "neg"   -> Wrap(- Eval(e.a[1], st))
    [] e.l = "lte"   -> Eval(e.a[1], st) <= Eval(e.a[2], st)
    [] e.l = "and"   -> Eval(e.a[1], st) /\ Eval(e.a[2], st)
    [] e.l = "plus"  -> Wrap(Eval(e.a[1], st) + Eval(e.a[2], st))
    [] e.l = "minus" -> Wrap(Eval(e.a[1], st) - Eval(e.a[2], st))
    [] e.l = "div"   -> Quotient(Eval(e.a[1], st), Eval(e.a[2], st))
Exec(s, st) ==
  CASE s.l = "skip"   -> st
    [] s.l = "assign" -> (Name(s.a[1]) :> Eval(s.a[2], st)) @@ st
    [] s.l = "var"    -> [x \in {Name(s.a[i]) : i \in DOMAIN s.a} |-> 0] @@ st
    [] s.l = "statements" -> ExecAll(s.a, st)
    [] s.l = "ifThenElse" -> Exec(s.a[IF Eval(s.a[1], st) THEN 2 ELSE 3], st)
    [] s.l = "while"  -> IF Eval(s.a[1], st) THEN Exec(s, Exec(s.a[2], st)) ELSE st
ExecAll(ss, st) == IF ss = <<>> THEN st ELSE ExecAll(Tail(ss), Exec(Head(ss), st))

Meaning(pgm) == Eval(pgm.a[2], Exec(pgm.a[1], <<>>))

-----------------------------------------------------------------------------
(* Properties.                                                             *)

\* Whatever the handlers edit in place or in copies, what repl sees next is what
\* one rule of IMP makes of what it saw before.
RuleSteps == [][seen' # seen /\ seen'.run = seen.run => Abstract!Next]_seen

\* (the assertions of test.c).
ResultAsEvaluated ==
  Over /\ test \in Sound => phase = "done" /\ \A r \in DOMAIN value : Num[value[r]] = Meaning(Source[test])

\* check(): every node in a cell or the map has as many references as the cells
\* show, counting the arguments of each node once.
InCells == Reach(Range(Cell) \cup {root[x] : x \in Owned})
Shown(n) == Occ(Cell, n) + Cardinality({x \in Owned : root[x] = n})
              + Cardinality({e \in SlotsOf(args, n) : e[1] \in InCells})
CheckPasses ==
  phase \in {"repl", "result"} /\ calls = <<>> /\ Idle => \A n \in InCells : refs[n] = Shown(n)

\* Between two calls of run nothing is left but the constants, and the emptied
\* holders of cells that have been freed.
OnlyHoldersLeak ==
  (phase = "load" /\ run > 1 /\ calls = Program[test]) \/ phase = "done" =>
    LET holders == {root[Cells[r]] : r \in {q \in 1..Runs : root[Cells[q]] # NoNode}} IN
    /\ {n \in Node : Live(n)} = Reach(Range(ConstantNodes)) \cup holders
    /\ \A h \in holders : args[h] = <<>> /\ refs[h] = 1

\* Every program of the run comes to an end.
Terminates == <>Over
=============================================================================
