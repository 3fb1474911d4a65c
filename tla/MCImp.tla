------------------------------- MODULE MCImp --------------------------------
(***************************************************************************)
(* The language of src/tests/imp/imp.kinc: all its rules, in their order.  *)
(***************************************************************************)
EXTENDS RewriterTerms

CONSTANT Tests   \* the programs of a run

K     == ListVar("K")
S     == ListVar("S")
AnyK  == Var("Any")
X     == Var("X")
B     == Sorted("B", "#bool")
I(x)  == Sorted(x, "#int")
NotI(x) == NotSorted(x, "#int")
App(l, x)     == Appl(l, <<x>>)
App2(l, x, y) == Appl(l, <<x, y>>)
Truth(b)      == Appl("#bool", <<Appl(b, <<>>)>>)

\* rule <k> (lhs => rhs) ~> K:listk </k>
Top(lhs, rhs) == Rule(<<Rewrite(lhs, rhs), K>>, <<>>, <<>>)

\* A strict argument: f(.., X, ..) => X ~> freezer(..) and back.
Heat(f, x, freezer)  == Top(<<f>>, <<x, freezer>>)
Cool(x, freezer, f)  == Top(<<x, freezer>>, <<f>>)
BothStrict(f, l, r) == <<
  Heat(App2(f, NotI("I1"), Var("I2")), NotI("I1"), App(l, Var("I2"))),
  Cool(I("I1"), App(l, Var("I2")), App2(f, I("I1"), Var("I2"))),
  Heat(App2(f, Var("I1"), NotI("I2")), NotI("I2"), App(r, Var("I1"))),
  Cool(I("I2"), App(r, Var("I1")), App2(f, Var("I1"), I("I2")))>>

Compute2(f, op) == Top(<<App2(f, I("I1"), I("I2"))>>, <<App2(op, I("I1"), I("I2"))>>)

Branch(b) == Appl("ifThenElse", <<b, Var("S1"), Var("S2")>>)
NotB(x)   == NotSorted(x, "#bool")

ImpRules ==
  << Heat(Branch(NotB("B")), NotB("B"), App2("ifThenElseFreeze", Var("S1"), Var("S2"))),
     Cool(B, App2("ifThenElseFreeze", Var("S1"), Var("S2")), Branch(B)),
     Heat(App("not", NotB("B")), NotB("B"), Appl("notFreeze", <<>>)),
     Cool(B, Appl("notFreeze", <<>>), App("not", B)) >>
  \o BothStrict("lte", "lteFreeze1", "lteFreeze2")
  \o << Heat(App2("assign", X, NotI("V")), NotI("V"), App("assignFreeze", X)),
        Cool(I("V"), App("assignFreeze", X), App2("assign", X, I("V"))) >>
  \o BothStrict("plus", "plusFreeze1", "plusFreeze2")
  \o BothStrict("minus", "minusFreeze1", "minusFreeze2")
  \o BothStrict("div", "divFreeze1", "divFreeze2")
  \o << Heat(App2("and", NotB("B1"), Var("B2")), NotB("B1"), App("andFreeze1", Var("B2"))),
        Cool(Sorted("B1", "#bool"), App("andFreeze1", Var("B2")),
             App2("and", Sorted("B1", "#bool"), Var("B2"))),
        Top(<<App("program", S)>>, <<S>>),
        Rule(<<Rewrite(<<App2("var", App("id", X), ListVar("Vs"))>>, <<App("var", ListVar("Vs"))>>), K>>,
             <<>>, <<Lookup(X.name, App("#int", Appl("0", <<>>)))>>),
        Rule(<<Rewrite(<<Appl("var", <<>>), K>>, <<K>>)>>, <<>>, <<>>),
        Compute2("plus", "#plusInt"), Compute2("minus", "#minusInt"),
        Compute2("times", "#timesInt"), Compute2("div", "#divInt"), Compute2("lte", "#lteInt"),
        Top(<<App("neg", I("I"))>>, <<App("#negInt", I("I"))>>),
        Top(<<App("not", B)>>, <<App("#not", B)>>),
        Top(<<App2("and", Truth("#true"), Var("B"))>>, <<Var("B")>>),
        Top(<<App2("and", Truth("#false"), AnyK)>>, <<Appl("#false", <<>>)>>),
        Top(<<App("statements", S)>>, <<S>>),
        Top(<<App("block", S)>>, <<S>>),
        Top(<<App("paren", Var("S"))>>, <<Var("S")>>),
        Rule(<<Rewrite(<<Appl("kra", <<>>), K>>, <<K>>)>>, <<>>, <<>>),
        Top(<<App("kra", S)>>, <<S>>),
        Rule(<<Rewrite(<<Appl("skip", <<>>), K>>, <<K>>)>>, <<>>, <<>>),
        Top(<<Appl("ifThenElse", <<Truth("#true"), Var("S"), AnyK>>)>>, <<Var("S")>>),
        Top(<<Appl("ifThenElse", <<Truth("#false"), AnyK, Var("S")>>)>>, <<Var("S")>>),
        Top(<<App2("while", Var("B"), Var("S"))>>,
            <<Appl("ifThenElse", <<Var("B"), App2("kra", Var("S"), App2("while", Var("B"), Var("S"))),
                                   Appl("kra", <<>>)>>)>>),
        Rule(<<Rewrite(<<App("id", X)>>, <<Var("I")>>), K>>, <<Lookup("X", "I")>>, <<>>),
        Rule(<<Rewrite(<<App2("assign", App("id", X), I("I"))>>, <<Appl("kra", <<>>)>>), K>>,
             <<>>, <<Lookup("X", I("I"))>>) >>

-----------------------------------------------------------------------------
(* Programs.                                                               *)

C(l)       == T(l, <<>>)
Int1(l)    == T("#int", <<C(l)>>)
Id(x)      == T("id", <<T("#string", <<C(x)>>)>>)
Truth1(b)  == T("#bool", <<C(b)>>)
Yes == Truth1("#true")
No  == Truth1("#false")
Set(x, v)  == T("assign", <<Id(x), v>>)

\* A loop that sets x to 0 and then to 1, inside the condition of another loop:
\* what the inner loop is made of stays shared.
Shared01 == T("while", <<T("block", <<Set("x", Int1("0")),
                                    T("while", <<T("lte", <<Id("x"), Int1("0")>>), Set("x", Int1("1"))>>),
                                    No>>), C("skip")>>)

Suite == [
  notBool |-> [pgm |-> T("block", <<T("not", <<Yes>>), No>>), cell |-> <<No, No>>],
  and01   |-> [pgm |-> T("block", <<T("and", <<Yes, Yes>>), No>>), cell |-> <<Yes, No>>],
  and02   |-> [pgm |-> T("block", <<T("and", <<No, Yes>>), No>>), cell |-> <<No, No>>],
  ite01   |-> [pgm |-> T("block", <<T("ifThenElse", <<Yes, T("and", <<No, Yes>>), T("and", <<Yes, Yes>>)>>), No>>),
               cell |-> <<No, No>>],
  while01 |-> [pgm |-> T("block", <<T("while", <<No, T("block", <<Yes, No>>)>>), No>>), cell |-> <<No>>],
  lte01   |-> [pgm |-> T("lte", <<Int1("1"), Int1("2")>>), cell |-> <<Yes>>],
  plus01  |-> [pgm |-> T("plus", <<Int1("1"), Int1("2")>>), cell |-> <<Int1("3")>>],
  store01 |-> [pgm |-> T("block", <<Set("x", Int1("1")), Id("x")>>), cell |-> <<Int1("1")>>],
  loop    |-> [pgm |-> T("block", <<Shared01, Id("x")>>), cell |-> <<Int1("1")>>],
  nested  |-> [pgm |-> T("plus", <<T("paren", <<T("plus", <<Int1("1"), Int1("1")>>)>>), Int1("1")>>),
               cell |-> <<Int1("3")>>],
  arith   |-> [pgm |-> T("minus", <<T("times", <<Int1("2"), Int1("-2")>>), T("neg", <<Int1("3")>>)>>),
               cell |-> <<Int1("-1")>>],
  quot    |-> [pgm |-> T("div", <<Int1("-3"), Int1("2")>>), cell |-> <<Int1("-1")>>],
  wraps   |-> [pgm |-> T("plus", <<Int1("3"), Int1("2")>>), cell |-> <<Int1("-3")>>],
  div0    |-> [pgm |-> T("div", <<Int1("1"), Int1("0")>>), cell |-> <<>>],
  divMin  |-> [pgm |-> T("div", <<Int1("-4"), Int1("-1")>>), cell |-> <<>>],
  unset   |-> [pgm |-> Id("x"), cell |-> <<>>],
  skip    |-> [pgm |-> C("skip"), cell |-> <<>>],
  twice   |-> [pgm |-> T("while", <<T("block", <<Set("x", T("plus", <<Int1("1"), Int1("1")>>)), No>>), C("skip")>>),
               cell |-> <<>>] ]

\* These stop before their end, each in another way (the first three should not).
Stopping == {"store01", "skip", "twice", "unset", "div0", "divMin"}

Working == {"notBool", "and01", "and02", "ite01", "while01", "lte01", "plus01", "loop", "nested",
            "arith", "quot", "wraps"}

ImpProgram  == [t \in Tests |-> Boot(Suite[t].pgm)]
ImpExpected == [t \in Tests |-> Suite[t].cell]
EndsExpected == [t \in Working |-> Suite[t].cell]
ImpTests == Working \cup Stopping
ImpCVar     == {"ret"} \cup UNION {Assigned(Boot(Suite[t].pgm)) : t \in DOMAIN Suite}
                 \cup UNION {Assigned(Compiled[r].code) : r \in DOMAIN Compiled}
ImpNode == 1..MAX_OUTSTANDING_K
ImpSubsorts == [result |-> {"#int", "#bool"}]
\* Three bits stand for 64.
ImpNum == [l \in {ToString(i) : i \in -4..3} |-> CHOOSE i \in -4..3 : ToString(i) = l]
ImpLiteral == {"x"} \cup DOMAIN ImpNum
=============================================================================
