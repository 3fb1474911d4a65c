------------------------------ MODULE MCBasic -------------------------------
(***************************************************************************)
(* The language of src/tests/basic/basic.kinc, its programs and results.   *)
(***************************************************************************)
EXTENDS RewriterTerms

CONSTANT Tests   \* the programs of a run

N(l)     == Appl(l, <<>>)
Ns(ls)   == [i \in DOMAIN ls |-> N(ls[i])]
Top(its) == Rule(its, <<>>, <<>>)
X == Var("X")
L == ListVar("T")

BasicSubsorts == [int |-> {"s", "zero"}]
BasicLabelVar == {"'LV"}

BasicRules == <<
  Top(<<Rewrite(Ns(<<"fakesymbol">>), Ns(<<"q", "label01", "y", "w">>))>>),
  Top(<<Rewrite(<<Appl("test1", <<N("a"), L>>)>>, <<L>>)>>),
  Top(<<Rewrite(<<Appl("test2", <<N("a"), N("b"), L>>)>>, <<N("a"), L>>)>>),
  Top(<<Appl("list1", <<Rewrite(Ns(<<"a", "b">>), Ns(<<"c", "d">>))>>)>>),
  Top(<<Appl("list2", <<Rewrite(Ns(<<"a">>), Ns(<<"c", "d">>))>>)>>),
  Top(<<Appl("list3", <<Rewrite(Ns(<<"a", "b">>), Ns(<<"c">>))>>)>>),
  Top(<<Appl("list4", <<Rewrite(Ns(<<"a", "b">>), Ns(<<"c", "d">>)), N("e"), N("f")>>)>>),
  Top(<<Appl("list5", <<Rewrite(Ns(<<"a">>), Ns(<<"c", "d">>)), N("e"), N("f")>>)>>),
  Top(<<Appl("list6", <<Rewrite(Ns(<<"a", "b">>), Ns(<<"c">>)), N("e"), N("f")>>)>>),
  Top(<<Appl("list7", <<N("z"), Rewrite(Ns(<<"a", "b">>), Ns(<<"c", "d">>)), N("e"), N("f")>>)>>),
  Top(<<Appl("list8", <<N("z"), Rewrite(Ns(<<"a">>), Ns(<<"c", "d">>)), N("e"), N("f")>>)>>),
  Top(<<Appl("list9", <<N("z"), Rewrite(Ns(<<"a", "b">>), Ns(<<"c">>)), N("e"), N("f")>>)>>),
  Top(<<Appl("list10", <<Rewrite(<<N("a"), L>>, <<L, L>>)>>)>>),
  Top(<<Appl("list11", <<Rewrite(Ns(<<"a">>), Ns(<<"b", "e">>)), Rewrite(Ns(<<"c">>), Ns(<<"d">>))>>)>>),
  Top(<<Rewrite(<<N("list12"), L>>, <<N("b"), L, Appl("c", <<L>>), L, N("d"), L, L>>)>>),
  Top(<<Appl("label01", <<Relabel("q", "z", <<L>>)>>)>>),
  Top(<<Relabel("label02", "z", <<L>>)>>),
  Top(<<N("label03"), Rewrite(Ns(<<"a">>), Ns(<<"b">>)), Relabel("'LV", "q", <<>>)>>),
  Top(<<N("label04"), Rewrite(Ns(<<"a">>), Ns(<<"'LV">>)), Relabel("'LV", "q", <<>>)>>),
  Top(<<Rewrite(<<Appl("crazy", Ns(<<"a", "b", "c", "d", "e">>))>>, Ns(<<"a">>))>>),
  Top(<<Rewrite(<<Appl("containsList1", <<L>>)>>, <<Appl("containsList2", <<L>>)>>)>>),
  Top(<<Rewrite(<<Appl("sorts01", <<Sorted("X", "int")>>)>>, Ns(<<"a">>))>>),
  Top(<<Rewrite(<<Appl("sorts02", <<Sorted("X", "int")>>)>>, Ns(<<"a">>))>>),
  Top(<<Rewrite(<<Appl("sorts03", <<NotSorted("X", "int")>>)>>, Ns(<<"a">>))>>),
  Top(<<Rewrite(<<Appl("sorts04", <<NotSorted("X", "int")>>)>>, Ns(<<"a">>))>>),
  Top(<<Appl("foo", <<Rewrite(<<Appl("plus", <<Appl("s", <<X>>), Sorted("M", "int")>>)>>,
                              <<Appl("plus", <<X, Appl("s", <<Sorted("M", "int")>>)>>)>>)>>)>>),
  Top(<<Appl("foo", <<Rewrite(<<Appl("plus", <<N("zero"), X>>)>>, <<X>>)>>)>>),
  Top(<<Rewrite(<<Appl("plus", <<Appl("s", <<X>>), Sorted("M", "int")>>)>>,
                <<Appl("plus", <<X, Appl("s", <<Sorted("M", "int")>>)>>)>>)>>),
  Top(<<Rewrite(<<Appl("plus", <<N("zero"), X>>)>>, <<X>>)>>),
  Top(<<Rewrite(<<Appl("var", <<Var("H"), L>>)>>, <<Appl("var", <<L>>)>>)>>),
  Top(<<Rewrite(<<Appl("holder", Ns(<<"a">>))>>, <<Appl("holder", Ns(<<"a", "b">>))>>)>>),
  Top(<<Appl("z", <<Rewrite(Ns(<<"a">>), Ns(<<"b">>))>>)>>),
  Top(<<Rewrite(<<Appl("empty", <<L>>)>>, <<L>>)>>) >>

C(l)     == T(l, <<>>)
Cs(ls)   == [i \in DOMAIN ls |-> C(ls[i])]
F(f, ls) == T(f, Cs(ls))
Peano[n \in Nat] == IF n = 0 THEN C("zero") ELSE T("s", <<Peano[n - 1]>>)

\* The programs of the suite and the K cells of their .result files.  The Peano
\* numbers of plus and rewriteInsideTerm are shorter here.
Suite == [
  label01 |-> [pgm |-> F("label01", <<"q">>), cell |-> <<F("label01", <<"z">>)>>],
  label02 |-> [pgm |-> C("label02"), cell |-> Cs(<<"z">>)],
  label03 |-> [pgm |-> F("empty", <<"label03", "a", "c">>), cell |-> Cs(<<"label03", "b", "q">>)],
  label04 |-> [pgm |-> F("empty", <<"label04", "a", "c">>), cell |-> Cs(<<"label04", "c", "q">>)],
  list1  |-> [pgm |-> F("list1", <<"a", "b">>), cell |-> <<F("list1", <<"c", "d">>)>>],
  list2  |-> [pgm |-> F("list2", <<"a">>), cell |-> <<F("list2", <<"c", "d">>)>>],
  list3  |-> [pgm |-> F("list3", <<"a", "b">>), cell |-> <<F("list3", <<"c">>)>>],
  list4  |-> [pgm |-> F("list4", <<"a", "b", "e", "f">>), cell |-> <<F("list4", <<"c", "d", "e", "f">>)>>],
  list5  |-> [pgm |-> F("list5", <<"a", "e", "f">>), cell |-> <<F("list5", <<"c", "d", "e", "f">>)>>],
  list6  |-> [pgm |-> F("list6", <<"a", "b", "e", "f">>), cell |-> <<F("list6", <<"c", "e", "f">>)>>],
  list7  |-> [pgm |-> F("list7", <<"z", "a", "b", "e", "f">>), cell |-> <<F("list7", <<"z", "c", "d", "e", "f">>)>>],
  list8  |-> [pgm |-> F("list8", <<"z", "a", "e", "f">>), cell |-> <<F("list8", <<"z", "c", "d", "e", "f">>)>>],
  list9  |-> [pgm |-> F("list9", <<"z", "a", "b", "e", "f">>), cell |-> <<F("list9", <<"z", "c", "e", "f">>)>>],
  list10 |-> [pgm |-> F("list10", <<"a", "b", "c", "d">>), cell |-> <<F("list10", <<"b", "c", "d", "b", "c", "d">>)>>],
  list11 |-> [pgm |-> F("list11", <<"a", "c">>), cell |-> <<F("list11", <<"b", "e", "d">>)>>],
  list12 |-> [pgm |-> F("empty", <<"list12", "z", "w", "y">>),
              cell |-> Cs(<<"b", "z", "w", "y">>) \o <<F("c", <<"z", "w", "y">>)>>
                         \o Cs(<<"z", "w", "y", "d", "z", "w", "y", "z", "w", "y">>)],
  plus   |-> [pgm |-> T("plus", <<Peano[2], Peano[1]>>), cell |-> <<Peano[3]>>],
  rewriteInsideTerm |-> [pgm |-> T("foo", <<T("plus", <<Peano[2], Peano[1]>>)>>),
                         cell |-> <<T("foo", <<Peano[3]>>)>>],
  rewriteAddArg |-> [pgm |-> F("holder", <<"a">>), cell |-> <<F("holder", <<"a", "b">>)>>],
  rewriteArg |-> [pgm |-> F("z", <<"a">>), cell |-> <<F("z", <<"b">>)>>],
  rewriteTailList |-> [pgm |-> F("var", <<"a", "b", "c">>), cell |-> Cs(<<"var">>)],
  rewriteTermWithListArg |-> [pgm |-> F("containsList1", <<"a", "b", "c">>),
                              cell |-> <<F("containsList2", <<"a", "b", "c">>)>>],
  sorts01 |-> [pgm |-> T("sorts01", <<Peano[1]>>), cell |-> Cs(<<"a">>)],
  sorts02 |-> [pgm |-> F("sorts02", <<"a">>), cell |-> <<F("sorts02", <<"a">>)>>],
  sorts03 |-> [pgm |-> F("sorts03", <<"b">>), cell |-> Cs(<<"a">>)],
  sorts04 |-> [pgm |-> T("sorts04", <<Peano[1]>>), cell |-> <<T("sorts04", <<Peano[1]>>)>>],
  test1  |-> [pgm |-> F("test1", <<"a", "b", "c", "d">>), cell |-> Cs(<<"b", "c", "d">>)],
  test2  |-> [pgm |-> F("test2", <<"a", "b", "c", "d">>), cell |-> Cs(<<"a", "c", "d">>)] ]

Failing == {"list3", "list6", "list9", "list11"}
Working == DOMAIN Suite \ Failing

BasicProgram  == [t \in Tests |-> Boot(Suite[t].pgm)]
BasicExpected == [t \in Tests |-> Suite[t].cell]
BasicCVar     == {"ret"} \cup UNION {Assigned(Boot(Suite[t].pgm)) : t \in DOMAIN Suite}
                   \cup UNION {Assigned(Compiled[r].code) : r \in DOMAIN Compiled}
BasicNode == 1..MAX_OUTSTANDING_K
NoNum == [x \in {} |-> 0]
=============================================================================
