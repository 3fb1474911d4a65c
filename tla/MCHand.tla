------------------------------- MODULE MCHand -------------------------------
(***************************************************************************)
(* Programs for the interpreter written by hand: prog1 of the programs the *)
(* repository runs, and small ones for each construct.                     *)
(***************************************************************************)
EXTENDS ImpByHandTerms

CONSTANT Tests   \* the programs of a run

Term(l, a) == [l |-> l, a |-> a]
C(l)      == Term(l, <<>>)
Lit(i)    == Term("#int", <<C(ToString(i))>>)
Var1(x)   == Term("id", <<Term("#string", <<C(x)>>)>>)
Set(x, e) == Term("assign", <<Var1(x), e>>)
Block(s)  == Term("statements", s)
Two(l, a, b) == Term(l, <<a, b>>)
Not1(e)   == Term("not", <<e>>)
Pgm(s, e) == Two("program", Block(s), e)
X == Var1("x")
Y == Var1("y")
InpT == C("#hole")

ImpPrograms == [
  \* prog1: the sum of the numbers up to the input
  prog1 |-> Pgm(<<Term("var", <<Y, X>>), Set("y", InpT), Set("x", Lit(0)),
                 Term("while", <<Not1(Two("lte", Y, Lit(0))),
                   Block(<<Set("x", Two("plus", X, Y)), Set("y", Two("plus", Y, Term("neg", <<Lit(1)>>)))>>)>>)>>, X),
  branch |-> Pgm(<<Set("x", InpT),
                  Term("ifThenElse", <<Two("and", Two("lte", Lit(2), X), Not1(C("#false"))),
                                       Set("x", Two("minus", X, Lit(-3))), C("skip")>>),
                  Term("ifThenElse", <<Two("and", C("#true"), Two("lte", X, Lit(-4))), C("skip"), Set("y", X)>>)>>, Y),
  divide |-> Pgm(<<Term("var", <<X>>), Set("x", Two("div", Lit(-3), InpT)), Block(<<>>)>>, X),
  \* the body of a loop is shared with the loop that comes after it
  again  |-> Pgm(<<Set("x", Lit(-1)),
                  Term("while", <<Two("lte", X, InpT), Set("x", Two("plus", X, Lit(2)))>>)>>, X),
  parens |-> Pgm(<<Set("x", InpT)>>, Term("paren", <<X>>)),
  deep   |-> Pgm(<<Set("x", InpT)>>, Term("neg", <<Term("neg", <<Term("neg", <<Term("neg",
                   <<Term("neg", <<Term("neg", <<X>>)>>)>>)>>)>>)>>)),
  unset  |-> Pgm(<<Set("x", InpT)>>, Y),
  zero   |-> Pgm(<<Set("x", InpT)>>, Two("div", X, Lit(0))),
  guard  |-> Pgm(<<Term("ifThenElse", <<InpT, C("skip"), C("skip")>>)>>, X),
  pair   |-> Two("program", InpT, C("#true")),
  nothing |-> Block(<<InpT>>),
  odd    |-> Term("program", <<InpT>>) ]

Good    == {"prog1", "branch", "divide", "again"}
Stopping == {"parens", "deep", "unset", "zero", "guard", "pair", "odd"}
HandTests == Good \cup Stopping

\* aterm_to_k after at nodes have been built: the nodes of t, its arguments from
\* the last to the first; #true, #false and the hole are nodes that are there.
InputNode == 12
RECURSIVE AtermToK(_, _), ArgsToK(_, _)
AtermToK(t, at) ==
  CASE t.l = "#true"  -> [code |-> <<>>, node |-> 5]
    [] t.l = "#false" -> [code |-> <<>>, node |-> 3]
    [] t.l = "#hole"  -> [code |-> <<>>, node |-> InputNode]
    [] OTHER -> LET as == ArgsToK(t.a, at)
                IN [code |-> Append(as.code, Build(t.l, as.nodes)), node |-> at + Len(as.code) + 1]
ArgsToK(ts, at) ==
  IF ts = <<>> THEN [code |-> <<>>, nodes |-> <<>>]
  ELSE LET l == AtermToK(Last(ts), at)
           f == ArgsToK(Front(ts), at + Len(l.code))
       IN [code |-> l.code \o f.code, nodes |-> Append(f.nodes, l.node)]

HandSource  == [t \in Tests |-> ImpPrograms[t]]
HandProgram == [t \in Tests |-> <<Build(ToString(Input), <<>>), Build("#int", <<11>>)>>
                                  \o AtermToK(ImpPrograms[t], InputNode).code]
HandNode == 1..MAX_OUTSTANDING_K
HandSubsorts == [result |-> {"#int", "#bool"}]
\* Three bits stand for 64.
HandNum == [l \in {ToString(i) : i \in -4..3} |-> CHOOSE i \in -4..3 : ToString(i) = l]
HandCells == <<"cell1", "cell2", "cell3">>
CellsOfRuns == SubSeq(HandCells, 1, Runs)
=============================================================================
