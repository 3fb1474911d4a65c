----------------------------- MODULE ImpByHand ------------------------------
(***************************************************************************)
(* The IMP interpreter written by hand against the runtime                 *)
(* (src/imp-by-hand/imp_bench.c): a handler per construct edits the        *)
(* computation cell and the map cell in place, by calls of k.c and         *)
(* cells.c.  run loads a program, lets repl call handlers until none       *)
(* changes anything, takes the result and cleans up; run_mem calls it      *)
(* again and again.                                                        *)
(*                                                                         *)
(* A handler reads the heap and then makes its calls: calls is what it     *)
(* still has to do.  Each call is an operation of KHeap, whose cascade of  *)
(* Decs runs before the next one.  Programs are well-typed terms.          *)
(***************************************************************************)
EXTENDS LabelledHeap, Int64, SequencesExt

CONSTANTS Program,  \* test -> the nodes aterm_to_k makes for it, children first:
                    \* each a label and the positions of its arguments in built
          Runs,     \* how often run is called
          Cells,    \* the holder of the computation cell of each run
          Key,      \* the keys of the map cell
          MAX_K     \* settings.h, and the limit in computation_add_front

VARIABLES
  test,      \* the program
  run,       \* the number of the current call of run
  built,     \* the constants of the runtime, then the nodes of the program,
             \* which may name a constant as an argument
  calls,     \* what is left to do before repl dispatches again
  ret,       \* the K* the last call returned
  phase,     \* "load", "repl", "result", "cleanup" or why the program ended
  value      \* what each run so far has returned

hwVars == <<vars, label, test, run, built, calls, ret, phase, value>>

\* The constructs whose handlers read their arguments without counting them,
\* and the number of arguments they have.
Constructs == {"assign", "while", "ifThenElse", "not", "neg", "lte", "plus", "minus", "div", "and"}
Arity(l) == CASE l \in {"not", "neg"} -> 1 [] l = "ifThenElse" -> 3 [] OTHER -> 2
Suits(l, n) == l # "_fake" /\ (l \in Constructs => n = Arity(l))

ASSUME HandAssumption ==
  /\ Runs \in Nat \ {0} /\ Cells \in [1..Runs -> Root]
  /\ Key \subseteq Root /\ MAX_K \in Nat
  /\ \A r \in 1..Runs : Cells[r] \notin Key
  /\ \A t \in DOMAIN Program : LET s == Program[t] IN
       /\ s \in Seq(Range(s))
       /\ \A c \in Range(s) :
            c.op = "build" /\ c.args \in Seq(Nat) /\ Suits(c.label, Len(c.args))
  /\ DOMAIN Num # {} /\ \A l \in DOMAIN Num : Suits(l, 0)

-----------------------------------------------------------------------------
(* Runtime calls.                                                          *)

Ret == NoNode                       \* stands for the value of the last call
Of(v) == IF v = Ret THEN ret ELSE v

Build(l, s)    == [op |-> "build", label |-> l, args |-> s]
Permanent(i)   == [op |-> "k_make_permanent", at |-> i]
New(l, s)      == [op |-> "k_new", label |-> l, args |-> s]
Add_front(v)   == [op |-> "computation_add_front", v |-> v]
Set_elem(i, v) == [op |-> "computation_set_elem", pos |-> i, v |-> v]
Remove_head    == [op |-> "computation_remove_head"]
Replace_arg(k, i, v) == [op |-> "k_replace_arg", k |-> k, pos |-> i, v |-> v]
Trim(k)        == [op |-> "updateTrimArgs", k |-> k]
UpdateStore(x, v) == [op |-> "updateStore", key |-> x, v |-> v]
Forget(x)      == [op |-> "state_cleanup", key |-> x]
Follow(h, v)   == [op |-> h, v |-> v]     \* another handler, or a part of one
Panic(why)     == [op |-> "panic", why |-> why]
MakeHolder     == [op |-> "newComputationCell"]

\* k_init_builtins and k_language_init.
Constants == <<Build("_hole", <<>>), Permanent(1),
               Build("#false", <<>>), Build("#bool", <<2>>), Permanent(3),
               Build("#true", <<>>), Build("#bool", <<4>>), Permanent(5),
               Build("0", <<>>), Build("#int", <<6>>), Permanent(7),
               Build("1", <<>>), Build("#int", <<8>>), Permanent(9),
               Build("skip", <<>>), Permanent(10)>>
Hole  == built[1]
False == built[3]
True  == built[5]
Zero  == built[7]
Skip  == built[10]
ConstantNodes == SubSeq(built, 1, 10)

holder == root[Cells[run]]
Cell   == args[holder]
Top    == Cell[1]
Arg(k, i)  == args[k][i]
isValue(k) == label[k] \in {"#int", "#bool"}
\* What #int, #bool or #string wraps.
Inside(k)  == label[Arg(k, 1)]
Number(k)  == Num[Inside(k)]
Truth(b)   == IF b THEN True ELSE False
KeyOf(id)  == Inside(Arg(id, 1))
Owned == {x \in Key : root[x] # NoNode}    \* the keys the map cell has

-----------------------------------------------------------------------------
(* Handlers: the calls each makes for the term at the top.                 *)

\* The context under a value takes it back, if it has a hole.
handleValue(top) ==
  LET next  == Cell[2]
      holes == {i \in DOMAIN args[next] : label[Arg(next, i)] = "_hole"}
  IN IF Len(Cell) = 1 \/ holes = {} THEN <<>>
     ELSE <<Replace_arg(next, Min(holes), top), Remove_head, Follow("newTop", next)>>
Becomes(v) == <<Set_elem(1, v), Follow("handleValue", v)>>
NewInt(i)  == <<New(IntLabel(i), <<>>), New("#int", <<Ret>>)>> \o Becomes(Ret)

\* Argument i goes in front of the cell and leaves a hole.
Heat_bug(top, i) == <<Replace_arg(top, i, Hole), Add_front(Arg(top, i)), Set_elem(2, Ret)>>
Heat(top, i) == <<Add_front(Arg(top, i)), Replace_arg(top, i, Hole), Set_elem(2, Ret)>>
Strict_bug(top, at, rule) ==
  LET todo == {i \in at : ~ isValue(Arg(top, i))}
  IN IF todo # {} THEN Heat(top, Max(todo)) ELSE rule
\* The first of the arguments at that is no value yet is heated; then the rule.
Strict(top, at, rule) ==
  LET todo == {i \in at : ~ isValue(Arg(top, i))}
  IN IF todo # {} THEN Heat(top, Min(todo)) ELSE rule

handleVariable(top) ==
  LET x == KeyOf(top) IN IF x \in Owned THEN Becomes(root[x]) ELSE <<Panic("no such key")>>
handleProgram(top) ==
  IF Len(args[top]) = 2 THEN <<Add_front(Arg(top, 1)), Set_elem(2, Arg(top, 2))>> ELSE <<>>
handleStatements_bug(top) ==
  CASE Len(args[top]) = 0 -> <<Remove_head>>
    [] Len(args[top]) = 1 -> <<Set_elem(1, Arg(top, 1))>>
    [] OTHER -> <<Add_front(Arg(top, 1)), Trim(top)>>
handleStatements(top) ==
  CASE Len(args[top]) = 0 -> <<Remove_head>>
    [] Len(args[top]) = 1 -> <<Set_elem(1, Arg(top, 1))>>
    [] OTHER -> <<Add_front(Arg(top, 1)), Trim(top), Set_elem(2, Ret)>>
handleVar(top) ==
  IF args[top] = <<>> THEN <<Remove_head>>
  ELSE <<UpdateStore(KeyOf(Arg(top, 1)), Zero), Trim(top), Set_elem(1, Ret)>>
handleAssign_bug(top) ==
  Strict(top, {2}, <<UpdateStore(KeyOf(Arg(top, 1)), Arg(top, 2))>>)
handleAssign(top) ==
  Strict(top, {2}, <<UpdateStore(KeyOf(Arg(top, 1)), Arg(top, 2)), Remove_head>>)
handleIf(top) ==
  Strict(top, {1}, CASE Inside(Arg(top, 1)) = "#true"  -> <<Set_elem(1, Arg(top, 2))>>
                     [] Inside(Arg(top, 1)) = "#false" -> <<Set_elem(1, Arg(top, 3))>>
                     [] OTHER -> <<Panic("key type")>>)
handleWhile_bug(top) ==
  <<New("statements", <<Arg(top, 2), top>>), New("ifThenElse", <<Arg(top, 1), Ret>>),
    Set_elem(1, Ret), Follow("handleIf", Ret)>>
handleWhile(top) ==
  <<New("statements", <<Arg(top, 2), top>>), New("ifThenElse", <<Arg(top, 1), Ret, Skip>>),
    Set_elem(1, Ret), Follow("handleIf", Ret)>>
handleNot(top) ==
  Strict(top, {1}, CASE Inside(Arg(top, 1)) = "#false" -> Becomes(True)
                     [] Inside(Arg(top, 1)) = "#true"  -> Becomes(False)
                     [] OTHER -> <<Panic("key type")>>)
handleLTE_bug(top) ==
  Strict(top, {1, 2}, Becomes(Truth(Number(Arg(top, 1)) < Number(Arg(top, 2)))))
handleLTE(top) ==
  Strict(top, {1, 2}, Becomes(Truth(Number(Arg(top, 1)) <= Number(Arg(top, 2)))))
handlePlus(top)  == Strict(top, {1, 2}, NewInt(Number(Arg(top, 1)) + Number(Arg(top, 2))))
handleMinus(top) == Strict(top, {1, 2}, NewInt(Number(Arg(top, 1)) - Number(Arg(top, 2))))
\* Nothing looks at the divisor: the processor traps.
handleDiv(top) ==
  LET a == Number(Arg(top, 1))
      b == Number(Arg(top, 2))
  IN Strict(top, {1, 2}, IF b = 0 \/ DivTraps(a, b) THEN <<Panic("trap")>>
                                                   ELSE NewInt(Quotient(a, b)))
handleAnd(top) ==
  Strict(top, {1, 2}, Becomes(Truth(\A i \in {1, 2} : Inside(Arg(top, i)) = "#true")))
handleNeg(top) == Strict(top, {1}, NewInt(- Number(Arg(top, 1))))
handleSkip == <<Remove_head>>

-----------------------------------------------------------------------------
(* Calls.                                                                  *)

Call == Head(calls)
At(op) == Idle /\ calls # <<>> /\ Call.op = op
GoOn == calls' = Tail(calls) /\ UNCHANGED <<test, run, phase, value>>
\* What the call returns goes to ret.
Returns(k) == ret' = Returned(k) /\ UNCHANGED built
Quiet == UNCHANGED <<label, ret, built>>
End(why) == phase' = why /\ calls' = <<>> /\ UNCHANGED <<vars, label, test, run, built, ret, value>>

Makes(s) == s \in Seq(Node) /\ K_new(s) /\ InOrder /\ Labelled(Call.label)
BuildNode ==
  /\ At("build")
  /\ Makes([i \in DOMAIN Call.args |-> built[Call.args[i]]])
  /\ built' = Append(built, Returned(NoNode))
  /\ GoOn /\ UNCHANGED ret
Make_permanent ==
  /\ At("k_make_permanent")
  /\ Call.at \in DOMAIN built /\ K_make_permanent(built[Call.at])
  /\ GoOn /\ Quiet
NewNode ==
  /\ At("k_new")
  /\ Makes([i \in DOMAIN Call.args |-> Of(Call.args[i])])
  /\ Returns(NoNode) /\ GoOn
NewComputationCell == At("newComputationCell") /\ Own(Cells[run], ret) /\ GoOn /\ Quiet

TooMany_bug == Len(Cell) >= MAX_K
TooMany == Len(Cell) > MAX_K
Computation_add_front ==
  /\ At("computation_add_front")
  /\ IF TooMany THEN End("too many elements")
     ELSE K_add_front_arg(holder, Of(Call.v)) /\ GoOn /\ Quiet
Computation_set_elem ==
  At("computation_set_elem") /\ K_set_arg(holder, Call.pos, Of(Call.v)) /\ GoOn /\ Quiet
\* The trimmed holder is not taken back, so it must not be a copy.
Computation_remove_head ==
  /\ At("computation_remove_head")
  /\ UpdateTrimArgs(holder, 1, Len(Cell)) /\ InOrder /\ Labelled(label[holder])
  /\ GoOn /\ UNCHANGED <<ret, built>>
ReplaceArg ==
  /\ At("k_replace_arg")
  /\ K_replace_arg(Call.k, Call.pos, Of(Call.v)) /\ InOrder /\ Labelled(label[Call.k])
  /\ Returns(Call.k) /\ GoOn
TrimArgs ==
  /\ At("updateTrimArgs")
  /\ UpdateTrimArgs(Call.k, 1, Len(args[Call.k])) /\ InOrder /\ Labelled(label[Call.k])
  /\ Returns(Call.k) /\ GoOn
\* handleValue, once the head is gone: a copy takes the place of the context.
NewTop ==
  /\ At("newTop")
  /\ IF ret = Call.v THEN UNCHANGED vars ELSE K_set_arg(holder, 1, ret)
  /\ GoOn /\ Quiet
Update_store ==
  At("updateStore") /\ Call.key \in Key /\ Own(Call.key, Of(Call.v)) /\ GoOn /\ Quiet
State_cleanup ==
  At("state_cleanup") /\ Call.key \in Key /\ Disown(Call.key) /\ GoOn /\ Quiet
Follows ==
  /\ \/ At("handleValue") /\ calls' = handleValue(Of(Call.v))
     \/ At("handleIf") /\ calls' = handleIf(Of(Call.v))
  /\ UNCHANGED <<vars, label, test, run, built, ret, phase, value>>
Stops == At("panic") /\ End(Call.why)

-----------------------------------------------------------------------------
(* repl.                                                                   *)

Free(p) == phase = p /\ calls = <<>> /\ Idle
Turn(p, c) == phase' = p /\ calls' = c /\ UNCHANGED <<vars, label, test, ret>>

\* A handler that makes no call has changed nothing, and the loop ends.
Dispatch(l, todo) ==
  /\ Free("repl") /\ Cell # <<>> /\ Len(Cell) <= MAX_K /\ label[Top] = l
  /\ Turn(IF todo = <<>> THEN "result" ELSE "repl", todo)
  /\ UNCHANGED <<run, built, value>>

HandleValue      == Dispatch("#int", handleValue(Top)) \/ Dispatch("#bool", handleValue(Top))
HandleVariable   == Dispatch("id", handleVariable(Top))
HandleProgram    == Dispatch("program", handleProgram(Top))
HandleStatements == Dispatch("statements", handleStatements(Top))
HandleVar        == Dispatch("var", handleVar(Top))
HandleAssign     == Dispatch("assign", handleAssign(Top))
HandleWhile      == Dispatch("while", handleWhile(Top))
HandleIf         == Dispatch("ifThenElse", handleIf(Top))
HandleNot        == Dispatch("not", handleNot(Top))
HandleLTE        == Dispatch("lte", handleLTE(Top))
HandlePlus       == Dispatch("plus", handlePlus(Top))
HandleMinus      == Dispatch("minus", handleMinus(Top))
HandleDiv        == Dispatch("div", handleDiv(Top))
HandleAnd        == Dispatch("and", handleAnd(Top))
HandleNeg        == Dispatch("neg", handleNeg(Top))
HandleSkip       == Dispatch("skip", handleSkip)
\* The case of paren is commented out.
Unrecognized     == Dispatch("paren", <<Panic("unrecognized label")>>)

Handler ==
  \/ HandleValue \/ HandleVariable \/ HandleProgram \/ HandleStatements \/ HandleVar
  \/ HandleAssign \/ HandleWhile \/ HandleIf \/ HandleNot \/ HandleLTE \/ HandlePlus
  \/ HandleMinus \/ HandleDiv \/ HandleAnd \/ HandleNeg \/ HandleSkip \/ Unrecognized
EmptyCell   == /\ Free("repl") /\ Cell = <<>>
               /\ Turn("result", <<>>) /\ UNCHANGED <<run, built, value>>
SafetyCheck == Free("repl") /\ Len(Cell) > MAX_K /\ End("safety check")

-----------------------------------------------------------------------------
(* run.                                                                    *)

New_configuration ==
  /\ Free("load")
  /\ Turn("repl", <<New("_kra", <<>>), MakeHolder, Add_front(Last(built))>>)
  /\ UNCHANGED <<run, built, value>>
Cleanup_bug == <<Remove_head>>
Cleanup == <<Remove_head>> \o [i \in 1..Cardinality(Owned) |-> Forget(SetToSeq(Owned)[i])]
Get_result ==
  /\ Free("result")
  /\ IF Len(Cell) # 1 THEN End("no single value")
     ELSE /\ Turn("cleanup", Cleanup)
          /\ value' = Append(value, Inside(Top))
          /\ UNCHANGED <<run, built>>
\* The holder of the cell is not given back before the cell is freed.
Run_ends ==
  /\ Free("cleanup")
  /\ IF run = Runs THEN End("done")
     ELSE /\ Turn("load", Program[test])
          /\ run' = run + 1 /\ built' = ConstantNodes
          /\ UNCHANGED value

-----------------------------------------------------------------------------
Over == phase \notin {"load", "repl", "result", "cleanup"} \/ panicked # "no"

HwInit ==
  /\ Init
  /\ test \in DOMAIN Program
  /\ run = 1 /\ built = <<>> /\ ret = NoNode /\ value = <<>>
  /\ label = [n \in Node |-> "_fake"]
  /\ phase = "load" /\ calls = Constants \o Program[test]

Calls ==
  \/ BuildNode \/ Make_permanent \/ NewNode \/ NewComputationCell \/ Computation_add_front
  \/ Computation_set_elem \/ Computation_remove_head \/ ReplaceArg \/ TrimArgs \/ NewTop
  \/ Update_store \/ State_cleanup \/ Follows \/ Stops
RunDecs == Cascade /\ UNCHANGED <<label, test, run, built, calls, ret, phase, value>>

HwStep == \/ Calls \/ Handler \/ EmptyCell \/ SafetyCheck
          \/ New_configuration \/ Get_result \/ Run_ends \/ RunDecs
HwNext == HwStep \/ (Over /\ UNCHANGED hwVars)

HwSpec == HwInit /\ [][HwNext]_hwVars

-----------------------------------------------------------------------------
(* Properties.                                                             *)

\* Every node in use has its label, and a construct has the arguments its
\* handler reads, whatever has been replaced, trimmed, copied or built since.
HandTypeOK == \A n \in Node : Live(n) => Suits(label[n], Len(args[n]))

\* The K's a call reads; Ret when it is what the call before returned.
Operands(c) ==
  CASE c.op = "k_new" -> Range(c.args)
    [] c.op \in {"computation_add_front", "computation_set_elem", "updateStore"} -> {c.v}
    [] c.op \in {"handleValue", "handleIf"} -> {c.v}
    [] c.op = "k_replace_arg" -> {c.k, c.v}
    [] c.op = "updateTrimArgs" -> {c.k}
    [] c.op = "newTop" -> {c.v, Ret}
    [] c.op = "newComputationCell" -> {Ret}
    [] OTHER -> {}

\* The nodes a handler has read out of the heap, and what a call has returned
\* to it, are held by local variables that count for nothing.  They stay live
\* until the last call that uses them, although the calls before it move terms,
\* overwrite them and give them up.
OperandsStayLive ==
  /\ \A i \in DOMAIN calls : \A n \in Operands(calls[i]) \ {Ret} : Live(n)
  /\ panicked = "no" /\ calls # <<>> /\ Ret \in Operands(Call) => Live(ret)

\* The limits on the length of the cell are never what stops a program: the
\* window of the holder is used up first.
LimitNeverReported == phase \notin {"too many elements", "safety check"}
=============================================================================
