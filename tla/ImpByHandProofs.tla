-------------------------- MODULE ImpByHandProofs ---------------------------
(***************************************************************************)
(* The interpreter written by hand keeps to the heap's interface: whatever *)
(* programs it is given and however often run is called, each of its steps *)
(* is a call of KHeap, a step of a cascade, or leaves the heap alone.      *)
(*                                                                         *)
(* And the cell never gets as long as the limits in imp_bench.c: the last  *)
(* slot of its window stays where it was, and the first one cannot come    *)
(* before slot 0.                                                          *)
(*                                                                         *)
(* And a handler never uses a node that may be gone, although it counts    *)
(* none of those it has in hand: what the calls it has still to make rest  *)
(* on is told for every list of calls there is.                            *)
(***************************************************************************)
EXTENDS ImpByHand, KHeapProofs

\* The heap is sound, and the cell in use is one of those of the runs.
HwIInv == IInv /\ run \in 1..Runs

-----------------------------------------------------------------------------
(* One step.                                                               *)

\* Every call a handler or run makes is one call of the heap, or none.
LEMMA CallMaps ==
  ASSUME HwIInv, Calls
  PROVE  [Next]_vars /\ run' = run
<1> USE DEF HwIInv
<1>a. Key \subseteq Root /\ Cells[run] \in Root
  BY HandAssumption DEF HandAssumption
<1>b. TypeOK
  BY DEF IInv
<1>1. CASE BuildNode \/ NewNode
  BY <1>1, NewIsCall DEF BuildNode, NewNode, Makes, GoOn
<1>2. CASE Make_permanent
  <2>1. K_make_permanent(built[Call.at])
    BY <1>2 DEF Make_permanent
  <2>2. built[Call.at] \in Node
    BY <1>b, <2>1, LiveIsNode DEF K_make_permanent, Fresh
  <2> QED
    BY <1>2, <2>1, <2>2 DEF Make_permanent, GoOn, Next
<1>3. CASE NewComputationCell
  <2>1. Own(Cells[run], ret)
    BY <1>3 DEF NewComputationCell
  <2>2. ret \in Node
    BY <1>b, <2>1, LiveIsNode DEF Own
  <2> QED
    BY <1>a, <1>3, <2>1, <2>2, OwnIsCall DEF NewComputationCell, GoOn
<1>4. CASE Computation_add_front
  <2>1. CASE TooMany
    BY <1>4, <2>1 DEF Computation_add_front, End
  <2>2. CASE ~ TooMany
    BY <1>4, <2>2, AssignIsCall DEF Computation_add_front, GoOn
  <2> QED
    BY <2>1, <2>2
<1>5. CASE Computation_set_elem \/ ReplaceArg
  BY <1>5, AssignIsCall DEF Computation_set_elem, ReplaceArg, GoOn
<1>6. CASE Computation_remove_head \/ TrimArgs
  BY <1>6, TrimIsCall DEF Computation_remove_head, TrimArgs, GoOn, Cell
<1>7. CASE NewTop
  BY <1>7, AssignIsCall DEF NewTop, GoOn
<1>8. CASE Update_store
  <2>1. Own(Call.key, Of(Call.v)) /\ Call.key \in Key
    BY <1>8 DEF Update_store
  <2>2. Of(Call.v) \in Node
    BY <1>b, <2>1, LiveIsNode DEF Own
  <2> QED
    BY <1>a, <1>8, <2>1, <2>2, OwnIsCall DEF Update_store, GoOn
<1>9. CASE State_cleanup
  BY <1>a, <1>9 DEF State_cleanup, GoOn, Next
<1>10. CASE Follows \/ Stops
  BY <1>10 DEF Follows, Stops, End
<1> QED
  BY <1>1, <1>2, <1>3, <1>4, <1>5, <1>6, <1>7, <1>8, <1>9, <1>10 DEF Calls

\* The handlers only look at the heap.
LEMMA HandlerMaps ==
  ASSUME Handler
  PROVE  UNCHANGED <<vars, run>>
  BY DEF Handler, Dispatch, Turn, HandleValue, HandleVariable, HandleProgram, HandleStatements,
         HandleVar, HandleAssign, HandleWhile, HandleIf, HandleNot, HandleLTE, HandlePlus,
         HandleMinus, HandleDiv, HandleAnd, HandleNeg, HandleSkip, Unrecognized

\* Every step is a call, a step of a cascade, or leaves the heap alone.
LEMMA HwStepMaps ==
  ASSUME HwIInv, [HwNext]_hwVars
  PROVE  [Next]_vars /\ run' \in 1..Runs
<1> USE DEF HwIInv
<1>1. CASE Calls
  BY <1>1, CallMaps
<1>2. CASE Handler
  BY <1>2, HandlerMaps
<1>3. CASE EmptyCell \/ SafetyCheck \/ New_configuration
  BY <1>3 DEF EmptyCell, SafetyCheck, New_configuration, Turn, End
<1>4. CASE Get_result
  BY <1>4 DEF Get_result, Turn, End
<1>5. CASE Run_ends
  <2>1. CASE run = Runs
    BY <1>5, <2>1 DEF Run_ends, End
  <2>2. CASE run # Runs
    BY <1>5, <2>2, HandAssumption DEF Run_ends, Turn, HandAssumption
  <2> QED
    BY <2>1, <2>2
<1>6. CASE RunDecs
  BY <1>6 DEF RunDecs, Next
<1>7. CASE UNCHANGED hwVars
  BY <1>7 DEF hwVars
<1> QED
  BY <1>1, <1>2, <1>3, <1>4, <1>5, <1>6, <1>7 DEF HwNext, HwStep

-----------------------------------------------------------------------------
(* Theorems.                                                               *)

\* The inductive invariant of the heap holds while the interpreter runs.
THEOREM HwInductive == HwSpec => []HwIInv
<1>1. HwInit => HwIInv
  BY InitInv, HandAssumption DEF HwInit, HwIInv, HandAssumption
<1>2. HwIInv /\ [HwNext]_hwVars => HwIInv'
  <2> SUFFICES ASSUME HwIInv, [HwNext]_hwVars PROVE HwIInv'
    OBVIOUS
  <2>1. [Next]_vars /\ run' \in 1..Runs
    BY HwStepMaps
  <2>2. IInv'
    BY <2>1, NextInv DEF HwIInv
  <2>3. Runs' = Runs
    OBVIOUS
  <2> QED
    BY <2>1, <2>2, <2>3 DEF HwIInv
<1> QED
  BY <1>1, <1>2, PTL DEF HwSpec

\* The interpreter written by hand is a client of the heap as well.
THEOREM ImpByHandUsesHeap == HwSpec => Spec
<1>1. HwInit => Init
  BY DEF HwInit
<1>2. HwIInv /\ [HwNext]_hwVars => [Next]_vars
  BY HwStepMaps
<1> QED
  BY <1>1, <1>2, HwInductive, PTL DEF HwSpec, Spec

\* Its handlers mix calls that copy a shared node with calls that edit it in
\* place, and the counts stay exact whatever the program is.
THEOREM HandlersKeepCounts == HwSpec => []RefCountsExact
  BY ImpByHandUsesHeap, CountsAreExact, PTL

-----------------------------------------------------------------------------
(* The end of a window.                                                    *)

PosEnd(k) == pos_first[k] + Len(args[k])

\* The calls the interpreter makes.
HandCall ==
  \/ \E s : K_new(s)
  \/ \E k : K_make_permanent(k)
  \/ \E k, v : K_add_front_arg(k, v)
  \/ \E k, i, v : K_set_arg(k, i, v) \/ K_replace_arg(k, i, v)
  \/ \E k : UpdateTrimArgs(k, 1, Len(args[k]))
  \/ \E r, k : Own(r, k)
  \/ \E r : Disown(r)
  \/ Cascade \/ UNCHANGED vars

\* A node with an owner is not taken from the free list.
LEMMA OwnedNotAcquired ==
  ASSUME IInv, work = <<>>, NEW r \in Root, root[r] # NoNode,
         NEW n \in Node, CanAcquire(garbage_k, mallocd, n)
  PROVE  root[r] # n
<1>1. Dead(n)
  BY AcquireStep
<1> QED
  BY <1>1, OwnedLive DEF Live

\* A Dec of a node with an owner leaves it a reference.
LEMMA OwnedSurvives ==
  ASSUME IInv, NEW r \in Root, root[r] # NoNode, DecStep, Head(work).k = root[r]
  PROVE  ~ Dies(root[r])
<1> DEFINE x == root[r]
           a == Cardinality(SlotsOf(args, x))
           o == Cardinality(OwnersOf(root, x))
           w == Occ(work, DecOf(x))
<1>1. /\ x \in Node /\ args \in [Node -> Seq(Node)] /\ work \in Seq(Pending)
      /\ work # <<>> /\ Head(work).op = "Dec"
  BY OwnedLive DEF IInv, TypeOK, DecStep
<1>2. refs[x] = a + o + w
  BY <1>1 DEF IInv, RefCountsExact, Holders
<1>3. a \in Nat
  <2>1. Len(args[x]) <= MAX_GARBAGE_ARG_LEN
    BY <1>1, Window DEF IInv
  <2> QED
    BY <1>1, <2>1, SlotsAt
<1>4. o \in Nat /\ o # 0
  <2>1. IsFiniteSet(OwnersOf(root, x)) /\ r \in OwnersOf(root, x)
    BY HeapAssumption, FS_Subset DEF HeapAssumption, OwnersOf
  <2> QED
    BY <2>1, FS_CardinalityType, FS_EmptySet
<1>5. w \in Nat /\ w # 0
  <2>1. Occ(work, DecOf(x)) = Occ(Tail(work), DecOf(x)) + 1 /\ Tail(work) \in Seq(Pending)
    BY <1>1, WorkSplit
  <2>2. Occ(Tail(work), DecOf(x)) \in Nat
    BY <2>1, OccNat
  <2> QED
    BY <2>1, <2>2
<1> HIDE DEF x, a, o, w
<1>6. refs[x] # 1
  BY <1>2, <1>3, <1>4, <1>5
<1> QED
  BY <1>6 DEF Dies, x

\* What the interpreter calls moves the first slot in use of a node somebody
\* owns, never the last: arguments are overwritten, or come and go in front.
LEMMA EndKept ==
  ASSUME IInv, HandCall, NEW r \in Root, NEW x \in Node, root[r] = x
  PROVE  PosEnd(x)' = PosEnd(x)
<1>1. /\ args \in [Node -> Seq(Node)] /\ pos_first \in [Node -> 0..MAX_GARBAGE_ARG_LEN]
      /\ x # NoNode /\ args[x] \in Seq(Node) /\ Len(args[x]) \in Nat /\ pos_first[x] \in Nat
      /\ root[r] # NoNode
  BY Window, HeapAssumption DEF IInv, TypeOK, HeapAssumption
<1>2. ASSUME args'[x] = args[x], pos_first'[x] = pos_first[x]
      PROVE  PosEnd(x)' = PosEnd(x)
  BY <1>2 DEF PosEnd
<1>3. ASSUME Idle, NEW n \in Node, CanAcquire(garbage_k, mallocd, n), NEW s, NEW p,
             args' = [args EXCEPT ![n] = s], pos_first' = [pos_first EXCEPT ![n] = p]
      PROVE  PosEnd(x)' = PosEnd(x)
  <2>1. x # n
    BY <1>1, <1>3, OwnedNotAcquired DEF Idle
  <2> QED
    BY <1>1, <1>2, <1>3, <2>1
<1>4. ASSUME NEW k, NEW s, args' = [args EXCEPT ![k] = s], pos_first' = pos_first,
             k \in Node => Len(s) = Len(args[k])
      PROVE  PosEnd(x)' = PosEnd(x)
  <2>1. args'[x] = IF k = x THEN s ELSE args[x]
    BY <1>1, <1>4
  <2> QED
    BY <1>4, <2>1 DEF PosEnd
<1>5. ASSUME NEW why, Stop(why)
      PROVE  PosEnd(x)' = PosEnd(x)
  BY <1>2, <1>5 DEF Stop
<1>6. ASSUME NEW k, NEW c, CopyStops(k, c)
      PROVE  PosEnd(x)' = PosEnd(x)
  BY <1>5, <1>6 DEF CopyStops
<1>7. ASSUME NEW s, K_new(s)
      PROVE  PosEnd(x)' = PosEnd(x)
  <2>1. Idle
    BY <1>7 DEF K_new
  <2>2. \/ \E why : Stop(why)
        \/ \E n \in Node : /\ CanAcquire(garbage_k, mallocd, n)
                           /\ args' = [args EXCEPT ![n] = s]
                           /\ pos_first' = [pos_first EXCEPT ![n] = POS_FIRST]
    BY <1>7 DEF K_new
  <2> QED
    BY <1>3, <1>5, <2>1, <2>2
<1>8. ASSUME NEW k, NEW v, K_add_front_arg(k, v)
      PROVE  PosEnd(x)' = PosEnd(x)
  <2>1. CASE Stop("no room")
    BY <1>5, <2>1
  <2>2. CASE /\ pos_first[k] > 0
             /\ pos_first' = [pos_first EXCEPT ![k] = @ - 1]
             /\ args'      = [args EXCEPT ![k] = <<v>> \o @]
    <3>1. Live(v) /\ v \in Node
      BY <1>8, LiveIsNode DEF K_add_front_arg, IInv
    <3>2. CASE k = x
      <4>1. Len(<<v>> \o args[x]) = 1 + Len(args[x])
        <5>1. <<v>> \in Seq(Node) /\ Len(<<v>>) = 1
          BY <3>1
        <5> QED
          BY <1>1, <5>1, ConcatProperties
      <4> DEFINE b == <<v>> \o args[x]
      <4>2. args'[x] = b /\ pos_first'[x] = pos_first[x] - 1
        BY <1>1, <2>2, <3>2
      <4> HIDE DEF b
      <4>3. Len(b) = 1 + Len(args[x])
        BY <4>1 DEF b
      <4> QED
        BY <1>1, <4>2, <4>3 DEF PosEnd
    <3>3. CASE k # x
      BY <1>1, <1>2, <2>2, <3>3
    <3> QED
      BY <3>2, <3>3
  <2> QED
    BY <1>8, <2>1, <2>2 DEF K_add_front_arg
<1>9. ASSUME NEW k, NEW i, NEW v, K_set_arg(k, i, v)
      PROVE  PosEnd(x)' = PosEnd(x)
  <2>1. args' = [args EXCEPT ![k] = [args[k] EXCEPT ![i] = v]] /\ pos_first' = pos_first
    BY <1>9 DEF K_set_arg
  <2>2. ASSUME k \in Node PROVE Len([args[k] EXCEPT ![i] = v]) = Len(args[k])
    BY <1>1, <2>2
  <2> QED
    BY <1>4, <2>1, <2>2
<1>10. ASSUME NEW k, NEW i, NEW v, K_replace_arg(k, i, v)
       PROVE  PosEnd(x)' = PosEnd(x)
  <2> DEFINE b == [args[k] EXCEPT ![i] = v]
  <2>1. Idle
    BY <1>10 DEF K_replace_arg
  <2>2. \/ CopyStops(k, 1)
        \/ \E n \in Node : CanAcquire(garbage_k, mallocd, n) /\ IntoCopy(n, b, POS_FIRST)
        \/ args' = [args EXCEPT ![k] = b] /\ pos_first' = pos_first
    BY <1>10 DEF K_replace_arg
  <2>3. ASSUME k \in Node PROVE Len(b) = Len(args[k])
    BY <1>1, <2>3
  <2> HIDE DEF b
  <2>4. CASE \E n \in Node : CanAcquire(garbage_k, mallocd, n) /\ IntoCopy(n, b, POS_FIRST)
    BY <1>3, <2>1, <2>4 DEF IntoCopy
  <2> QED
    BY <1>4, <1>6, <2>2, <2>3, <2>4
<1>11. ASSUME NEW k, UpdateTrimArgs(k, 1, Len(args[k]))
       PROVE  PosEnd(x)' = PosEnd(x)
  <2> DEFINE b == SubSeq(args[k], 1 + 1, Len(args[k]))
  <2>1. Idle /\ Live(k) /\ 1 <= Len(args[k])
    BY <1>11 DEF UpdateTrimArgs
  <2>2. k \in Node /\ args[k] \in Seq(Node)
    BY <1>1, <2>1, LiveIsNode DEF IInv
  <2>3. \/ CopyStops(k, 1)
        \/ \E n \in Node : CanAcquire(garbage_k, mallocd, n) /\ IntoCopy(n, b, POS_FIRST + 1)
        \/ args' = [args EXCEPT ![k] = b] /\ pos_first' = [pos_first EXCEPT ![k] = @ + 1]
    BY <1>11 DEF UpdateTrimArgs
  <2>4. Len(b) = Len(args[k]) - 1
    BY <2>1, <2>2
  <2> HIDE DEF b
  <2>5. CASE \E n \in Node : CanAcquire(garbage_k, mallocd, n) /\ IntoCopy(n, b, POS_FIRST + 1)
    BY <1>3, <2>1, <2>5 DEF IntoCopy
  <2>6. CASE args' = [args EXCEPT ![k] = b] /\ pos_first' = [pos_first EXCEPT ![k] = @ + 1]
    <3>1. CASE k = x
      <4>1. args'[x] = b /\ pos_first'[x] = pos_first[x] + 1
        BY <1>1, <2>6, <3>1
      <4>2. Len(b) = Len(args[x]) - 1
        BY <2>4, <3>1
      <4>3. PosEnd(x)' = (pos_first[x] + 1) + (Len(args[x]) - 1)
        BY <4>1, <4>2 DEF PosEnd
      <4> QED
        BY <1>1, <4>3 DEF PosEnd
    <3>2. CASE k # x
      BY <1>1, <1>2, <2>6, <3>2
    <3> QED
      BY <3>1, <3>2
  <2> QED
    BY <1>6, <2>3, <2>5, <2>6
<1>12. CASE DecStep
  <2> DEFINE k == Head(work).k
  <2>1. pos_first' = pos_first
    BY <1>12 DEF DecStep
  <2>2. CASE k = x
    <3>1. ~ Dies(k)
      BY <1>1, <1>12, <2>2, OwnedSurvives
    <3>2. args' = args
      BY <1>12, <3>1 DEF DecStep
    <3> QED
      BY <1>2, <2>1, <3>2
  <2>3. CASE k # x
    <3>1. args' = args \/ args' = [args EXCEPT ![k] = <<>>]
      BY <1>12 DEF DecStep
    <3> QED
      BY <1>1, <1>2, <2>1, <2>3, <3>1
  <2> QED
    BY <2>2, <2>3
<1>13. CASE /\ UNCHANGED <<args, pos_first>>
  BY <1>2, <1>13
<1>14. ASSUME NEW q, NEW k, Own(q, k) \/ Disown(q) \/ K_make_permanent(k) \/ AuxStep \/ UNCHANGED vars
       PROVE  UNCHANGED <<args, pos_first>>
  BY <1>14 DEF Own, Disown, K_make_permanent, AuxStep, Stop, vars
<1> QED
  BY <1>7, <1>8, <1>9, <1>10, <1>11, <1>12, <1>13, <1>14 DEF HandCall, Cascade

-----------------------------------------------------------------------------
(* What the handlers call.                                                 *)

Limits == {"too many elements", "safety check"}

\* A call that neither makes a cell nor reports a limit.
Plain(c) == c.op # "newComputationCell" /\ (c.op = "panic" => c.why \notin Limits /\ c.why # "load")
Harmless(s) == \E S : s \in Seq(S) /\ \A c \in S : Plain(c)

LEMMA PlainCalls ==
  /\ \A l, s : Plain(Build(l, s)) /\ Plain(New(l, s))
  /\ \A i : Plain(Permanent(i))
  /\ \A v : Plain(Add_front(v))
  /\ \A i, v : Plain(Set_elem(i, v))
  /\ Plain(Remove_head)
  /\ \A k, i, v : Plain(Replace_arg(k, i, v))
  /\ \A k : Plain(Trim(k))
  /\ \A x, v : Plain(UpdateStore(x, v))
  /\ \A x : Plain(Forget(x))
  /\ \A v : Plain(Follow("newTop", v)) /\ Plain(Follow("handleValue", v)) /\ Plain(Follow("handleIf", v))
  BY DEF Plain, Build, New, Permanent, Add_front, Set_elem, Remove_head, Replace_arg, Trim,
         UpdateStore, Forget, Follow

LEMMA PlainPanics == \A w : w \notin Limits /\ w # "load" => Plain(Panic(w))
  BY DEF Plain, Panic

LEMMA OtherReasons ==
  /\ "no such key" \notin Limits /\ "key type" \notin Limits
  /\ "trap" \notin Limits /\ "unrecognized label" \notin Limits
  /\ "no single value" \notin Limits
  /\ "load" \notin Limits /\ "repl" \notin Limits /\ "result" \notin Limits
  /\ "cleanup" \notin Limits /\ "done" \notin Limits
  BY DEF Limits

\* Short lists of plain calls, and one list after another.
LEMMA HarmlessLists ==
  /\ Harmless(<<>>)
  /\ \A a : Plain(a) => Harmless(<<a>>)
  /\ \A a, b : Plain(a) /\ Plain(b) => Harmless(<<a, b>>)
  /\ \A a, b, c : Plain(a) /\ Plain(b) /\ Plain(c) => Harmless(<<a, b, c>>)
<1>1. Harmless(<<>>)
  <2> DEFINE S == {}
  <2>1. <<>> \in Seq(S) /\ \A d \in S : Plain(d)
    OBVIOUS
  <2> HIDE DEF S
  <2> QED
    BY <2>1 DEF Harmless
<1>2. ASSUME NEW a, Plain(a) PROVE Harmless(<<a>>)
  <2> DEFINE S == {a}
  <2>1. <<a>> \in Seq(S) /\ \A d \in S : Plain(d)
    BY <1>2
  <2> HIDE DEF S
  <2> QED
    BY <2>1 DEF Harmless
<1>3. ASSUME NEW a, NEW b, Plain(a), Plain(b) PROVE Harmless(<<a, b>>)
  <2> DEFINE S == {a, b}
  <2>1. <<a, b>> \in Seq(S) /\ \A d \in S : Plain(d)
    BY <1>3
  <2> HIDE DEF S
  <2> QED
    BY <2>1 DEF Harmless
<1>4. ASSUME NEW a, NEW b, NEW c, Plain(a), Plain(b), Plain(c) PROVE Harmless(<<a, b, c>>)
  <2> DEFINE S == {a, b, c}
  <2>1. <<a, b, c>> \in Seq(S) /\ \A d \in S : Plain(d)
    BY <1>4
  <2> HIDE DEF S
  <2> QED
    BY <2>1 DEF Harmless
<1> QED
  BY <1>1, <1>2, <1>3, <1>4

LEMMA HarmlessConcat ==
  ASSUME NEW s, NEW t, Harmless(s), Harmless(t)
  PROVE  Harmless(s \o t)
<1>1. PICK S : s \in Seq(S) /\ \A c \in S : Plain(c)
  BY DEF Harmless
<1>2. PICK T : t \in Seq(T) /\ \A c \in T : Plain(c)
  BY DEF Harmless
<1>3. s \in Seq(S \cup T) /\ t \in Seq(S \cup T)
  BY <1>1, <1>2
<1>4. s \o t \in Seq(S \cup T)
  BY <1>3, ConcatProperties
<1>5. \A c \in S \cup T : Plain(c)
  BY <1>1, <1>2
<1> QED
  BY <1>4, <1>5 DEF Harmless

LEMMA HarmlessHead ==
  ASSUME NEW s, Harmless(s), s # <<>>
  PROVE  Plain(Head(s)) /\ Harmless(Tail(s))
<1>1. PICK S : s \in Seq(S) /\ \A c \in S : Plain(c)
  BY DEF Harmless
<1>2. Head(s) \in S /\ Tail(s) \in Seq(S)
  BY <1>1, HeadTailProperties
<1> QED
  BY <1>1, <1>2 DEF Harmless

LEMMA PieceHarmless ==
  /\ \A top, i : Harmless(Heat(top, i))
  /\ \A v : Harmless(Becomes(v))
  /\ \A i : Harmless(NewInt(i))
<1> USE PlainCalls, HarmlessLists
<1>1. ASSUME NEW top, NEW i PROVE Harmless(Heat(top, i))
  BY DEF Heat
<1>2. ASSUME NEW v PROVE Harmless(Becomes(v))
  BY DEF Becomes
<1>3. ASSUME NEW i PROVE Harmless(NewInt(i))
  BY <1>2, HarmlessConcat DEF NewInt
<1> QED
  BY <1>1, <1>2, <1>3

LEMMA StrictHarmless ==
  ASSUME NEW top, NEW at, NEW rule, Harmless(rule)
  PROVE  Harmless(Strict(top, at, rule))
  BY PieceHarmless DEF Strict

LEMMA HandlersHarmless ==
  ASSUME NEW top
  PROVE  /\ Harmless(handleValue(top)) /\ Harmless(handleVariable(top)) /\ Harmless(handleProgram(top))
         /\ Harmless(handleStatements(top)) /\ Harmless(handleVar(top)) /\ Harmless(handleAssign(top))
         /\ Harmless(handleIf(top)) /\ Harmless(handleWhile(top)) /\ Harmless(handleNot(top))
         /\ Harmless(handleLTE(top)) /\ Harmless(handlePlus(top)) /\ Harmless(handleMinus(top))
         /\ Harmless(handleDiv(top)) /\ Harmless(handleAnd(top)) /\ Harmless(handleNeg(top))
         /\ Harmless(handleSkip) /\ Harmless(<<Panic("unrecognized label")>>)
<1> USE PlainCalls, HarmlessLists
<1>1. /\ Harmless(<<Panic("no such key")>>) /\ Harmless(<<Panic("key type")>>)
      /\ Harmless(<<Panic("trap")>>) /\ Harmless(<<Panic("unrecognized label")>>)
  <2>1. "no such key" # "load" /\ "key type" # "load" /\ "trap" # "load" /\ "unrecognized label" # "load"
    OBVIOUS
  <2> QED
    BY <2>1, PlainPanics, OtherReasons, Zenon
<1>2. Harmless(handleValue(top))
  BY DEF handleValue
<1>3. Harmless(handleVariable(top))
  BY <1>1, PieceHarmless, Zenon DEF handleVariable
<1>4. Harmless(handleProgram(top))
  BY DEF handleProgram
<1>5. Harmless(handleStatements(top))
  BY DEF handleStatements
<1>6. Harmless(handleVar(top))
  BY DEF handleVar
<1>7. Harmless(handleAssign(top))
  BY StrictHarmless DEF handleAssign
<1>8. Harmless(handleIf(top))
  <2> DEFINE body == CASE Inside(Arg(top, 1)) = "#true"  -> <<Set_elem(1, Arg(top, 2))>>
                       [] Inside(Arg(top, 1)) = "#false" -> <<Set_elem(1, Arg(top, 3))>>
                       [] OTHER -> <<Panic("key type")>>
  <2>1. Harmless(body)
    BY <1>1, Zenon
  <2>2. handleIf(top) = Strict(top, {1}, body)
    BY DEF handleIf
  <2> HIDE DEF body
  <2> QED
    BY <2>1, <2>2, StrictHarmless
<1>9. Harmless(handleWhile(top))
  <2>1. Plain(New("statements", <<Arg(top, 2), top>>)) /\ Plain(New("ifThenElse", <<Arg(top, 1), Ret, Skip>>))
    OBVIOUS
  <2>2. Harmless(<<New("statements", <<Arg(top, 2), top>>), New("ifThenElse", <<Arg(top, 1), Ret, Skip>>)>>)
    BY <2>1
  <2>3. Harmless(<<Set_elem(1, Ret), Follow("handleIf", Ret)>>)
    OBVIOUS
  <2>4. handleWhile(top) = <<New("statements", <<Arg(top, 2), top>>), New("ifThenElse", <<Arg(top, 1), Ret, Skip>>)>>
                             \o <<Set_elem(1, Ret), Follow("handleIf", Ret)>>
    BY DEF handleWhile
  <2> QED
    BY <2>2, <2>3, <2>4, HarmlessConcat
<1>10. Harmless(handleNot(top))
  <2> DEFINE body == CASE Inside(Arg(top, 1)) = "#false" -> Becomes(True)
                       [] Inside(Arg(top, 1)) = "#true"  -> Becomes(False)
                       [] OTHER -> <<Panic("key type")>>
  <2>1. Harmless(body)
    BY <1>1, PieceHarmless, Zenon
  <2>2. handleNot(top) = Strict(top, {1}, body)
    BY DEF handleNot
  <2> HIDE DEF body
  <2> QED
    BY <2>1, <2>2, StrictHarmless
<1>11. Harmless(handleLTE(top))
  BY StrictHarmless, PieceHarmless DEF handleLTE
<1>12. Harmless(handlePlus(top))
  BY StrictHarmless, PieceHarmless DEF handlePlus
<1>13. Harmless(handleMinus(top))
  BY StrictHarmless, PieceHarmless DEF handleMinus
<1>14. Harmless(handleDiv(top))
  BY <1>1, StrictHarmless, PieceHarmless, Zenon DEF handleDiv
<1>15. Harmless(handleAnd(top))
  BY StrictHarmless, PieceHarmless DEF handleAnd
<1>16. Harmless(handleNeg(top))
  BY StrictHarmless, PieceHarmless DEF handleNeg
<1>17. Harmless(handleSkip)
  BY DEF handleSkip
<1> QED
  BY <1>1, <1>2, <1>3, <1>4, <1>5, <1>6, <1>7, <1>8, <1>9, <1>10, <1>11, <1>12, <1>13, <1>14,
     <1>15, <1>16, <1>17

-----------------------------------------------------------------------------
(* The cell never gets longer than its window reaches.                     *)

\* The window of a cell ends where it began.
CellEnds == \A r \in 1..Runs : root[Cells[r]] # NoNode => PosEnd(root[Cells[r]]) = POS_FIRST

Loads(s) == \E S : s \in Seq(S) /\ \A c \in S : c.op \in {"build", "k_make_permanent"}
MakesCell(v) == <<New("_kra", <<>>), MakeHolder, Add_front(v)>>
OwnsCell(v)  == <<MakeHolder, Add_front(v)>>

\* A program is loaded, then a cell is made for it, and then the calls are those
\* of handlers and of run.
Stage ==
  \/ phase = "load" /\ Loads(calls)
  \/ phase # "load" /\ \E v : calls = MakesCell(v)
  \/ /\ phase # "load" /\ \E v : calls = OwnsCell(v)
     /\ panicked = "no" => work = <<>> /\ (ret \in Node => PosEnd(ret) = POS_FIRST)
  \/ phase # "load" /\ Harmless(calls) /\ root[Cells[run]] # NoNode

LimitInv == /\ test \in DOMAIN Program
            /\ phase \notin Limits /\ CellEnds /\ Stage

LEMMA LoadsTail ==
  ASSUME NEW s, Loads(s), s # <<>>
  PROVE  Head(s).op \in {"build", "k_make_permanent"} /\ Loads(Tail(s))
<1>1. PICK S : s \in Seq(S) /\ \A c \in S : c.op \in {"build", "k_make_permanent"}
  BY DEF Loads
<1>2. Head(s) \in S /\ Tail(s) \in Seq(S)
  BY <1>1, HeadTailProperties
<1> QED
  BY <1>1, <1>2 DEF Loads

LEMMA ProgramLoads ==
  ASSUME NEW t \in DOMAIN Program
  PROVE  Loads(Program[t]) /\ Loads(Constants \o Program[t])
<1> DEFINE p == Program[t]
           P == Range(p)
           L == Range(Constants)
<1>1. p \in Seq(P) /\ \A c \in P : c.op = "build"
  BY HandAssumption DEF HandAssumption
<1>2. Constants \in Seq(L) /\ \A c \in L : c.op \in {"build", "k_make_permanent"}
  BY DEF Constants, Build, Permanent, Range
<1> HIDE DEF p, P, L
<1>3. p \in Seq(P \cup L) /\ Constants \in Seq(P \cup L)
  BY <1>1, <1>2
<1>4. Constants \o p \in Seq(P \cup L)
  BY <1>3, ConcatProperties
<1>5. \A c \in P \cup L : c.op \in {"build", "k_make_permanent"}
  BY <1>1, <1>2
<1> QED
  BY <1>1, <1>4, <1>5 DEF Loads, p

\* Cells keep their ends unless a cell variable gets a new holder.
LEMMA EndsKept ==
  ASSUME IInv, CellEnds, HandCall,
         \A r \in 1..Runs : root'[Cells[r]] = root[Cells[r]]
  PROVE  CellEnds'
<1>1. ASSUME NEW r \in 1..Runs, root[Cells[r]] # NoNode
      PROVE  pos_first'[root[Cells[r]]] + Len(args'[root[Cells[r]]]) = POS_FIRST
  <2>1. Cells[r] \in Root
    BY HandAssumption DEF HandAssumption
  <2>2. PICK y \in Node : y = root[Cells[r]]
    BY <1>1, <2>1, OwnedLive
  <2>3. PosEnd(y)' = PosEnd(y)
    BY <2>1, <2>2, EndKept
  <2>4. PosEnd(y) = POS_FIRST
    BY <1>1, <2>2 DEF CellEnds
  <2> QED
    BY <2>2, <2>3, <2>4 DEF PosEnd
<1> QED
  BY <1>1 DEF CellEnds, PosEnd

\* A cell has as many elements as slots lie in front of the first one.
LEMMA CellShort ==
  ASSUME HwIInv, CellEnds, root[Cells[run]] # NoNode, POS_FIRST <= MAX_K
  PROVE  ~ (Len(Cell) > MAX_K)
<1>1. holder \in Node /\ PosEnd(holder) = POS_FIRST
  BY OwnedLive, HandAssumption DEF HandAssumption, HwIInv, CellEnds, holder
<1>2. pos_first[holder] \in Nat /\ Len(args[holder]) \in Nat
  BY <1>1, Window DEF HwIInv, IInv
<1>3. MAX_K \in Nat /\ POS_FIRST \in Nat
  BY HandAssumption, HeapAssumption DEF HandAssumption, HeapAssumption
<1> QED
  BY <1>1, <1>2, <1>3 DEF PosEnd, Cell

-----------------------------------------------------------------------------
(* Calls.                                                                  *)

\* A call that stands in none of the first two places of a cell's making.
LEMMA GoOnStep ==
  ASSUME IInv, LimitInv, calls # <<>>, GoOn, Call.op \notin {"k_new", "newComputationCell"},
         HandCall, \A r \in 1..Runs : root'[Cells[r]] = root[Cells[r]],
         run \in 1..Runs
  PROVE  LimitInv'
<1>1. test' = test /\ run' = run /\ phase' = phase /\ calls' = Tail(calls)
  BY DEF GoOn
<1>2. CellEnds'
  BY EndsKept DEF LimitInv
<1>3. root'[Cells[run]] = root[Cells[run]]
  OBVIOUS
<1>4. Stage'
  <2>1. CASE phase = "load" /\ Loads(calls)
    BY <1>1, <2>1, LoadsTail DEF Stage
  <2>2. CASE \E v : calls = MakesCell(v) \/ calls = OwnsCell(v)
    <3>1. Call.op \in {"k_new", "newComputationCell"}
      BY <2>2 DEF MakesCell, OwnsCell, Call, New, MakeHolder
    <3> QED
      BY <3>1
  <2>3. CASE phase # "load" /\ Harmless(calls) /\ root[Cells[run]] # NoNode
    BY <1>1, <1>3, <2>3, HarmlessHead DEF Stage
  <2> QED
    BY <2>1, <2>2, <2>3 DEF LimitInv, Stage
<1> QED
  BY <1>1, <1>2, <1>4 DEF LimitInv

LEMMA OneCall ==
  ASSUME HwIInv, LimitInv,
         BuildNode \/ Make_permanent \/ Computation_set_elem \/ Computation_remove_head
         \/ ReplaceArg \/ TrimArgs \/ NewTop \/ Update_store \/ State_cleanup
         \/ (Computation_add_front /\ ~ TooMany)
  PROVE  LimitInv'
<1>1. IInv /\ run \in 1..Runs
  BY DEF HwIInv
<1>2. \A r \in 1..Runs : Cells[r] \in Root /\ Cells[r] \notin Key
  BY HandAssumption DEF HandAssumption
<1>3. ASSUME root' = root PROVE \A r \in 1..Runs : root'[Cells[r]] = root[Cells[r]]
  BY <1>3
<1>4. CASE BuildNode
  <2>1. K_new([i \in DOMAIN Call.args |-> built[Call.args[i]]]) /\ GoOn /\ calls # <<>> /\ Call.op = "build"
    BY <1>4 DEF BuildNode, Makes, At
  <2>2. root' = root
    BY <2>1 DEF K_new, Stop
  <2> QED
    BY <1>1, <1>3, <2>1, <2>2, GoOnStep DEF HandCall
<1>5. CASE Make_permanent
  <2>1. /\ K_make_permanent(built[Call.at]) /\ GoOn /\ calls # <<>> /\ Call.op = "k_make_permanent"
    BY <1>5 DEF Make_permanent, At
  <2>2. root' = root
    BY <2>1 DEF K_make_permanent
  <2> QED
    BY <1>1, <1>3, <2>1, <2>2, GoOnStep DEF HandCall
<1>6. CASE Computation_set_elem
  <2>1. K_set_arg(holder, Call.pos, Of(Call.v)) /\ GoOn /\ calls # <<>> /\ Call.op = "computation_set_elem"
    BY <1>6 DEF Computation_set_elem, At
  <2>2. root' = root
    BY <2>1 DEF K_set_arg
  <2> QED
    BY <1>1, <1>3, <2>1, <2>2, GoOnStep DEF HandCall
<1>7. CASE Computation_remove_head \/ TrimArgs
  <2>1. PICK k : UpdateTrimArgs(k, 1, Len(args[k]))
    BY <1>7 DEF Computation_remove_head, TrimArgs, Cell
  <2>2. GoOn /\ calls # <<>> /\ Call.op \in {"computation_remove_head", "updateTrimArgs"}
    BY <1>7 DEF Computation_remove_head, TrimArgs, At
  <2>3. root' = root
    BY <2>1 DEF UpdateTrimArgs, CopyStops, Stop
  <2> QED
    BY <1>1, <1>3, <2>1, <2>2, <2>3, GoOnStep DEF HandCall
<1>8. CASE ReplaceArg
  <2>1. K_replace_arg(Call.k, Call.pos, Of(Call.v)) /\ GoOn /\ calls # <<>> /\ Call.op = "k_replace_arg"
    BY <1>8 DEF ReplaceArg, At
  <2>2. root' = root
    BY <2>1 DEF K_replace_arg, CopyStops, Stop
  <2> QED
    BY <1>1, <1>3, <2>1, <2>2, GoOnStep DEF HandCall
<1>9. CASE NewTop
  <2>1. /\ UNCHANGED vars \/ K_set_arg(holder, 1, ret)
        /\ GoOn /\ calls # <<>> /\ Call.op = "newTop"
    BY <1>9 DEF NewTop, At
  <2>2. root' = root
    BY <2>1 DEF K_set_arg, vars
  <2> QED
    BY <1>1, <1>3, <2>1, <2>2, GoOnStep DEF HandCall
<1>10. CASE Update_store
  <2>1. /\ Own(Call.key, Of(Call.v)) /\ Call.key \in Key
        /\ GoOn /\ calls # <<>> /\ Call.op = "updateStore"
    BY <1>10 DEF Update_store, At
  <2>2. \A r \in 1..Runs : root'[Cells[r]] = root[Cells[r]]
    BY <1>1, <1>2, <2>1 DEF Own, IInv, TypeOK
  <2> QED
    BY <1>1, <2>1, <2>2, GoOnStep DEF HandCall
<1>11. CASE State_cleanup
  <2>1. /\ Disown(Call.key) /\ Call.key \in Key
        /\ GoOn /\ calls # <<>> /\ Call.op = "state_cleanup"
    BY <1>11 DEF State_cleanup, At
  <2>2. \A r \in 1..Runs : root'[Cells[r]] = root[Cells[r]]
    BY <1>1, <1>2, <2>1 DEF Disown, IInv, TypeOK
  <2> QED
    BY <1>1, <2>1, <2>2, GoOnStep DEF HandCall
<1>12. CASE Computation_add_front /\ ~ TooMany
  <2>1. /\ K_add_front_arg(holder, Of(Call.v))
        /\ GoOn /\ calls # <<>> /\ Call.op = "computation_add_front"
    BY <1>12 DEF Computation_add_front, At
  <2>2. root' = root
    BY <2>1 DEF K_add_front_arg, Stop
  <2> QED
    BY <1>1, <1>3, <2>1, <2>2, GoOnStep DEF HandCall
<1> QED
  BY <1>4, <1>5, <1>6, <1>7, <1>8, <1>9, <1>10, <1>11, <1>12

-----------------------------------------------------------------------------
(* The making of a cell, and steps that leave the heap alone.              *)

\* What k_new returns is an empty window at its first position.
LEMMA NewEnd ==
  ASSUME IInv, K_new(<<>>), NEW n \in Acquired
  PROVE  pos_first'[n] + Len(args'[n]) = POS_FIRST
<1>1. Idle /\ work = <<>>
  BY DEF K_new, Idle
<1>2. n \in Node /\ Dead(n) /\ ~ Dead(n)'
  BY DEF Acquired
<1>3. PICK m \in Node : /\ CanAcquire(garbage_k, mallocd, m)
                        /\ garbage_k' = Popped(garbage_k) /\ mallocd' = mallocd \cup {m}
                        /\ work' = work
                        /\ args' = [args EXCEPT ![m] = <<>>]
                        /\ pos_first' = [pos_first EXCEPT ![m] = POS_FIRST]
  <2>1. ~ \E why : Stop(why)
    BY <1>2 DEF Stop, Dead
  <2> QED
    BY <2>1 DEF K_new
<1>4. n = m
  <2>1. garbage_k \in Seq(Node) /\ mallocd \in SUBSET Node
    BY DEF IInv, TypeOK
  <2>2. \A x \in Node : /\ Occ(garbage_k, x) = IF x \in Range(garbage_k) THEN 1 ELSE 0
                        /\ x \in Range(garbage_k) => x \in mallocd
    BY <1>1, PoolOnce
  <2>3. \A x \in Node : x \in Range(Popped(garbage_k)) <=> x \in Range(garbage_k) /\ x # m
    <3>1. CanAcquire(garbage_k, mallocd, m)
      BY <1>3
    <3>2. /\ \A x \in Node : Occ(garbage_k, x) = IF x \in Range(garbage_k) THEN 1 ELSE 0
          /\ \A x \in Node : x \in Range(garbage_k) => x \in mallocd
      BY <2>2, Zenon
    <3> QED
      BY <2>1, <3>1, <3>2, Acquire, Zenon
  <2> QED
    BY <1>2, <1>3, <2>3 DEF Dead
<1>5. args'[n] = <<>> /\ pos_first'[n] = POS_FIRST
  BY <1>2, <1>3, <1>4 DEF IInv, TypeOK
<1> QED
  BY <1>5, HeapAssumption DEF HeapAssumption

LEMMA NewNodeLimit ==
  ASSUME HwIInv, LimitInv, NewNode
  PROVE  LimitInv'
<1>1. /\ K_new([i \in DOMAIN Call.args |-> Of(Call.args[i])])
      /\ Returns(NoNode) /\ GoOn /\ calls # <<>> /\ Call.op = "k_new" /\ Idle
  BY DEF NewNode, Makes, At
<1>2. root' = root /\ work' = work
  BY <1>1 DEF K_new, Stop
<1>3. test' = test /\ run' = run /\ phase' = phase /\ calls' = Tail(calls)
  BY <1>1 DEF GoOn
<1>4. CellEnds'
  BY <1>1, <1>2, EndsKept DEF LimitInv, HandCall, HwIInv
<1>5. Stage'
  <2>1. CASE phase = "load" /\ Loads(calls)
    BY <1>1, <2>1, LoadsTail DEF Call
  <2>2. CASE phase # "load" /\ \E v : calls = MakesCell(v)
    <3>1. PICK v : calls = MakesCell(v)
      BY <2>2
    <3>2. Call = New("_kra", <<>>) /\ calls' = OwnsCell(v)
      BY <1>3, <3>1 DEF MakesCell, OwnsCell, Call
    <3>3. K_new(<<>>)
      <4>1. Call.args = <<>>
        BY <3>2 DEF New
      <4>2. [i \in DOMAIN Call.args |-> Of(Call.args[i])] = <<>>
        BY <4>1
      <4> QED
        BY <1>1, <4>2
    <3>4. ASSUME ret' \in Node PROVE pos_first'[ret'] + Len(args'[ret']) = POS_FIRST
      <4>1. ret' = Returned(NoNode)
        BY <1>1 DEF Returns
      <4>2. NoNode \notin Node
        BY HeapAssumption DEF HeapAssumption
      <4>3. Acquired # {}
        BY <3>4, <4>1, <4>2 DEF Returned
      <4>4. ret' \in Acquired
        BY <4>1, <4>3 DEF Returned
      <4>5. IInv
        BY DEF HwIInv
      <4>6. PICK n \in Acquired : n = ret'
        BY <4>4
      <4>7. pos_first'[n] + Len(args'[n]) = POS_FIRST
        BY <3>3, <4>5, NewEnd
      <4> QED
        BY <4>6, <4>7
    <3>5. work' = <<>>
      BY <1>1, <1>2 DEF Idle
    <3> QED
      BY <1>3, <2>2, <3>2, <3>4, <3>5 DEF Stage, PosEnd
  <2>3. CASE \E v : calls = OwnsCell(v)
    <3>1. Call.op = "newComputationCell"
      BY <2>3 DEF OwnsCell, Call, MakeHolder
    <3> QED
      BY <1>1, <3>1
  <2>4. CASE phase # "load" /\ Harmless(calls) /\ root[Cells[run]] # NoNode
    BY <1>1, <1>2, <1>3, <2>4, HarmlessHead DEF Stage
  <2> QED
    BY <2>1, <2>2, <2>3, <2>4 DEF LimitInv, Stage
<1> QED
  BY <1>3, <1>4, <1>5 DEF LimitInv

LEMMA NewCellLimit ==
  ASSUME HwIInv, LimitInv, NewComputationCell
  PROVE  LimitInv'
<1>1. /\ Own(Cells[run], ret) /\ GoOn /\ calls # <<>> /\ Call.op = "newComputationCell"
      /\ Idle /\ Live(ret)
  BY DEF NewComputationCell, At, Own
<1>2. /\ root' = [root EXCEPT ![Cells[run]] = ret] /\ UNCHANGED <<args, pos_first>>
      /\ root \in [Root -> Node \cup {NoNode}] /\ ret \in Node /\ NoNode \notin Node
      /\ run \in 1..Runs
  BY <1>1, LiveIsNode, HeapAssumption DEF Own, HwIInv, IInv, TypeOK, HeapAssumption
<1>3. test' = test /\ run' = run /\ phase' = phase /\ calls' = Tail(calls)
  BY <1>1 DEF GoOn
<1>4. \A r \in 1..Runs : Cells[r] \in Root
  BY HandAssumption DEF HandAssumption
<1>5. phase # "load" /\ (\E v : calls = OwnsCell(v)) /\ PosEnd(ret) = POS_FIRST
  <2>1. CASE phase = "load" /\ Loads(calls)
    BY <1>1, <2>1, LoadsTail DEF Call
  <2>2. CASE \E v : calls = MakesCell(v)
    <3>1. Call.op = "k_new"
      BY <2>2 DEF MakesCell, Call, New
    <3> QED
      BY <1>1, <3>1
  <2>3. CASE Harmless(calls)
    BY <1>1, <2>3, HarmlessHead DEF Plain, Call
  <2> QED
    BY <1>1, <1>2, <2>1, <2>2, <2>3 DEF LimitInv, Stage, Idle
<1>6. CellEnds'
  <2> SUFFICES ASSUME NEW r \in 1..Runs, root'[Cells[r]] # NoNode
               PROVE  pos_first[root'[Cells[r]]] + Len(args[root'[Cells[r]]]) = POS_FIRST
    BY <1>2 DEF CellEnds, PosEnd
  <2>1. CASE Cells[r] = Cells[run]
    BY <1>2, <1>4, <1>5, <2>1 DEF PosEnd
  <2>2. CASE Cells[r] # Cells[run]
    BY <1>2, <1>4, <2>2 DEF LimitInv, CellEnds, PosEnd
  <2> QED
    BY <2>1, <2>2
<1>7. Stage'
  <2>1. PICK v : calls = OwnsCell(v)
    BY <1>5
  <2>2. calls' = <<Add_front(v)>>
    BY <1>3, <2>1 DEF OwnsCell
  <2>3. Harmless(calls')
    BY <2>2, PlainCalls, HarmlessLists
  <2>4. root'[Cells[run]] # NoNode
    BY <1>2, <1>4
  <2> QED
    BY <1>3, <1>5, <2>3, <2>4 DEF Stage
<1> QED
  BY <1>3, <1>6, <1>7 DEF LimitInv

\* Handlers, and run between programs: the heap is left alone.
LEMMA QuietLimit ==
  ASSUME LimitInv, phase # "load", Harmless(calls), root[Cells[run]] # NoNode,
         UNCHANGED <<vars, test, run>>, phase' \notin Limits, phase' # "load", Harmless(calls')
  PROVE  LimitInv'
<1>1. CellEnds'
  BY DEF LimitInv, CellEnds, PosEnd, vars
<1>2. root'[Cells[run']] # NoNode
  BY DEF vars
<1> QED
  BY <1>1, <1>2 DEF LimitInv, Stage

\* Whoever dispatches has a cell.
LEMMA FreeStage ==
  ASSUME LimitInv, calls = <<>>, phase # "load"
  PROVE  Harmless(calls) /\ root[Cells[run]] # NoNode
<1>1. \A v : calls # MakesCell(v) /\ calls # OwnsCell(v)
  BY DEF MakesCell, OwnsCell
<1> QED
  BY <1>1 DEF LimitInv, Stage

-----------------------------------------------------------------------------
(* Every step.                                                             *)

\* A call that is none of those of loading or of a cell's making.
LEMMA HandlerCall ==
  ASSUME LimitInv, calls # <<>>,
         Call.op \notin {"build", "k_make_permanent", "k_new", "newComputationCell"}
  PROVE  phase # "load" /\ Harmless(calls) /\ root[Cells[run]] # NoNode
<1>1. ~ (phase = "load" /\ Loads(calls))
  BY LoadsTail DEF Call
<1>2. ~ \E v : calls = MakesCell(v) \/ calls = OwnsCell(v)
  BY DEF MakesCell, OwnsCell, Call, New, MakeHolder
<1> QED
  BY <1>1, <1>2 DEF LimitInv, Stage

LEMMA StopsLimit ==
  ASSUME LimitInv, Stops
  PROVE  LimitInv'
<1>1. calls # <<>> /\ Call.op = "panic" /\ End(Call.why)
  BY DEF Stops, At
<1>2. phase # "load" /\ Harmless(calls) /\ root[Cells[run]] # NoNode
  BY <1>1, HandlerCall
<1>3. Call.why \notin Limits /\ Call.why # "load"
  BY <1>1, <1>2, HarmlessHead DEF Plain, Call
<1>4. /\ UNCHANGED <<vars, test, run>> /\ phase' = Call.why /\ calls' = <<>>
  BY <1>1 DEF End
<1>5. Harmless(calls')
  BY <1>4, HarmlessLists
<1> QED
  BY <1>2, <1>3, <1>4, <1>5, QuietLimit

\* The limit in computation_add_front is not met: the cell is too short.
LEMMA AddFrontRuns ==
  ASSUME HwIInv, LimitInv, POS_FIRST <= MAX_K, Computation_add_front
  PROVE  ~ TooMany
<1>1. calls # <<>> /\ Call.op = "computation_add_front"
  BY DEF Computation_add_front, At
<1>2. root[Cells[run]] # NoNode
  BY <1>1, HandlerCall
<1> QED
  BY <1>2, CellShort DEF LimitInv, TooMany

LEMMA FollowsLimit ==
  ASSUME LimitInv, Follows
  PROVE  LimitInv'
<1>1. /\ calls # <<>> /\ Call.op \in {"handleValue", "handleIf"}
      /\ UNCHANGED <<vars, test, run, phase>>
  BY DEF Follows, At
<1>2. phase # "load" /\ Harmless(calls) /\ root[Cells[run]] # NoNode
  BY <1>1, HandlerCall
<1>3. Harmless(calls')
  BY HandlersHarmless DEF Follows
<1>4. phase' \notin Limits
  BY <1>1 DEF LimitInv
<1> QED
  BY <1>1, <1>2, <1>3, <1>4, QuietLimit

LEMMA CallLimit ==
  ASSUME HwIInv, LimitInv, POS_FIRST <= MAX_K, Calls
  PROVE  LimitInv'
<1>1. CASE Computation_add_front
  BY <1>1, AddFrontRuns, OneCall
<1>2. CASE NewNode
  BY <1>2, NewNodeLimit
<1>3. CASE NewComputationCell
  BY <1>3, NewCellLimit
<1>4. CASE Follows
  BY <1>4, FollowsLimit
<1>5. CASE Stops
  BY <1>5, StopsLimit
<1> QED
  BY <1>1, <1>2, <1>3, <1>4, <1>5, OneCall DEF Calls

\* repl calls a handler, and goes on to the result when it does nothing.
LEMMA DispatchLimit ==
  ASSUME LimitInv, NEW l, NEW todo, Dispatch(l, todo), Harmless(todo)
  PROVE  LimitInv'
<1>1. /\ phase = "repl" /\ calls = <<>>
      /\ phase' \in {"result", "repl"} /\ calls' = todo /\ UNCHANGED <<vars, test, run>>
  BY DEF Dispatch, Free, Turn
<1>2. phase # "load" /\ phase' # "load"
  BY <1>1
<1>3. Harmless(calls) /\ root[Cells[run]] # NoNode
  BY <1>1, <1>2, FreeStage
<1>4. phase' \notin Limits
  BY <1>1, OtherReasons
<1> QED
  BY <1>1, <1>2, <1>3, <1>4, QuietLimit

LEMMA HandlerLimit ==
  ASSUME LimitInv, Handler
  PROVE  LimitInv'
<1>1. \E l, todo : Dispatch(l, todo) /\ Harmless(todo)
  <2>1. CASE HandleValue
    BY <2>1, HandlersHarmless DEF HandleValue
  <2>2. CASE HandleVariable \/ HandleProgram \/ HandleStatements \/ HandleVar
    BY <2>2, HandlersHarmless DEF HandleVariable, HandleProgram, HandleStatements, HandleVar
  <2>3. CASE HandleAssign \/ HandleWhile \/ HandleIf \/ HandleNot
    BY <2>3, HandlersHarmless DEF HandleAssign, HandleWhile, HandleIf, HandleNot
  <2>4. CASE HandleLTE \/ HandlePlus \/ HandleMinus \/ HandleDiv
    BY <2>4, HandlersHarmless DEF HandleLTE, HandlePlus, HandleMinus, HandleDiv
  <2>5. CASE HandleAnd \/ HandleNeg \/ HandleSkip \/ Unrecognized
    BY <2>5, HandlersHarmless DEF HandleAnd, HandleNeg, HandleSkip, Unrecognized
  <2> QED
    BY <2>1, <2>2, <2>3, <2>4, <2>5 DEF Handler
<1> QED
  BY <1>1, DispatchLimit

\* A program that ends with a cell ends for a reason of its own.
LEMMA EndLimit ==
  ASSUME LimitInv, phase # "load", calls = <<>>, NEW why, End(why), why \notin Limits, why # "load"
  PROVE  LimitInv'
<1>1. UNCHANGED <<vars, test, run>> /\ phase' = why /\ calls' = <<>>
  BY DEF End
<1>2. Harmless(calls) /\ root[Cells[run]] # NoNode
  BY FreeStage
<1> QED
  BY <1>1, <1>2, QuietLimit, HarmlessLists

LEMMA SafetyLimit ==
  ASSUME HwIInv, LimitInv, POS_FIRST <= MAX_K, SafetyCheck
  PROVE  LimitInv'
<1>1. phase = "repl" /\ calls = <<>> /\ Len(Cell) > MAX_K
  BY DEF SafetyCheck, Free
<1>2. root[Cells[run]] # NoNode
  BY <1>1, FreeStage
<1> QED
  BY <1>1, <1>2, CellShort DEF LimitInv

LEMMA EmptyCellLimit ==
  ASSUME LimitInv, EmptyCell
  PROVE  LimitInv'
<1>1. /\ phase = "repl" /\ calls = <<>>
      /\ phase' = "result" /\ calls' = <<>> /\ UNCHANGED <<vars, test, run>>
  BY DEF EmptyCell, Free, Turn
<1>2. phase # "load" /\ phase' # "load"
  BY <1>1
<1>3. Harmless(calls) /\ root[Cells[run]] # NoNode
  BY <1>1, <1>2, FreeStage
<1>4. phase' \notin Limits
  BY <1>1, OtherReasons
<1> QED
  BY <1>1, <1>2, <1>3, <1>4, QuietLimit, HarmlessLists

\* The cleanup of a run: the cell, and the entries of the map.
LEMMA CleanupHarmless == Harmless(Cleanup)
<1> DEFINE c == Cardinality(Owned)
           f == [i \in 1..c |-> Forget(SetToSeq(Owned)[i])]
           S == {Forget(x) : x \in {SetToSeq(Owned)[i] : i \in 1..c}}
<1>1. c \in Nat
  <2>1. Owned \subseteq Root
    BY HandAssumption DEF HandAssumption, Owned
  <2> QED
    BY <2>1, HeapAssumption, FS_Subset, FS_CardinalityType DEF HeapAssumption
<1>2. \A d \in S : Plain(d)
  BY PlainCalls
<1>3. f \in Seq(S)
  <2>1. f \in [1..c -> S]
    OBVIOUS
  <2> HIDE DEF f, S, c
  <2> QED
    BY <1>1, <2>1
<1> HIDE DEF S
<1>4. Harmless(f)
  BY <1>2, <1>3 DEF Harmless
<1>5. Harmless(<<Remove_head>>)
  BY PlainCalls, HarmlessLists
<1>6. Cleanup = <<Remove_head>> \o f
  BY DEF Cleanup
<1> HIDE DEF f
<1> QED
  BY <1>4, <1>5, <1>6, HarmlessConcat

LEMMA GetResultLimit ==
  ASSUME LimitInv, Get_result
  PROVE  LimitInv'
<1>1. phase = "result" /\ calls = <<>>
  BY DEF Get_result, Free
<1>2. phase # "load"
  BY <1>1
<1>3. CASE Len(Cell) # 1
  <2>1. End("no single value")
    BY <1>3 DEF Get_result
  <2>2. "no single value" # "load"
    OBVIOUS
  <2> QED
    BY <1>1, <1>2, <2>1, <2>2, EndLimit, OtherReasons, Zenon
<1>4. CASE Len(Cell) = 1
  <2>1. phase' = "cleanup" /\ calls' = Cleanup /\ UNCHANGED <<vars, test, run>>
    BY <1>4 DEF Get_result, Turn
  <2>2. Harmless(calls')
    BY <2>1, CleanupHarmless
  <2>3. phase' \notin Limits /\ phase' # "load"
    BY <2>1, OtherReasons
  <2>4. Harmless(calls) /\ root[Cells[run]] # NoNode
    BY <1>1, <1>2, FreeStage
  <2> QED
    BY <1>2, <2>1, <2>2, <2>3, <2>4, QuietLimit
<1> QED
  BY <1>3, <1>4

LEMMA LoadLimit ==
  ASSUME LimitInv, Run_ends
  PROVE  LimitInv'
<1>1. phase = "cleanup" /\ calls = <<>>
  BY DEF Run_ends, Free
<1>2. phase # "load"
  BY <1>1
<1>3. CASE run = Runs
  <2>1. End("done")
    BY <1>3 DEF Run_ends
  <2>2. "done" # "load"
    OBVIOUS
  <2> QED
    BY <1>1, <1>2, <2>1, <2>2, EndLimit, OtherReasons, Zenon
<1>4. CASE run # Runs
  <2>1. phase' = "load" /\ calls' = Program[test] /\ UNCHANGED <<vars, test>>
    BY <1>4 DEF Run_ends, Turn
  <2>2. Loads(calls')
    BY <2>1, ProgramLoads DEF LimitInv
  <2>3. phase' \notin Limits
    BY <2>1, OtherReasons
  <2>4. CellEnds'
    BY <2>1 DEF LimitInv, CellEnds, PosEnd, vars
  <2> QED
    BY <2>1, <2>2, <2>3, <2>4 DEF LimitInv, Stage
<1> QED
  BY <1>3, <1>4

LEMMA ConfigurationLimit ==
  ASSUME LimitInv, New_configuration
  PROVE  LimitInv'
<1>1. /\ phase' = "repl" /\ calls' = MakesCell(Last(built)) /\ UNCHANGED <<vars, test>>
  BY DEF New_configuration, Turn, MakesCell
<1>2. phase' \notin Limits /\ phase' # "load"
  BY <1>1, OtherReasons
<1>3. CellEnds'
  BY <1>1 DEF LimitInv, CellEnds, PosEnd, vars
<1> QED
  BY <1>1, <1>2, <1>3 DEF LimitInv, Stage

\* Between two calls a cascade may run; the new holder of a cell waits for none.
LEMMA DecsLimit ==
  ASSUME HwIInv, LimitInv, RunDecs
  PROVE  LimitInv'
<1>1. Cascade /\ UNCHANGED <<test, run, calls, ret, phase>>
  BY DEF RunDecs
<1>2. root' = root /\ panicked = "no" /\ work # <<>>
  BY <1>1 DEF Cascade, DecStep, AuxStep, Stop
<1>3. CellEnds'
  BY <1>1, <1>2, EndsKept DEF HwIInv, LimitInv, HandCall
<1>4. ~ \E v : calls = OwnsCell(v)
  <2>1. SUFFICES ASSUME NEW v, calls = OwnsCell(v) PROVE FALSE
    OBVIOUS
  <2>2. Call.op = "newComputationCell" /\ calls # <<>>
    BY <2>1 DEF OwnsCell, Call, MakeHolder
  <2>3. ~ (phase = "load" /\ Loads(calls))
    BY <2>2, LoadsTail DEF Call
  <2>4. ~ \E w : calls = MakesCell(w)
    BY <2>2 DEF MakesCell, Call, New
  <2>5. ~ Harmless(calls)
    BY <2>2, HarmlessHead DEF Plain, Call
  <2> QED
    BY <1>2, <2>3, <2>4, <2>5 DEF LimitInv, Stage
<1>5. Stage'
  BY <1>1, <1>2, <1>4 DEF LimitInv, Stage
<1> QED
  BY <1>1, <1>3, <1>5 DEF LimitInv

LEMMA LimitStep ==
  ASSUME HwIInv, LimitInv, POS_FIRST <= MAX_K, [HwNext]_hwVars
  PROVE  LimitInv'
<1>1. CASE Calls
  BY <1>1, CallLimit
<1>2. CASE Handler
  BY <1>2, HandlerLimit
<1>3. CASE EmptyCell
  BY <1>3, EmptyCellLimit
<1>4. CASE SafetyCheck
  BY <1>4, SafetyLimit
<1>5. CASE New_configuration
  BY <1>5, ConfigurationLimit
<1>6. CASE Get_result
  BY <1>6, GetResultLimit
<1>7. CASE Run_ends
  BY <1>7, LoadLimit
<1>8. CASE RunDecs
  BY <1>8, DecsLimit
<1>9. CASE UNCHANGED hwVars
  <2>1. CellEnds'
    BY <1>9 DEF LimitInv, CellEnds, PosEnd, vars, hwVars
  <2>2. Stage'
    BY <1>9 DEF LimitInv, Stage, PosEnd, vars, hwVars
  <2> QED
    BY <1>9, <2>1, <2>2 DEF LimitInv, hwVars
<1> QED
  BY <1>1, <1>2, <1>3, <1>4, <1>5, <1>6, <1>7, <1>8, <1>9 DEF HwNext, HwStep

LEMMA InitLimit == HwInit => LimitInv
<1> SUFFICES ASSUME HwInit PROVE LimitInv
  OBVIOUS
<1>1. test \in DOMAIN Program /\ phase = "load" /\ calls = Constants \o Program[test]
  BY DEF HwInit
<1>2. CellEnds
  BY HandAssumption DEF HwInit, Init, CellEnds, HandAssumption
<1>3. Stage
  BY <1>1, ProgramLoads DEF Stage
<1> QED
  BY <1>1, <1>2, <1>3, OtherReasons DEF LimitInv

\* A program never ends because the cell got too long: with MAX_K no less than
\* the first position of a window (20 and 20 in k.c and settings.h), the slots
\* in front of the cell are used up before either limit is met.
THEOREM LimitsNeverReported == POS_FIRST <= MAX_K => (HwSpec => []LimitNeverReported)
<1> SUFFICES ASSUME POS_FIRST <= MAX_K PROVE HwSpec => []LimitNeverReported
  OBVIOUS
<1>1. HwInit => LimitInv
  BY InitLimit
<1>2. HwIInv /\ HwIInv' /\ LimitInv /\ [HwNext]_hwVars => LimitInv'
  BY LimitStep
<1>3. LimitInv => LimitNeverReported
  BY DEF LimitInv, LimitNeverReported, Limits
<1> QED
  BY <1>1, <1>2, <1>3, HwInductive, PTL DEF HwSpec

-----------------------------------------------------------------------------
(* What a call of the heap leaves behind.                                 *)

\* A step that neither takes nodes from the free list nor puts any on it.
LEMMA LiveSame ==
  ASSUME UNCHANGED <<garbage_k, mallocd>>,
         \A x \in Node : AuxOf(x) \in Range(work') <=> AuxOf(x) \in Range(work)
  PROVE  /\ \A x \in Node : Live(x)' <=> Live(x)
         /\ Acquired = {}
  BY DEF Live, Dead, Acquired

\* A step that takes one.
LEMMA LiveGrown ==
  ASSUME IInv, work = <<>>, NEW n \in Node, CanAcquire(garbage_k, mallocd, n),
         garbage_k' = Popped(garbage_k), mallocd' = mallocd \cup {n},
         \A x \in Node : AuxOf(x) \notin Range(work')
  PROVE  /\ Dead(n) /\ \A x \in Node : Live(x)' <=> Live(x) \/ x = n
         /\ Acquired = {n}
<1>1. garbage_k \in Seq(Node) /\ mallocd \in SUBSET Node
  BY DEF IInv, TypeOK
<1>2. Dead(n)
  BY AcquireStep
<1>3. \A x \in Node : AuxOf(x) \notin Range(work)
  BY PoolOnce
<1>4. /\ \A x \in Node : Occ(garbage_k, x) = IF x \in Range(garbage_k) THEN 1 ELSE 0
      /\ \A x \in Node : x \in Range(garbage_k) => x \in mallocd
  BY PoolOnce
<1>5. \A x \in Node : x \in Range(Popped(garbage_k)) <=> x \in Range(garbage_k) /\ x # n
  BY <1>1, <1>4, Acquire, Zenon
<1>6. \A x \in Node : Dead(x)' <=> x \notin mallocd' \/ x \in Range(garbage_k')
  BY DEF Dead
<1>7. \A x \in Node : Dead(x) <=> x \notin mallocd \/ x \in Range(garbage_k)
  BY <1>3 DEF Dead
<1>8. \A x \in Node : Live(x)' <=> Live(x) \/ x = n
  BY <1>5, <1>6, <1>7 DEF Live
<1> QED
  BY <1>2, <1>8 DEF Acquired, Live

\* What a node is, but for its counts, after a step that makes n, a node with
\* the label l and the arguments s.
Grown(n, s, l) ==
  /\ n \in Node /\ Dead(n) /\ s \in Seq(Node)
  /\ \A x \in Node : /\ Live(x)' <=> Live(x) \/ x = n
                     /\ label'[x] = IF x = n THEN l ELSE label[x]
                     /\ permanent'[x] = IF x = n THEN FALSE ELSE permanent[x]
                     /\ args'[x] = IF x = n THEN s ELSE args[x]
  /\ refs'[n] = 0 /\ root' = root /\ panicked' = panicked

\* And after a step that gives k the arguments s.
Edited(k, s) ==
  /\ k \in Node /\ s \in Seq(Node)
  /\ \A x \in Node : /\ Live(x)' <=> Live(x)
                     /\ label'[x] = label[x]
                     /\ permanent'[x] = permanent[x]
                     /\ args'[x] = IF x = k THEN s ELSE args[x]
  /\ root' = root /\ panicked' = panicked

\* A node without a reference is nobody's argument and nobody's value.
LEMMA Unlisted ==
  ASSUME IInv, NEW x \in Node, refs[x] = 0
  PROVE  /\ \A k \in Node : Occ(args[k], x) = 0 /\ x \notin Range(args[k])
         /\ \A r \in Root : root[r] # x
<1>1. args \in [Node -> Seq(Node)] /\ work \in Seq(Pending) /\ \A k \in Node : Len(args[k]) <= MAX_GARBAGE_ARG_LEN
  BY Window DEF IInv, TypeOK
<1>2. Cardinality(SlotsOf(args, x)) \in Nat
  BY <1>1, SlotsAt
<1>3. IsFiniteSet(OwnersOf(root, x))
  BY HeapAssumption, FS_Subset DEF HeapAssumption, OwnersOf
<1>4. Cardinality(OwnersOf(root, x)) \in Nat
  BY <1>3, FS_CardinalityType
<1>5. Occ(work, DecOf(x)) \in Nat
  BY <1>1, OccNat
<1>6. Cardinality(SlotsOf(args, x)) + Cardinality(OwnersOf(root, x)) + Occ(work, DecOf(x)) = 0
  BY DEF IInv, RefCountsExact, Holders
<1>7. Cardinality(SlotsOf(args, x)) = 0 /\ Cardinality(OwnersOf(root, x)) = 0
  BY <1>2, <1>4, <1>5, <1>6
<1>8. OwnersOf(root, x) = {}
  BY <1>3, <1>7, FS_EmptySet
<1> QED
  BY <1>1, <1>7, <1>8, NoSlots DEF OwnersOf

\* A node that somebody owns and that is an argument is shared.
LEMMA OwnedAndListed ==
  ASSUME IInv, NEW x \in Node, NEW r \in Root, root[r] = x, NEW k \in Node, x \in Range(args[k])
  PROVE  Shared(x)
<1>1. args \in [Node -> Seq(Node)] /\ work \in Seq(Pending) /\ Len(args[k]) <= MAX_GARBAGE_ARG_LEN
  BY Window DEF IInv, TypeOK
<1> DEFINE a == Cardinality(SlotsOf(args, x))
           o == Cardinality(OwnersOf(root, x))
           w == Occ(work, DecOf(x))
<1>2. a \in Nat
  BY <1>1, SlotsAt
<1>3. a # 0
  BY <1>1, NoSlots
<1>4. IsFiniteSet(OwnersOf(root, x)) /\ r \in OwnersOf(root, x)
  BY HeapAssumption, FS_Subset DEF HeapAssumption, OwnersOf
<1>5. o \in Nat /\ o # 0
  BY <1>4, FS_CardinalityType, FS_EmptySet
<1>6. w \in Nat
  BY <1>1, OccNat
<1>7. refs[x] = a + o + w
  BY DEF IInv, RefCountsExact, Holders
<1> HIDE DEF a, o, w
<1> QED
  BY <1>2, <1>3, <1>5, <1>6, <1>7 DEF Shared

\* k_new.
LEMMA NewPost ==
  ASSUME IInv, NEW s \in Seq(Node), K_new(s), NEW l, Labelled(l), panicked' = "no"
  PROVE  \E n \in Node :
           /\ Grown(n, s, l) /\ (\A k : Returned(k) = n) /\ work' = <<>>
           /\ \A x \in Node : x \notin Range(s) /\ x # n => refs'[x] = refs[x]
<1>1. work = <<>> /\ panicked = "no"
  BY DEF K_new, Idle
<1>2. PICK n \in Node : /\ CanAcquire(garbage_k, mallocd, n)
                        /\ garbage_k' = Popped(garbage_k) /\ mallocd' = mallocd \cup {n}
                        /\ refs' = [Bump(refs, s) EXCEPT ![n] = 0]
                        /\ args' = [args EXCEPT ![n] = s]
                        /\ permanent' = [permanent EXCEPT ![n] = FALSE]
                        /\ UNCHANGED <<root, work, panicked>>
  <2>1. ~ Stop("args length") /\ ~ Stop("outstanding") /\ ~ Stop("assert")
    BY <1>1 DEF Stop
  <2> QED
    BY <2>1 DEF K_new
<1>3. \A x \in Node : AuxOf(x) \notin Range(work')
  BY <1>1, <1>2, PoolOnce
<1>4. Dead(n) /\ (\A x \in Node : Live(x)' <=> Live(x) \/ x = n) /\ Acquired = {n}
  BY <1>1, <1>2, <1>3, LiveGrown
<1>5. /\ refs \in [Node -> Nat] /\ args \in [Node -> Seq(Node)] /\ permanent \in [Node -> BOOLEAN]
  BY DEF IInv, TypeOK
<1>6. \A x \in Node : label'[x] = IF x = n THEN l ELSE label[x]
  BY <1>4 DEF Labelled
<1>7. refs'[n] = 0 /\ \A x \in Node : x # n => refs'[x] = refs[x] + Occ(s, x)
  BY <1>2, <1>5 DEF Bump
<1>9. \A x \in Node : x \notin Range(s) => Occ(s, x) = 0
  BY OccNat
<1>10. \A x \in Node : x \notin Range(s) /\ x # n => refs'[x] = refs[x]
  BY <1>5, <1>7, <1>9
<1>11. \A k : Returned(k) = n
  BY <1>4 DEF Returned
<1>12. \A x \in Node : permanent'[x] = (IF x = n THEN FALSE ELSE permanent[x])
  BY <1>2, <1>5
<1>13. \A x \in Node : args'[x] = (IF x = n THEN s ELSE args[x])
  BY <1>2, <1>5
<1>14. Grown(n, s, l)
  BY <1>2, <1>4, <1>6, <1>7, <1>12, <1>13, Zenon DEF Grown
<1> QED
  BY <1>1, <1>2, <1>10, <1>11, <1>14

\* Nothing is taken and the Decs that are started reclaim nothing yet.
LEMMA QuietWork ==
  ASSUME IInv, work = <<>>, UNCHANGED <<garbage_k, mallocd>>,
         \A x \in Node : AuxOf(x) \notin Range(work')
  PROVE  (\A x \in Node : Live(x)' <=> Live(x)) /\ Acquired = {} /\ \A k : Returned(k) = k
<1>1. \A x \in Node : AuxOf(x) \notin Range(work)
  BY PoolOnce
<1> QED
  BY <1>1, LiveSame DEF Returned

\* Decs alone reclaim nothing.
LEMMA NoAux ==
  /\ \A x, y : AuxOf(x) \notin Range(<<DecOf(y)>>)
  /\ \A x : AuxOf(x) \notin Range(<<>>)
  /\ \A s \in Seq(Node) : \A x : AuxOf(x) \notin Range(DecEach(s))
<1>1. \A x, y : AuxOf(x) \notin Range(<<DecOf(y)>>)
  BY PendingDistinct DEF Range
<1>2. \A x : AuxOf(x) \notin Range(<<>>)
  BY DEF Range
<1>3. ASSUME NEW s \in Seq(Node) PROVE \A x : AuxOf(x) \notin Range(DecEach(s))
  BY PendingDistinct DEF Range, DecEach
<1> QED
  BY <1>1, <1>2, <1>3

\* k_add_front_arg.
LEMMA AddPost ==
  ASSUME IInv, NEW k, NEW v, K_add_front_arg(k, v), label' = label, panicked' = "no"
  PROVE  /\ Edited(k, <<v>> \o args[k]) /\ work' = <<>> /\ v \in Node /\ refs[k] = 1
         /\ \A x \in Node \ {v} : refs'[x] = refs[x]
<1>1. work = <<>> /\ panicked = "no" /\ Live(k) /\ Live(v) /\ refs[k] = 1
  BY DEF K_add_front_arg, Idle
<1>2. k \in Node /\ v \in Node /\ TypeOK
  BY <1>1, LiveIsNode DEF IInv
<1>3. /\ args' = [args EXCEPT ![k] = <<v>> \o @] /\ refs' = [refs EXCEPT ![v] = @ + 1]
      /\ UNCHANGED <<permanent, garbage_k, mallocd, root, work, panicked>>
  <2>1. ~ Stop("no room")
    BY <1>1 DEF Stop
  <2> QED
    BY <2>1 DEF K_add_front_arg
<1>4. \A x \in Node : AuxOf(x) \notin Range(work')
  BY <1>1, <1>3, NoAux
<1>5. \A x \in Node : Live(x)' <=> Live(x)
  BY <1>1, <1>3, <1>4, QuietWork
<1>6. <<v>> \o args[k] \in Seq(Node)
  <2>1. <<v>> \in Seq(Node) /\ args[k] \in Seq(Node)
    BY <1>2 DEF TypeOK
  <2> QED
    BY <2>1, ConcatProperties
<1> DEFINE s == <<v>> \o args[k]
<1>7. \A x \in Node : args'[x] = IF x = k THEN s ELSE args[x]
  BY <1>2, <1>3 DEF TypeOK
<1> HIDE DEF s
<1>8. \A x \in Node \ {v} : refs'[x] = refs[x]
  BY <1>2, <1>3 DEF TypeOK
<1>9. Edited(k, s)
  BY <1>2, <1>3, <1>5, <1>6, <1>7 DEF Edited, s
<1> QED
  BY <1>1, <1>2, <1>3, <1>8, <1>9 DEF s

\* k_set_arg.
LEMMA SetPost ==
  ASSUME IInv, NEW k, NEW i, NEW v, K_set_arg(k, i, v), label' = label
  PROVE  /\ Edited(k, [args[k] EXCEPT ![i] = v]) /\ i \in DOMAIN args[k]
         /\ v \in Node /\ refs[k] = 1
<1>1. work = <<>> /\ panicked = "no" /\ Live(k) /\ Live(v) /\ refs[k] = 1 /\ i \in DOMAIN args[k]
  BY DEF K_set_arg, Idle
<1>2. k \in Node /\ v \in Node /\ TypeOK
  BY <1>1, LiveIsNode DEF IInv
<1> DEFINE s == [args[k] EXCEPT ![i] = v]
<1>3. /\ args' = [args EXCEPT ![k] = s] /\ work' = <<DecOf(args[k][i])>>
      /\ UNCHANGED <<permanent, garbage_k, mallocd, root, panicked>>
  BY DEF K_set_arg
<1>4. \A x \in Node : AuxOf(x) \notin Range(work')
  BY <1>3, NoAux
<1>5. \A x \in Node : Live(x)' <=> Live(x)
  BY <1>1, <1>3, <1>4, QuietWork
<1>6. s \in Seq(Node)
  BY <1>1, <1>2, OverwriteOcc
<1> HIDE DEF s
<1>7. \A x \in Node : args'[x] = IF x = k THEN s ELSE args[x]
  BY <1>2, <1>3 DEF TypeOK
<1>9. Edited(k, s)
  BY <1>2, <1>3, <1>5, <1>6, <1>7 DEF Edited
<1> QED
  BY <1>1, <1>2, <1>9 DEF s

\* A copy that fails stops the program.
LEMMA NoCopyStops ==
  ASSUME panicked' = "no", NEW k, NEW c
  PROVE  ~ CopyStops(k, c)
<1>1. ~ Stop("outstanding") /\ ~ Stop("assert")
  BY DEF Stop
<1> QED
  BY <1>1 DEF CopyStops

\* updateTrimArgs without the first argument.
LEMMA TrimPost ==
  ASSUME IInv, NEW k, UpdateTrimArgs(k, 1, Len(args[k])), Labelled(label[k]), panicked' = "no"
  PROVE  LET b == SubSeq(args[k], 2, Len(args[k])) IN
         /\ k \in Node /\ Len(args[k]) >= 1 /\ Len(b) = Len(args[k]) - 1
         /\ \A i \in 1..Len(b) : b[i] = args[k][i + 1]
         /\ \/ \E n \in Node : Grown(n, b, label[k]) /\ Returned(k) = n
            \/ Edited(k, b) /\ Returned(k) = k /\ ~ Shared(k)
         /\ \A x \in Node : refs[x] = 0 => refs'[x] = 0
<1> DEFINE b == SubSeq(args[k], 2, Len(args[k]))
           d == SubSeq(args[k], 1, 1) \o SubSeq(args[k], Len(args[k]) + 1, Len(args[k]))
<1>1. work = <<>> /\ panicked = "no" /\ Live(k) /\ 1 <= Len(args[k])
  BY DEF UpdateTrimArgs, Idle
<1>2. k \in Node /\ TypeOK /\ args[k] \in Seq(Node) /\ refs \in [Node -> Int]
  BY <1>1, LiveIsNode DEF IInv, TypeOK
<1>3. /\ b \in Seq(Node) /\ Len(b) = Len(args[k]) - 1
      /\ \A i \in 1..Len(b) : b[i] = args[k][i + 1]
  BY <1>1, <1>2
<1>4. ASSUME NEW x, Occ(args[k], x) = 0 PROVE Occ(b, x) = 0
  <2>1. 1 \in 0..Len(args[k]) /\ Len(args[k]) \in 1..Len(args[k])
    BY <1>1, <1>2
  <2>2. ASSUME NEW q \in Seq(Node), 1 \in 0..Len(q), Len(q) \in 1..Len(q), Occ(q, x) = 0
        PROVE  Occ(SubSeq(q, 1 + 1, Len(q)), x) = 0
    BY <2>2, Stretch
  <2>3. Occ(SubSeq(args[k], 1 + 1, Len(args[k])), x) = 0
    BY <1>2, <1>4, <2>1, <2>2
  <2> QED
    BY <2>3
<1> DEFINE e == SubSeq(args[k], 1 + 1, Len(args[k]))
<1>a. ~ CopyStops(k, 1)
  BY NoCopyStops
<1>5. \/ \E n \in Node :
           /\ CanAcquire(garbage_k, mallocd, n)
           /\ garbage_k' = Popped(garbage_k) /\ mallocd' = mallocd \cup {n}
           /\ refs' = [Bump(refs, e) EXCEPT ![n] = 0]
           /\ IntoCopy(n, e, POS_FIRST + 1)
           /\ UNCHANGED <<root, work, panicked>>
      \/ /\ ~ Shared(k) /\ args' = [args EXCEPT ![k] = e] /\ work' = DecEach(d)
         /\ UNCHANGED <<refs, permanent, garbage_k, mallocd, root, panicked>>
  BY <1>a, Zenon DEF UpdateTrimArgs
<1>6. e = b
  OBVIOUS
<1> HIDE DEF e
<1> HIDE DEF b
<1>7. CASE \E n \in Node :
           /\ CanAcquire(garbage_k, mallocd, n)
           /\ garbage_k' = Popped(garbage_k) /\ mallocd' = mallocd \cup {n}
           /\ refs' = [Bump(refs, e) EXCEPT ![n] = 0]
           /\ IntoCopy(n, e, POS_FIRST + 1)
           /\ UNCHANGED <<root, work, panicked>>
  <2> PICK n \in Node :
           /\ CanAcquire(garbage_k, mallocd, n)
           /\ garbage_k' = Popped(garbage_k) /\ mallocd' = mallocd \cup {n}
           /\ refs' = [Bump(refs, e) EXCEPT ![n] = 0]
           /\ IntoCopy(n, e, POS_FIRST + 1)
           /\ UNCHANGED <<root, work, panicked>>
    BY <1>7
  <2>1. \A x \in Node : AuxOf(x) \notin Range(work')
    BY <1>1, NoAux
  <2>2. Dead(n) /\ (\A x \in Node : Live(x)' <=> Live(x) \/ x = n) /\ Acquired = {n}
    BY <1>1, <2>1, LiveGrown
  <2>3. \A x \in Node : label'[x] = IF x = n THEN label[k] ELSE label[x]
    BY <2>2 DEF Labelled
  <2>4. Returned(k) = n
    BY <2>2 DEF Returned
  <2>5. /\ \A x \in Node : permanent'[x] = (IF x = n THEN FALSE ELSE permanent[x])
        /\ \A x \in Node : args'[x] = (IF x = n THEN b ELSE args[x])
    BY <1>2, <1>6 DEF IntoCopy, TypeOK
  <2>6. refs'[n] = 0 /\ \A x \in Node : x # n => refs'[x] = refs[x] + Occ(b, x)
    BY <1>2, <1>6 DEF Bump
  <2>7. \A x \in Node : refs[x] = 0 => refs'[x] = 0
    <3> SUFFICES ASSUME NEW x \in Node, refs[x] = 0, x # n PROVE refs'[x] = 0
      BY <2>6
    <3>1. Occ(b, x) = 0
      BY <1>2, <1>4, Unlisted
    <3> QED
      BY <2>6, <3>1
  <2>8. Grown(n, b, label[k])
    BY <1>3, <2>2, <2>3, <2>5, <2>6, Zenon DEF Grown
  <2> QED
    BY <1>1, <1>2, <1>3, <2>4, <2>7, <2>8 DEF b
<1>8. CASE /\ ~ Shared(k) /\ args' = [args EXCEPT ![k] = e] /\ work' = DecEach(d)
           /\ UNCHANGED <<refs, permanent, garbage_k, mallocd, root, panicked>>
  <2>1. d \in Seq(Node)
    <3>1. SubSeq(args[k], 1, 1) \in Seq(Node) /\ SubSeq(args[k], Len(args[k]) + 1, Len(args[k])) \in Seq(Node)
      BY <1>1, <1>2
    <3> QED
      BY <3>1, ConcatProperties
  <2> HIDE DEF d
  <2>2. \A x \in Node : AuxOf(x) \notin Range(work')
    BY <1>8, <2>1, NoAux
  <2>3. (\A x \in Node : Live(x)' <=> Live(x)) /\ Acquired = {} /\ Returned(k) = k
    BY <1>1, <1>8, <2>2, QuietWork
  <2>4. \A x \in Node : label'[x] = label[x]
    BY <2>3 DEF Labelled
  <2>5. \A x \in Node : args'[x] = (IF x = k THEN b ELSE args[x])
    BY <1>2, <1>6, <1>8 DEF TypeOK
  <2>6. Edited(k, b)
    BY <1>2, <1>3, <1>8, <2>3, <2>4, <2>5 DEF Edited
  <2> QED
    BY <1>1, <1>2, <1>3, <1>8, <2>3, <2>6 DEF b
<1> QED
  BY <1>5, <1>7, <1>8

\* k_replace_arg.
LEMMA ReplacePost ==
  ASSUME IInv, NEW k, NEW i, NEW v, K_replace_arg(k, i, v), Labelled(label[k]), panicked' = "no"
  PROVE  LET b == [args[k] EXCEPT ![i] = v] IN
         /\ k \in Node /\ v \in Node /\ Len(b) = Len(args[k]) /\ i \in DOMAIN args[k]
         /\ \/ \E n \in Node : Grown(n, b, label[k]) /\ Returned(k) = n
            \/ Edited(k, b) /\ Returned(k) = k /\ ~ Shared(k)
<1> DEFINE b == [args[k] EXCEPT ![i] = v]
<1>1. work = <<>> /\ panicked = "no" /\ Live(k) /\ Live(v) /\ i \in DOMAIN args[k]
  BY DEF K_replace_arg, Idle
<1>2. k \in Node /\ v \in Node /\ TypeOK /\ args[k] \in Seq(Node) /\ refs \in [Node -> Int]
  <2>1. TypeOK
    BY DEF IInv
  <2>2. k \in Node /\ v \in Node
    BY <1>1, <2>1, LiveIsNode
  <2> QED
    BY <2>1, <2>2 DEF TypeOK
<1>3. b \in Seq(Node) /\ Len(b) = Len(args[k])
  BY <1>1, <1>2, OverwriteOcc
<1>a. ~ CopyStops(k, 1)
  BY NoCopyStops
<1>5. \/ \E n \in Node :
           /\ CanAcquire(garbage_k, mallocd, n)
           /\ garbage_k' = Popped(garbage_k) /\ mallocd' = mallocd \cup {n}
           /\ refs' = [Bump(Bump(refs, args[k]), <<v>>) EXCEPT ![n] = 0]
           /\ IntoCopy(n, b, POS_FIRST)
           /\ work' = <<DecOf(args[k][i])>> /\ UNCHANGED <<root, panicked>>
      \/ /\ ~ Shared(k) /\ args' = [args EXCEPT ![k] = b] /\ work' = <<DecOf(args[k][i])>>
         /\ UNCHANGED <<permanent, garbage_k, mallocd, root, panicked>>
  <2>1. \/ /\ \E n \in Node :
                /\ CanAcquire(garbage_k, mallocd, n)
                /\ garbage_k' = Popped(garbage_k)
                /\ mallocd' = mallocd \cup {n}
                /\ refs' = [Bump(Bump(refs, args[k]), <<v>>) EXCEPT ![n] = 0]
                /\ IntoCopy(n, b, POS_FIRST)
           /\ work' = <<DecOf(args[k][i])>>
           /\ UNCHANGED <<root, panicked>>
        \/ /\ ~ Shared(k) /\ args' = [args EXCEPT ![k] = b]
           /\ refs' = [refs EXCEPT ![v] = @ + 1]
           /\ work' = <<DecOf(args[k][i])>>
           /\ UNCHANGED <<pos_first, permanent, garbage_k, mallocd, root, panicked>>
    BY <1>a, Zenon DEF K_replace_arg
  <2> HIDE DEF b
  <2>2. UNCHANGED <<pos_first, permanent, garbage_k, mallocd, root, panicked>>
          => UNCHANGED <<permanent, garbage_k, mallocd, root, panicked>>
    OBVIOUS
  <2> QED
    BY <2>1, <2>2, Zenon
<1> DEFINE e == b
<1>6. e = b
  OBVIOUS
<1> HIDE DEF b, e
<1>7. CASE \E n \in Node :
           /\ CanAcquire(garbage_k, mallocd, n)
           /\ garbage_k' = Popped(garbage_k) /\ mallocd' = mallocd \cup {n}
           /\ refs' = [Bump(Bump(refs, args[k]), <<v>>) EXCEPT ![n] = 0]
           /\ IntoCopy(n, b, POS_FIRST)
           /\ work' = <<DecOf(args[k][i])>> /\ UNCHANGED <<root, panicked>>
  <2> PICK n \in Node :
           /\ CanAcquire(garbage_k, mallocd, n)
           /\ garbage_k' = Popped(garbage_k) /\ mallocd' = mallocd \cup {n}
           /\ refs' = [Bump(Bump(refs, args[k]), <<v>>) EXCEPT ![n] = 0]
           /\ IntoCopy(n, b, POS_FIRST)
           /\ work' = <<DecOf(args[k][i])>> /\ UNCHANGED <<root, panicked>>
    BY <1>7
  <2>1. \A x \in Node : AuxOf(x) \notin Range(work')
    BY <1>1, NoAux
  <2>2. Dead(n) /\ (\A x \in Node : Live(x)' <=> Live(x) \/ x = n) /\ Acquired = {n}
    BY <1>1, <2>1, LiveGrown
  <2>3. \A x \in Node : label'[x] = IF x = n THEN label[k] ELSE label[x]
    BY <2>2 DEF Labelled
  <2>4. Returned(k) = n
    BY <2>2 DEF Returned
  <2>5. /\ \A x \in Node : permanent'[x] = (IF x = n THEN FALSE ELSE permanent[x])
        /\ \A x \in Node : args'[x] = (IF x = n THEN b ELSE args[x])
    BY <1>2 DEF IntoCopy, TypeOK
  <2>6. refs'[n] = 0
    BY <1>2 DEF Bump
  <2>8. Grown(n, b, label[k])
    BY <1>3, <2>2, <2>3, <2>5, <2>6, Zenon DEF Grown
  <2> QED
    BY <1>1, <1>2, <1>3, <2>4, <2>8 DEF b
<1>8. CASE /\ ~ Shared(k) /\ args' = [args EXCEPT ![k] = b] /\ work' = <<DecOf(args[k][i])>>
           /\ UNCHANGED <<permanent, garbage_k, mallocd, root, panicked>>
  <2>2. \A x \in Node : AuxOf(x) \notin Range(work')
    BY <1>8, NoAux
  <2>3. (\A x \in Node : Live(x)' <=> Live(x)) /\ Acquired = {} /\ Returned(k) = k
    BY <1>1, <1>8, <2>2, QuietWork
  <2>4. \A x \in Node : label'[x] = label[x]
    BY <2>3 DEF Labelled
  <2>5. \A x \in Node : args'[x] = (IF x = k THEN b ELSE args[x])
    BY <1>2, <1>8 DEF TypeOK
  <2>6. Edited(k, b)
    BY <1>2, <1>3, <1>8, <2>3, <2>4, <2>5 DEF Edited
  <2> QED
    BY <1>1, <1>2, <1>3, <1>8, <2>3, <2>6 DEF b
<1> QED
  BY <1>5, <1>7, <1>8

\* An owning variable is set or cleared.
LEMMA OwnPost ==
  ASSUME IInv, NEW r \in Root, NEW k, Own(r, k), label' = label
  PROVE  /\ k \in Node /\ root' = [root EXCEPT ![r] = k] /\ args' = args /\ panicked' = panicked
         /\ label' = label /\ permanent' = permanent
         /\ \A x \in Node : Live(x)' <=> Live(x)
         /\ \A x \in Node \ {k} : refs'[x] = refs[x]
<1>1. work = <<>> /\ panicked = "no" /\ Live(k)
  BY DEF Own, Idle
<1>2. k \in Node /\ TypeOK
  BY <1>1, LiveIsNode DEF IInv
<1>3. /\ root' = [root EXCEPT ![r] = k] /\ refs' = [refs EXCEPT ![k] = @ + 1]
      /\ UNCHANGED <<args, permanent, garbage_k, mallocd, panicked>>
      /\ work' = <<>> \/ work' = <<DecOf(root[r])>>
  BY DEF Own
<1>4. \A x \in Node : AuxOf(x) \notin Range(work')
  BY <1>3, NoAux
<1>5. \A x \in Node : Live(x)' <=> Live(x)
  BY <1>1, <1>3, <1>4, QuietWork
<1> QED
  BY <1>2, <1>3, <1>5 DEF TypeOK

\* A cell, a map entry or oldK gives up what it owns.
LEMMA DisownPost ==
  ASSUME IInv, NEW r \in Root, Disown(r), label' = label
  PROVE  /\ root' = [root EXCEPT ![r] = NoNode] /\ args' = args /\ panicked' = panicked
         /\ label' = label /\ permanent' = permanent
         /\ \A x \in Node : Live(x)' <=> Live(x)
<1>1. work = <<>> /\ panicked = "no"
  BY DEF Disown, Idle
<1>3. /\ root' = [root EXCEPT ![r] = NoNode] /\ work' = <<DecOf(root[r])>>
      /\ UNCHANGED <<args, permanent, garbage_k, mallocd, panicked>>
  BY DEF Disown
<1>4. \A x \in Node : AuxOf(x) \notin Range(work')
  BY <1>3, NoAux
<1>5. \A x \in Node : Live(x)' <=> Live(x)
  BY <1>1, <1>3, <1>4, QuietWork
<1> QED
  BY <1>3, <1>5

\* What stays as it is while a cascade runs: what is owned, permanent, not yet
\* counted or still an argument.
LEMMA CascadePost ==
  ASSUME IInv, Cascade, label' = label, NEW x \in Node, Live(x),
         \/ permanent[x] \/ refs[x] = 0
         \/ \E r \in Root : root[r] = x
         \/ \E k \in Node : x \in Range(args[k])
  PROVE  /\ Live(x)' /\ args'[x] = args[x] /\ label'[x] = label[x] /\ permanent'[x] = permanent[x]
         /\ refs[x] = 0 => refs'[x] = 0
         /\ root' = root
<1>1. TypeOK
  BY DEF IInv
<1>2. CASE DecStep
  <2> DEFINE k == Head(work).k
  <2>1. /\ work # <<>> /\ Head(work).op = "Dec"
        /\ refs' = [refs EXCEPT ![k] = @ - 1]
        /\ \/ Dies(k) /\ work' = Release(k) \o Tail(work) /\ args' = [args EXCEPT ![k] = <<>>]
           \/ ~ Dies(k) /\ work' = Tail(work) /\ args' = args
        /\ UNCHANGED <<permanent, garbage_k, mallocd, root>>
    BY <1>2 DEF DecStep
  <2>2. /\ k \in Node /\ Tail(work) \in Seq(Pending) /\ work \in Seq(Pending)
        /\ \A y : Occ(work, DecOf(y)) = Occ(Tail(work), DecOf(y)) + IF y = k THEN 1 ELSE 0
        /\ \A y : Occ(work, AuxOf(y)) = Occ(Tail(work), AuxOf(y))
    BY <1>1, <2>1, WorkSplit DEF TypeOK
  <2>3. refs[k] # 0
    BY <2>1, PendingLive
  <2> HIDE DEF k
  <2>4. ASSUME Dies(k) PROVE x # k
    <3> SUFFICES ASSUME x = k PROVE FALSE
      OBVIOUS
    <3>1. refs[x] = 1 /\ ~ permanent[x]
      BY <2>4 DEF Dies
    <3>2. Occ(work, DecOf(x)) # 0 /\ Occ(work, DecOf(x)) \in Nat
      <4>1. Occ(Tail(work), DecOf(x)) \in Nat
        BY <2>2, OccNat
      <4> QED
        BY <2>2, <4>1
    <3> DEFINE a == Cardinality(SlotsOf(args, x))
               o == Cardinality(OwnersOf(root, x))
               w == Occ(work, DecOf(x))
    <3>3. \A y \in Node : Len(args[y]) <= MAX_GARBAGE_ARG_LEN
      BY Window DEF IInv
    <3>4. a \in Nat
      BY <1>1, <3>3, SlotsAt DEF TypeOK
    <3>5. IsFiniteSet(OwnersOf(root, x))
      BY HeapAssumption, FS_Subset DEF HeapAssumption, OwnersOf
    <3>6. o \in Nat
      BY <3>5, FS_CardinalityType
    <3>7. refs[x] = a + o + w
      BY DEF IInv, RefCountsExact, Holders
    <3>8. a = 0 /\ o = 0
      <4> HIDE DEF a, o, w
      <4> QED
        BY <3>1, <3>2, <3>4, <3>6, <3>7 DEF w
    <3>9. OwnersOf(root, x) = {}
      BY <3>5, <3>8, FS_EmptySet
    <3>10. \A y \in Node : x \notin Range(args[y])
      BY <1>1, <3>3, <3>8, NoSlots DEF TypeOK
    <3> QED
      BY <3>1, <3>9, <3>10 DEF OwnersOf
  <2>5. AuxOf(x) \in Range(work') => AuxOf(x) \in Range(work)
    <3>1. CASE ~ Dies(k)
      <4>1. Occ(work', AuxOf(x)) = Occ(work, AuxOf(x)) /\ work' \in Seq(Pending)
        BY <2>1, <2>2, <3>1
      <4> QED
        BY <2>2, <4>1, OccNat
    <3>2. CASE Dies(k)
      <4> DEFINE w == Append(DecEach(args[k]), AuxOf(k))
      <4>1. /\ w \in Seq(Pending) /\ Occ(w, AuxOf(x)) = 0
        BY <1>1, <2>2, <2>4, <3>2, DisposeWork DEF TypeOK
      <4>2. work' = w \o Tail(work)
        BY <2>1, <3>2 DEF Release
      <4> HIDE DEF w
      <4> DEFINE t == Tail(work)
      <4>3. work' \in Seq(Pending) /\ Occ(work', AuxOf(x)) = Occ(w, AuxOf(x)) + Occ(t, AuxOf(x))
        <5>1. t \in Seq(Pending) /\ work' = w \o t
          BY <2>2, <4>2
        <5> HIDE DEF t
        <5> QED
          BY <4>1, <5>1, OccConcat, ConcatProperties
      <4>4. Occ(Tail(work), AuxOf(x)) \in Nat
        BY <2>2, OccNat
      <4>5. Occ(work', AuxOf(x)) = Occ(work, AuxOf(x))
        BY <2>2, <4>1, <4>3, <4>4
      <4> QED
        BY <2>2, <4>3, <4>5, OccNat
    <3> QED
      BY <3>1, <3>2
  <2>6. Live(x)'
    BY <2>1, <2>5 DEF Live, Dead
  <2>7. args'[x] = args[x]
    BY <1>1, <2>1, <2>2, <2>4 DEF TypeOK
  <2>8. refs[x] = 0 => refs'[x] = 0
    BY <1>1, <2>1, <2>2, <2>3 DEF TypeOK
  <2> QED
    BY <2>1, <2>6, <2>7, <2>8
<1>3. CASE AuxStep
  <2>1. CASE Stop("free_args")
    BY <2>1 DEF Stop, Live, Dead
  <2>2. CASE /\ garbage_k' = Append(garbage_k, Head(work).k) /\ work' = Tail(work)
             /\ UNCHANGED <<refs, args, permanent, mallocd, root>>
    <3>1. /\ work # <<>> /\ Head(work).op = "dispose_k_aux"
          /\ work \in Seq(Pending) /\ garbage_k \in Seq(Node)
      BY <1>1, <1>3 DEF AuxStep, TypeOK
    <3> DEFINE k == Head(work).k
    <3>2. k \in Node /\ \A y : Occ(work, AuxOf(y)) = Occ(Tail(work), AuxOf(y)) + IF y = k THEN 1 ELSE 0
      BY <3>1, WorkSplit
    <3>3. Tail(work) \in Seq(Pending)
      BY <3>1, WorkSplit
    <3> HIDE DEF k
    <3>4. \A y : Occ(Tail(work), AuxOf(y)) \in Nat
      BY <3>3, OccNat
    <3>5. AuxOf(x) \notin Range(work)
      BY DEF Live, Dead
    <3>6. Occ(work, AuxOf(x)) = 0
      BY <3>1, <3>5, OccNat
    <3>7. x # k /\ Occ(Tail(work), AuxOf(x)) = 0
      BY <3>2, <3>4, <3>6
    <3>8. AuxOf(x) \notin Range(work')
      BY <2>2, <3>3, <3>7, OccNat
    <3>9. x \notin Range(garbage_k')
      <4>1. x \notin Range(garbage_k)
        BY DEF Live, Dead
      <4>2. Range(Append(garbage_k, k)) \subseteq Range(garbage_k) \cup {k}
        BY <3>1, <3>2, AppendProperties DEF Range
      <4> QED
        BY <2>2, <3>7, <4>1, <4>2 DEF k
    <3>10. Live(x)'
      BY <2>2, <3>8, <3>9 DEF Live, Dead
    <3> QED
      BY <2>2, <3>10
  <2> QED
    BY <1>3, <2>1, <2>2 DEF AuxStep
<1> QED
  BY <1>2, <1>3 DEF Cascade

\* A cascade brings nothing to life, and takes arguments from what it reclaims.
LEMMA CascadeGrowsNothing ==
  ASSUME IInv, Cascade, NEW x \in Node, Live(x)'
  PROVE  Live(x) /\ args'[x] = args[x]
<1>1. TypeOK
  BY DEF IInv
<1>2. CASE DecStep
  <2> DEFINE k == Head(work).k
  <2>1. /\ work # <<>> /\ Head(work).op = "Dec"
        /\ \/ Dies(k) /\ work' = Release(k) \o Tail(work) /\ args' = [args EXCEPT ![k] = <<>>]
           \/ ~ Dies(k) /\ work' = Tail(work) /\ args' = args
        /\ UNCHANGED <<garbage_k, mallocd>>
    BY <1>2 DEF DecStep
  <2>2. /\ k \in Node /\ Tail(work) \in Seq(Pending) /\ work \in Seq(Pending)
        /\ Occ(work, AuxOf(x)) = Occ(Tail(work), AuxOf(x))
    BY <1>1, <2>1, WorkSplit DEF TypeOK
  <2> HIDE DEF k
  <2>3. AuxOf(x) \in Range(work) => AuxOf(x) \in Range(Tail(work))
    BY <2>2, OccNat
  <2>4. /\ AuxOf(x) \in Range(Tail(work)) => AuxOf(x) \in Range(work')
        /\ Dies(k) /\ x = k => AuxOf(x) \in Range(work')
    <3>1. CASE ~ Dies(k)
      BY <2>1, <3>1
    <3>2. CASE Dies(k)
      <4> DEFINE w == Append(DecEach(args[k]), AuxOf(k))
                 t == Tail(work)
      <4>1. w \in Seq(Pending) /\ Occ(w, AuxOf(x)) = IF x = k THEN 1 ELSE 0
        BY <1>1, <2>2, DisposeWork DEF TypeOK
      <4>2. work' = w \o t /\ t \in Seq(Pending)
        BY <2>1, <2>2, <3>2 DEF Release
      <4>3. /\ work' \in Seq(Pending)
            /\ Occ(work', AuxOf(x)) = Occ(w, AuxOf(x)) + Occ(t, AuxOf(x))
        <5> HIDE DEF w, t
        <5> QED
          BY <4>1, <4>2, OccConcat, ConcatProperties
      <4>4. /\ Occ(t, AuxOf(x)) \in Nat
            /\ Occ(t, AuxOf(x)) = 0 <=> AuxOf(x) \notin Range(t)
            /\ Occ(work', AuxOf(x)) = 0 <=> AuxOf(x) \notin Range(work')
        <5> HIDE DEF t
        <5> QED
          BY <4>2, <4>3, OccNat
      <4> HIDE DEF w
      <4> QED
        BY <4>1, <4>3, <4>4
    <3> QED
      BY <3>1, <3>2
  <2>5. Live(x) /\ ~ (Dies(k) /\ x = k)
    BY <2>1, <2>3, <2>4 DEF Live, Dead
  <2> QED
    BY <1>1, <2>1, <2>2, <2>5 DEF TypeOK
<1>3. CASE AuxStep
  <2>1. CASE Stop("free_args")
    BY <2>1 DEF Stop, Live, Dead
  <2>2. CASE /\ garbage_k' = Append(garbage_k, Head(work).k) /\ work' = Tail(work)
             /\ UNCHANGED <<refs, args, permanent, mallocd, root>>
    <3>1. /\ work # <<>> /\ Head(work).op = "dispose_k_aux"
          /\ work \in Seq(Pending) /\ garbage_k \in Seq(Node)
      BY <1>1, <1>3 DEF AuxStep, TypeOK
    <3> DEFINE k == Head(work).k
    <3>2. /\ k \in Node /\ Tail(work) \in Seq(Pending)
          /\ Occ(work, AuxOf(x)) = Occ(Tail(work), AuxOf(x)) + IF x = k THEN 1 ELSE 0
      BY <3>1, WorkSplit
    <3> HIDE DEF k
    <3>3. garbage_k' = Append(garbage_k, k)
      BY <2>2 DEF k
    <3>4. args' = args /\ Range(garbage_k') = Range(garbage_k) \cup {k}
      <4> DEFINE g == garbage_k
                 h == Append(g, k)
      <4>1. /\ DOMAIN g = 1..Len(g) /\ DOMAIN h = 1..Len(h) /\ Len(g) \in Nat
            /\ Len(h) = Len(g) + 1 /\ h[Len(h)] = k /\ \A i \in 1..Len(g) : h[i] = g[i]
        <5> HIDE DEF g
        <5>1. g \in Seq(Node)
          BY <3>1 DEF g
        <5> QED
          BY <3>2, <5>1, AppendProperties, LenProperties
      <4>2. Range(h) = Range(g) \cup {k}
        <5> HIDE DEF g, h
        <5> QED
          BY <4>1 DEF Range
      <4> QED
        BY <2>2, <3>3, <4>2
    <3>5. AuxOf(x) \in Range(work) => AuxOf(x) \in Range(work') \/ x = k
      <4>1. /\ Occ(work, AuxOf(x)) = 0 <=> AuxOf(x) \notin Range(work)
            /\ Occ(Tail(work), AuxOf(x)) = 0 <=> AuxOf(x) \notin Range(Tail(work))
        BY <3>1, <3>2, OccNat
      <4> QED
        BY <2>2, <3>2, <4>1
    <3> QED
      BY <2>2, <3>4, <3>5 DEF Live, Dead
  <2> QED
    BY <1>3, <2>1, <2>2 DEF AuxStep
<1> QED
  BY <1>2, <1>3 DEF Cascade

-----------------------------------------------------------------------------
(* Where the calls have got to.                                            *)

\* The positions in built of the constants the handlers use.
Constant == {1, 3, 5, 7, 9, 10}
ConstantsHeld == \A c \in Constant : c \in DOMAIN built /\ Live(built[c]) /\ permanent[built[c]]
\* Live, and no Dec reaches it.
Calm(n) == Live(n) /\ (permanent[n] \/ refs[n] = 0)
Listed(n) == n \in Range(Cell)

\* Constants and programs are built: a constant is permanent, or will be made so.
LoadCall(d) == \/ d.op = "k_make_permanent" /\ d.at \in Constant
               \/ d.op = "build" /\ d.args \in Seq(Nat) /\ Suits(d.label, Len(d.args))
LoadCalls(c) == \E S : c \in Seq(S) /\ \A d \in S : LoadCall(d)
Loading ==
  /\ phase = "load" /\ work = <<>> /\ LoadCalls(calls)
  /\ built # <<>> => Calm(Last(built))
  /\ \A p \in Constant : \/ Permanent(p) \in Range(calls)
                         \/ p \in DOMAIN built /\ Live(built[p]) /\ permanent[built[p]]

\* The cell of a run is made.
Making1(v) == calls = <<New("_kra", <<>>), MakeHolder, Add_front(v)>> /\ work = <<>> /\ Calm(v)
Making2(v) == /\ calls = <<MakeHolder, Add_front(v)>> /\ work = <<>> /\ Calm(v)
              /\ Fresh(ret) /\ label[ret] = "_kra" /\ ret # v
HolderOK == root[Cells[run]] # NoNode /\ label[holder] = "_kra"

\* Calls that read nothing a handler has in hand.
LastCall(d) == /\ d.op \in {"computation_remove_head", "state_cleanup", "panic"}
               /\ d.op = "panic" => d.why # "load"
LastCalls(c) == \E S : c \in Seq(S) /\ \A d \in S : LastCall(d)

\* handleValue: n, under the head, takes v back; the head goes; a copy of n takes
\* its place.
Cools(c, n, i, v) ==
  /\ c = <<Replace_arg(n, i, v), Remove_head, Follow("newTop", n)>>
  /\ work = <<>> /\ 2 \in DOMAIN Cell /\ n = Cell[2] /\ Live(v)
Drops(c, n) == /\ c = <<Remove_head, Follow("newTop", n)>>
               /\ 2 \in DOMAIN Cell /\ n = Cell[2] /\ (ret = n \/ Fresh(ret))
Renews(c, n) == c = <<Follow("newTop", n)>> /\ Listed(n) /\ (ret = n \/ Fresh(ret))

\* The term at the top becomes v, for which the next handler is called.
Next_handler(h, v) == h = "handleValue" \/ (h = "handleIf" /\ label[Of(v)] = "ifThenElse")
Becoming(c, v, h) == /\ c = <<Set_elem(1, v), Follow(h, v)>>
                     /\ work = <<>> /\ Live(Of(v)) /\ Next_handler(h, v)
Became(c, v, h) == /\ c = <<Follow(h, v)>>
                   /\ 1 \in DOMAIN Cell /\ Of(v) = Cell[1] /\ Next_handler(h, v)
Numbers(c, l) ==
  /\ c = <<New(l, <<>>), New("#int", <<Ret>>), Set_elem(1, Ret), Follow("handleValue", Ret)>>
  /\ work = <<>> /\ l \in DOMAIN Num
Wraps(c) == /\ c = <<New("#int", <<Ret>>), Set_elem(1, Ret), Follow("handleValue", Ret)>>
            /\ work = <<>> /\ Live(ret)
Loops(c, b, n, g, s) ==
  /\ c = <<New("statements", <<b, n>>), New("ifThenElse", <<g, Ret, s>>),
           Set_elem(1, Ret), Follow("handleIf", Ret)>>
  /\ work = <<>> /\ Live(b) /\ Live(n) /\ Live(g) /\ Live(s)
Branches(c, g, s) ==
  /\ c = <<New("ifThenElse", <<g, Ret, s>>), Set_elem(1, Ret), Follow("handleIf", Ret)>>
  /\ work = <<>> /\ Live(g) /\ Live(s) /\ Live(ret)

\* The head of a term, a, comes in front of the rest of it.
Heats(c, a, n, i, h) == /\ c = <<Add_front(a), Replace_arg(n, i, h), Set_elem(2, Ret)>>
                        /\ work = <<>> /\ Live(a) /\ Listed(n) /\ Live(h)
LeavesHole(c, n, i, h) == /\ c = <<Replace_arg(n, i, h), Set_elem(2, Ret)>>
                          /\ work = <<>> /\ Listed(n) /\ Live(h)
Splits(c, a, n) == /\ c = <<Add_front(a), Trim(n), Set_elem(2, Ret)>>
                   /\ work = <<>> /\ Live(a) /\ Listed(n) /\ label[n] \notin Constructs
Trims(c, n, p) == c = <<Trim(n), Set_elem(p, Ret)>> /\ Listed(n) /\ label[n] \notin Constructs
PutsBack(c, p) == c = <<Set_elem(p, Ret)>> /\ (Listed(ret) \/ Fresh(ret))
Enters(c, a, b) == c = <<Add_front(a), Set_elem(2, b)>> /\ work = <<>> /\ Live(a) /\ Live(b)
Puts(c, p, a) == c = <<Set_elem(p, a)>> /\ a # Ret /\ work = <<>> /\ Live(a)
Adds(c, a) == c = <<Add_front(a)>> /\ Calm(a)

\* A variable gets a value.
Declares(c, x, v, n) == /\ c = <<UpdateStore(x, v), Trim(n), Set_elem(1, Ret)>>
                        /\ work = <<>> /\ Live(v) /\ Listed(n) /\ label[n] \notin Constructs
Assigns(c, x, v) == c = <<UpdateStore(x, v), Remove_head>> /\ work = <<>> /\ Live(v)

\* What is left of the calls of a handler.
Handles(c) ==
  \/ LastCalls(c)
  \/ \E n, i, v : Cools(c, n, i, v)
  \/ \E n : Drops(c, n)
  \/ \E n : Renews(c, n)
  \/ \E v, h : Becoming(c, v, h)
  \/ \E v, h : Became(c, v, h)
  \/ \E l : Numbers(c, l)
  \/ Wraps(c)
  \/ \E b, n, g, s : Loops(c, b, n, g, s)
  \/ \E g, s : Branches(c, g, s)
  \/ \E a, n, i, h : Heats(c, a, n, i, h)
  \/ \E n, i, h : LeavesHole(c, n, i, h)
  \/ \E a, n : Splits(c, a, n)
  \/ \E n, p : Trims(c, n, p)
  \/ \E p : PutsBack(c, p)
  \/ \E a, b : Enters(c, a, b)
  \/ \E p, a : Puts(c, p, a)
  \/ \E a : Adds(c, a)
  \/ \E x, v, n : Declares(c, x, v, n)
  \/ \E x, v : Assigns(c, x, v)

Working == /\ phase # "load" /\ ConstantsHeld
           /\ (\E v : Making1(v) \/ Making2(v)) \/ (HolderOK /\ Handles(calls))
Ready == built \in Seq(Node) /\ (Loading \/ Working)

\* The inductive invariant: what the calls still to be made rest on.
HandInv == /\ test \in DOMAIN Program /\ HandTypeOK
           /\ IF panicked = "no" THEN Ready ELSE OperandsStayLive

-----------------------------------------------------------------------------
(* Facts about the shapes.                                                 *)

\* The lists of calls without an operand, and what is left of them.
LEMMA LastCallsTail ==
  ASSUME NEW c, LastCalls(c), c # <<>>
  PROVE  LastCall(Head(c)) /\ LastCalls(Tail(c))
<1>1. PICK S : c \in Seq(S) /\ \A d \in S : LastCall(d)
  BY DEF LastCalls
<1>2. Head(c) \in S /\ Tail(c) \in Seq(S)
  BY <1>1, HeadTailProperties
<1> QED
  BY <1>1, <1>2 DEF LastCalls

\* And the lists that load a program.
LEMMA LoadCallsTail ==
  ASSUME NEW c, LoadCalls(c), c # <<>>
  PROVE  LoadCall(Head(c)) /\ LoadCalls(Tail(c))
<1>1. PICK S : c \in Seq(S) /\ \A d \in S : LoadCall(d)
  BY DEF LoadCalls
<1>2. Head(c) \in S /\ Tail(c) \in Seq(S)
  BY <1>1, HeadTailProperties
<1> QED
  BY <1>1, <1>2 DEF LoadCalls

\* Short lists of such calls.
LEMMA LastCallsShort ==
  /\ LastCalls(<<>>) /\ LastCalls(<<Remove_head>>)
  /\ \A w : w # "load" => LastCalls(<<Panic(w)>>)
<1>1. LastCalls(<<>>)
  <2> DEFINE S == {}
  <2>1. <<>> \in Seq(S) /\ \A d \in S : LastCall(d)
    OBVIOUS
  <2> HIDE DEF S
  <2> QED
    BY <2>1 DEF LastCalls
<1>2. ASSUME NEW a, LastCall(a) PROVE LastCalls(<<a>>)
  <2> DEFINE S == {a}
  <2>1. <<a>> \in Seq(S) /\ \A d \in S : LastCall(d)
    BY <1>2
  <2> HIDE DEF S
  <2> QED
    BY <2>1 DEF LastCalls
<1>3. LastCall(Remove_head) /\ \A w : w # "load" => LastCall(Panic(w))
  BY DEF LastCall, Remove_head, Panic
<1> QED
  BY <1>1, <1>2, <1>3

\* The operations the handlers' calls begin with.
LEMMA HeadCalls ==
  ASSUME NEW c
  PROVE  /\ \A n, i, v : Cools(c, n, i, v) => c # <<>> /\ Head(c).op = "k_replace_arg"
         /\ \A n : Drops(c, n) => c # <<>> /\ Head(c).op = "computation_remove_head"
         /\ \A n : Renews(c, n) => c # <<>> /\ Head(c).op = "newTop"
         /\ \A v, h : Becoming(c, v, h) => c # <<>> /\ Head(c).op = "computation_set_elem"
         /\ \A v, h : Became(c, v, h) => c # <<>> /\ Head(c).op \in {"handleValue", "handleIf"}
         /\ \A l : Numbers(c, l) => c # <<>> /\ Head(c).op = "k_new"
         /\ Wraps(c) => c # <<>> /\ Head(c).op = "k_new"
         /\ \A b, n, g, s : Loops(c, b, n, g, s) => c # <<>> /\ Head(c).op = "k_new"
         /\ \A g, s : Branches(c, g, s) => c # <<>> /\ Head(c).op = "k_new"
         /\ \A a, n, i, h : Heats(c, a, n, i, h) => c # <<>> /\ Head(c).op = "computation_add_front"
         /\ \A n, i, h : LeavesHole(c, n, i, h) => c # <<>> /\ Head(c).op = "k_replace_arg"
         /\ \A a, n : Splits(c, a, n) => c # <<>> /\ Head(c).op = "computation_add_front"
         /\ \A n, p : Trims(c, n, p) => c # <<>> /\ Head(c).op = "updateTrimArgs"
         /\ \A p : PutsBack(c, p) => c # <<>> /\ Head(c).op = "computation_set_elem"
         /\ \A a, b : Enters(c, a, b) => c # <<>> /\ Head(c).op = "computation_add_front"
         /\ \A p, a : Puts(c, p, a) => c # <<>> /\ Head(c).op = "computation_set_elem"
         /\ \A a : Adds(c, a) => c # <<>> /\ Head(c).op = "computation_add_front"
         /\ \A x, v, n : Declares(c, x, v, n) => c # <<>> /\ Head(c).op = "updateStore"
         /\ \A x, v : Assigns(c, x, v) => c # <<>> /\ Head(c).op = "updateStore"
<1>1. \A n, i, v : Cools(c, n, i, v) => c # <<>> /\ Head(c).op = "k_replace_arg"
  BY DEF Cools, Replace_arg
<1>2. \A n : Drops(c, n) => c # <<>> /\ Head(c).op = "computation_remove_head"
  BY DEF Drops, Remove_head
<1>3. \A n : Renews(c, n) => c # <<>> /\ Head(c).op = "newTop"
  BY DEF Renews, Follow
<1>4. \A v, h : Becoming(c, v, h) => c # <<>> /\ Head(c).op = "computation_set_elem"
  BY DEF Becoming, Set_elem
<1>5. \A v, h : Became(c, v, h) => c # <<>> /\ Head(c).op \in {"handleValue", "handleIf"}
  BY DEF Became, Follow, Next_handler
<1>6. \A l : Numbers(c, l) => c # <<>> /\ Head(c).op = "k_new"
  BY DEF Numbers, New
<1>7. Wraps(c) => c # <<>> /\ Head(c).op = "k_new"
  BY DEF Wraps, New
<1>8. \A b, n, g, s : Loops(c, b, n, g, s) => c # <<>> /\ Head(c).op = "k_new"
  BY DEF Loops, New
<1>9. \A g, s : Branches(c, g, s) => c # <<>> /\ Head(c).op = "k_new"
  BY DEF Branches, New
<1>10. \A a, n, i, h : Heats(c, a, n, i, h) => c # <<>> /\ Head(c).op = "computation_add_front"
  BY DEF Heats, Add_front
<1>11. \A n, i, h : LeavesHole(c, n, i, h) => c # <<>> /\ Head(c).op = "k_replace_arg"
  BY DEF LeavesHole, Replace_arg
<1>12. \A a, n : Splits(c, a, n) => c # <<>> /\ Head(c).op = "computation_add_front"
  BY DEF Splits, Add_front
<1>13. \A n, p : Trims(c, n, p) => c # <<>> /\ Head(c).op = "updateTrimArgs"
  BY DEF Trims, Trim
<1>14. \A p : PutsBack(c, p) => c # <<>> /\ Head(c).op = "computation_set_elem"
  BY DEF PutsBack, Set_elem
<1>15. \A a, b : Enters(c, a, b) => c # <<>> /\ Head(c).op = "computation_add_front"
  BY DEF Enters, Add_front
<1>16. \A p, a : Puts(c, p, a) => c # <<>> /\ Head(c).op = "computation_set_elem"
  BY DEF Puts, Set_elem
<1>17. \A a : Adds(c, a) => c # <<>> /\ Head(c).op = "computation_add_front"
  BY DEF Adds, Add_front
<1>18. \A x, v, n : Declares(c, x, v, n) => c # <<>> /\ Head(c).op = "updateStore"
  BY DEF Declares, UpdateStore
<1>19. \A x, v : Assigns(c, x, v) => c # <<>> /\ Head(c).op = "updateStore"
  BY DEF Assigns, UpdateStore
<1> QED
  BY <1>1, <1>2, <1>3, <1>4, <1>5, <1>6, <1>7, <1>8, <1>9, <1>10, <1>11, <1>12, <1>13, <1>14,
     <1>15, <1>16, <1>17, <1>18, <1>19, Zenon

\* Calls stand in a sequence.
LEMMA ReadySeq == Ready => \E S : calls \in Seq(S)
<1>1. Loading => \E S : calls \in Seq(S)
  BY DEF Loading, LoadCalls
<1>2. LastCalls(calls) => \E S : calls \in Seq(S)
  BY DEF LastCalls
<1>3. ASSUME NEW a, NEW b, NEW c, NEW d,
             calls \in {<<a>>, <<a, b>>, <<a, b, c>>, <<a, b, c, d>>}
      PROVE  \E S : calls \in Seq(S)
  <2> DEFINE S == {a, b, c, d}
  <2>1. a \in S /\ b \in S /\ c \in S /\ d \in S
    OBVIOUS
  <2> HIDE DEF S
  <2>2. <<a>> \in Seq(S) /\ <<a, b>> \in Seq(S) /\ <<a, b, c>> \in Seq(S) /\ <<a, b, c, d>> \in Seq(S)
    BY <2>1
  <2> QED
    BY <1>3, <2>2
<1>4. \A v : Making1(v) \/ Making2(v) => \E S : calls \in Seq(S)
  BY <1>3 DEF Making1, Making2
<1>5. Handles(calls) => \E S : calls \in Seq(S)
  <2>1. \A n, i, v : Cools(calls, n, i, v) => \E S : calls \in Seq(S)
    BY <1>3 DEF Cools
  <2>2. \A n : Drops(calls, n) \/ Renews(calls, n) => \E S : calls \in Seq(S)
    BY <1>3 DEF Drops, Renews
  <2>3. \A v, h : Becoming(calls, v, h) \/ Became(calls, v, h) => \E S : calls \in Seq(S)
    BY <1>3 DEF Becoming, Became
  <2>4. (\E l : Numbers(calls, l)) \/ Wraps(calls) => \E S : calls \in Seq(S)
    BY <1>3 DEF Numbers, Wraps
  <2>5. \A b, n, g, s : Loops(calls, b, n, g, s) \/ Branches(calls, g, s) => \E S : calls \in Seq(S)
    BY <1>3 DEF Loops, Branches
  <2>6. \A a, n, i, h : Heats(calls, a, n, i, h) \/ LeavesHole(calls, n, i, h) => \E S : calls \in Seq(S)
    BY <1>3 DEF Heats, LeavesHole
  <2>7. \A a, n, p : Splits(calls, a, n) \/ Trims(calls, n, p) => \E S : calls \in Seq(S)
    BY <1>3 DEF Splits, Trims
  <2>8. \A p, a : PutsBack(calls, p) \/ Puts(calls, p, a) \/ Adds(calls, a) => \E S : calls \in Seq(S)
    BY <1>3 DEF PutsBack, Puts, Adds
  <2>9. \A a, b : Enters(calls, a, b) => \E S : calls \in Seq(S)
    BY <1>3 DEF Enters
  <2>10. \A x, v, n : Declares(calls, x, v, n) \/ Assigns(calls, x, v) => \E S : calls \in Seq(S)
    BY <1>3 DEF Declares, Assigns
  <2> QED
    BY <1>2, <2>1, <2>2, <2>3, <2>4, <2>5, <2>6, <2>7, <2>8, <2>9, <2>10, Zenon DEF Handles
<1> QED
  BY <1>1, <1>4, <1>5 DEF Ready, Working

\* So the next call tells where the handler is.
LEMMA CallTells ==
  ASSUME HandInv, panicked = "no", calls # <<>>
  PROVE  /\ Call.op = "k_replace_arg" =>
              /\ Working /\ HolderOK
              /\ \/ \E n, i, v : Cools(calls, n, i, v)
                 \/ \E n, i, h : LeavesHole(calls, n, i, h)
         /\ Call.op = "computation_remove_head" =>
              /\ Working /\ HolderOK
              /\ LastCalls(calls) \/ \E n : Drops(calls, n)
         /\ Call.op = "newTop" => Working /\ HolderOK /\ \E n : Renews(calls, n)
         /\ Call.op = "computation_set_elem" =>
              /\ Working /\ HolderOK
              /\ \/ \E v, h : Becoming(calls, v, h)
                 \/ \E p : PutsBack(calls, p)
                 \/ \E p, a : Puts(calls, p, a)
         /\ Call.op \in {"handleValue", "handleIf"} =>
              Working /\ HolderOK /\ \E v, h : Became(calls, v, h)
         /\ Call.op = "k_new" =>
              /\ Working
              /\ \/ \E v : Making1(v)
                 \/ /\ HolderOK
                    /\ \/ \E l : Numbers(calls, l)
                       \/ Wraps(calls)
                       \/ \E b, n, g, s : Loops(calls, b, n, g, s)
                       \/ \E g, s : Branches(calls, g, s)
         /\ Call.op = "newComputationCell" => Working /\ \E v : Making2(v)
         /\ Call.op = "computation_add_front" =>
              /\ Working /\ HolderOK
              /\ \/ \E a, n, i, h : Heats(calls, a, n, i, h)
                 \/ \E a, n : Splits(calls, a, n)
                 \/ \E a, b : Enters(calls, a, b)
                 \/ \E a : Adds(calls, a)
         /\ Call.op = "updateTrimArgs" => Working /\ HolderOK /\ \E n, p : Trims(calls, n, p)
         /\ Call.op = "updateStore" =>
              /\ Working /\ HolderOK
              /\ \/ \E x, v, n : Declares(calls, x, v, n)
                 \/ \E x, v : Assigns(calls, x, v)
         /\ Call.op \in {"state_cleanup", "panic"} => Working /\ HolderOK /\ LastCalls(calls)
         /\ Call.op \in {"build", "k_make_permanent"} => Loading
<1>1. CASE Loading
  <2>1. Call.op \in {"build", "k_make_permanent"}
    BY <1>1, LoadCallsTail DEF Loading, LoadCall, Call
  <2> QED
    BY <1>1, <2>1
<1>2. CASE Working /\ \E v : Making1(v)
  <2>1. Call.op = "k_new"
    BY <1>2 DEF Making1, Call, New
  <2> QED
    BY <1>2, <2>1
<1>3. CASE Working /\ \E v : Making2(v)
  <2>1. Call.op = "newComputationCell"
    BY <1>3 DEF Making2, Call, MakeHolder
  <2> QED
    BY <1>3, <2>1
<1>4. CASE Working /\ HolderOK /\ Handles(calls)
  <2>1. CASE LastCalls(calls)
    <3>1. Call.op \in {"computation_remove_head", "state_cleanup", "panic"}
      BY <2>1, LastCallsTail DEF LastCall, Call
    <3> QED
      BY <1>4, <2>1, <3>1
  <2>2. CASE ~ LastCalls(calls)
    BY <1>4, <2>2, HeadCalls DEF Handles, Call
  <2> QED
    BY <2>1, <2>2
<1> QED
  BY <1>1, <1>2, <1>3, <1>4 DEF HandInv, Ready, Working

-----------------------------------------------------------------------------
(* What is in hand is live.                                                *)

\* The holder of the cell and the nodes in it.
LEMMA HolderHeld ==
  ASSUME HwIInv, HolderOK
  PROVE  /\ Cells[run] \in Root /\ root[Cells[run]] = holder
         /\ holder \in Node /\ Live(holder) /\ Cell \in Seq(Node)
         /\ \A n : Listed(n) => n \in Node /\ Live(n) /\ n \in Range(args[holder])
         /\ \A i \in DOMAIN Cell : Listed(Cell[i])
<1>1. Cells[run] \in Root /\ IInv
  BY HandAssumption DEF HandAssumption, HwIInv
<1>2. holder \in Node /\ Live(holder)
  BY <1>1, OwnedLive DEF HolderOK, holder
<1>3. Cell \in Seq(Node)
  BY <1>1, <1>2 DEF IInv, TypeOK, Cell
<1>4. ASSUME NEW n, Listed(n) PROVE n \in Node /\ Live(n) /\ n \in Range(args[holder])
  <2>1. PICK i \in DOMAIN args[holder] : n = args[holder][i]
    BY <1>4 DEF Listed, Range, Cell
  <2> QED
    BY <1>1, <1>2, <1>4, <2>1, ArgLive DEF Listed, Cell
<1>5. \A i \in DOMAIN Cell : Listed(Cell[i])
  BY DEF Listed, Range
<1> QED
  BY <1>1, <1>2, <1>3, <1>4, <1>5 DEF holder

\* The operands of a call, but for what the call before returns, are live.
OperandsLive(d) == \A n \in Operands(d) \ {Ret} : Live(n)

\* What each call reads.
LEMMA OperandsOfCalls ==
  /\ \A l, s : Operands(New(l, s)) = Range(s)
  /\ \A v : Operands(Add_front(v)) = {v}
  /\ \A i, v : Operands(Set_elem(i, v)) = {v}
  /\ Operands(Remove_head) = {}
  /\ \A k, i, v : Operands(Replace_arg(k, i, v)) = {k, v}
  /\ \A k : Operands(Trim(k)) = {k}
  /\ \A x, v : Operands(UpdateStore(x, v)) = {v}
  /\ Operands(MakeHolder) = {Ret}
  /\ \A v : Operands(Follow("newTop", v)) = {v, Ret}
  /\ \A v : Operands(Follow("handleValue", v)) = {v} /\ Operands(Follow("handleIf", v)) = {v}
  BY DEF Operands, New, Add_front, Set_elem, Remove_head, Replace_arg, Trim, UpdateStore,
         MakeHolder, Follow

\* The lists of calls a handler makes.
LEMMA OperandsOfLists ==
  /\ \A a : calls = <<a>> /\ OperandsLive(a) /\ (Ret \in Operands(a) => Live(ret))
              => OperandsStayLive
  /\ \A a, b : calls = <<a, b>> /\ OperandsLive(a) /\ OperandsLive(b)
                 /\ (Ret \in Operands(a) => Live(ret)) => OperandsStayLive
  /\ \A a, b, c : calls = <<a, b, c>> /\ OperandsLive(a) /\ OperandsLive(b) /\ OperandsLive(c)
                    /\ (Ret \in Operands(a) => Live(ret)) => OperandsStayLive
  /\ \A a, b, c, d : calls = <<a, b, c, d>> /\ OperandsLive(a) /\ OperandsLive(b) /\ OperandsLive(c)
                       /\ OperandsLive(d) /\ (Ret \in Operands(a) => Live(ret)) => OperandsStayLive
<1>1. ASSUME NEW a, calls = <<a>>, OperandsLive(a), Ret \in Operands(a) => Live(ret)
      PROVE  OperandsStayLive
  BY <1>1 DEF OperandsStayLive, OperandsLive, Call
<1>2. ASSUME NEW a, NEW b, calls = <<a, b>>, OperandsLive(a), OperandsLive(b),
             Ret \in Operands(a) => Live(ret)
      PROVE  OperandsStayLive
  BY <1>2 DEF OperandsStayLive, OperandsLive, Call
<1>3. ASSUME NEW a, NEW b, NEW c, calls = <<a, b, c>>, OperandsLive(a), OperandsLive(b),
             OperandsLive(c), Ret \in Operands(a) => Live(ret)
      PROVE  OperandsStayLive
  BY <1>3 DEF OperandsStayLive, OperandsLive, Call
<1>4. ASSUME NEW a, NEW b, NEW c, NEW d, calls = <<a, b, c, d>>, OperandsLive(a), OperandsLive(b),
             OperandsLive(c), OperandsLive(d), Ret \in Operands(a) => Live(ret)
      PROVE  OperandsStayLive
  BY <1>4 DEF OperandsStayLive, OperandsLive, Call
<1> QED
  BY <1>1, <1>2, <1>3, <1>4

\* Calls without operands.
LEMMA NoOperands ==
  ASSUME NEW S, calls \in Seq(S), \A d \in S : Operands(d) = {}
  PROVE  OperandsStayLive
<1>1. ASSUME NEW i \in DOMAIN calls PROVE Operands(calls[i]) = {}
  <2>1. i \in 1..Len(calls)
    BY LenProperties
  <2>2. calls[i] \in S
    BY <2>1, ElementOfSeq
  <2> QED
    BY <2>2
<1>2. calls # <<>> => Operands(Call) = {}
  <2>1. calls # <<>> => Head(calls) \in S
    BY HeadTailProperties
  <2> QED
    BY <2>1 DEF Call
<1> QED
  BY <1>1, <1>2 DEF OperandsStayLive

\* Whatever the calls are, what they read is live.
LEMMA OperandsHeld ==
  ASSUME HwIInv, panicked = "no", Ready
  PROVE  OperandsStayLive
<1> USE OperandsOfCalls DEF OperandsLive
<1>1. CASE Loading
  <2>1. PICK S : calls \in Seq(S) /\ \A d \in S : LoadCall(d)
    BY <1>1 DEF Loading, LoadCalls
  <2>2. \A d \in S : Operands(d) = {}
    BY <2>1 DEF LoadCall, Operands
  <2> QED
    BY <2>1, <2>2, NoOperands
<1>2. ASSUME NEW v, Making1(v) PROVE OperandsStayLive
  <2>1. calls = <<New("_kra", <<>>), MakeHolder, Add_front(v)>> /\ Live(v)
    BY <1>2 DEF Making1, Calm
  <2>2. Range(<<>>) = {}
    BY DEF Range
  <2> QED
    BY <2>1, <2>2, OperandsOfLists
<1>3. ASSUME NEW v, Making2(v) PROVE OperandsStayLive
  <2>1. calls = <<MakeHolder, Add_front(v)>> /\ Live(v) /\ Live(ret)
    BY <1>3 DEF Making2, Calm, Fresh
  <2> QED
    BY <2>1, OperandsOfLists
<1>4. CASE HolderOK /\ Handles(calls)
  <2>a. /\ \A n : Listed(n) => Live(n)
        /\ \A i \in DOMAIN Cell : Live(Cell[i])
    BY <1>4, HolderHeld
  <2>b. Fresh(ret) => Live(ret)
    BY DEF Fresh
  <2>c. \A v : v # Ret /\ Live(Of(v)) => Live(v)
    BY DEF Of
  <2>d. Live(Of(Ret)) => Live(ret)
    BY DEF Of
  <2>1. CASE LastCalls(calls)
    <3>1. PICK S : calls \in Seq(S) /\ \A d \in S : LastCall(d)
      BY <2>1 DEF LastCalls
    <3>2. \A d \in S : Operands(d) = {}
      BY <3>1 DEF LastCall, Operands
    <3> QED
      BY <3>1, <3>2, NoOperands
  <2>2. ASSUME NEW n, NEW i, NEW v, Cools(calls, n, i, v) PROVE OperandsStayLive
    <3>1. calls = <<Replace_arg(n, i, v), Remove_head, Follow("newTop", n)>> /\ Live(n) /\ Live(v)
      BY <2>a, <2>2 DEF Cools
    <3>2. Ret # n /\ Ret # v
      BY <3>1, HeapAssumption, LiveIsNode DEF HwIInv, IInv, Ret, HeapAssumption
    <3> QED
      BY <3>1, <3>2, OperandsOfLists
  <2>3. ASSUME NEW n, Drops(calls, n) PROVE OperandsStayLive
    <3>1. calls = <<Remove_head, Follow("newTop", n)>> /\ Live(n)
      BY <2>a, <2>3 DEF Drops
    <3> QED
      BY <3>1, OperandsOfLists
  <2>4. ASSUME NEW n, Renews(calls, n) PROVE OperandsStayLive
    <3>1. calls = <<Follow("newTop", n)>> /\ Live(n) /\ Live(ret)
      BY <2>a, <2>b, <2>4 DEF Renews
    <3> QED
      BY <3>1, OperandsOfLists
  <2>5. ASSUME NEW v, NEW h, Becoming(calls, v, h) PROVE OperandsStayLive
    <3>1. calls = <<Set_elem(1, v), Follow(h, v)>> /\ Live(Of(v)) /\ h \in {"handleValue", "handleIf"}
      BY <2>5 DEF Becoming, Next_handler
    <3>2. OperandsLive(Set_elem(1, v)) /\ OperandsLive(Follow(h, v))
      BY <2>c, <3>1
    <3>3. Ret \in Operands(Set_elem(1, v)) => Live(ret)
      BY <2>d, <3>1
    <3> QED
      BY <3>1, <3>2, <3>3, OperandsOfLists
  <2>6. ASSUME NEW v, NEW h, Became(calls, v, h) PROVE OperandsStayLive
    <3>1. calls = <<Follow(h, v)>> /\ Live(Of(v)) /\ h \in {"handleValue", "handleIf"}
      BY <2>a, <2>6 DEF Became, Next_handler
    <3>2. OperandsLive(Follow(h, v))
      BY <2>c, <3>1
    <3>3. Ret \in Operands(Follow(h, v)) => Live(ret)
      BY <2>d, <3>1
    <3> QED
      BY <3>1, <3>2, <3>3, OperandsOfLists
  <2>7. ASSUME NEW l, Numbers(calls, l) PROVE OperandsStayLive
    <3>1. calls = <<New(l, <<>>), New("#int", <<Ret>>), Set_elem(1, Ret), Follow("handleValue", Ret)>>
      BY <2>7 DEF Numbers
    <3>2. Range(<<>>) = {} /\ Range(<<Ret>>) = {Ret}
      BY DEF Range
    <3>3. /\ Ret \notin Operands(New(l, <<>>))
          /\ OperandsLive(New(l, <<>>)) /\ OperandsLive(New("#int", <<Ret>>))
          /\ OperandsLive(Set_elem(1, Ret)) /\ OperandsLive(Follow("handleValue", Ret))
      BY <3>2
    <3> QED
      BY <3>1, <3>3, OperandsOfLists
  <2>8. ASSUME Wraps(calls) PROVE OperandsStayLive
    <3>1. calls = <<New("#int", <<Ret>>), Set_elem(1, Ret), Follow("handleValue", Ret)>> /\ Live(ret)
      BY <2>8 DEF Wraps
    <3>2. Range(<<Ret>>) = {Ret}
      BY DEF Range
    <3> QED
      BY <3>1, <3>2, OperandsOfLists
  <2>9. ASSUME NEW b, NEW n, NEW g, NEW s, Loops(calls, b, n, g, s) PROVE OperandsStayLive
    <3>1. /\ calls = <<New("statements", <<b, n>>), New("ifThenElse", <<g, Ret, s>>),
                       Set_elem(1, Ret), Follow("handleIf", Ret)>>
          /\ Live(b) /\ Live(n) /\ Live(g) /\ Live(s)
      BY <2>9 DEF Loops
    <3>2. Range(<<b, n>>) = {b, n} /\ Range(<<g, Ret, s>>) = {g, Ret, s}
      BY DEF Range
    <3>3. Ret # b /\ Ret # n
      BY <3>1, HeapAssumption, LiveIsNode DEF HwIInv, IInv, Ret, HeapAssumption
    <3>4. /\ Ret \notin Operands(New("statements", <<b, n>>))
          /\ OperandsLive(New("statements", <<b, n>>))
          /\ OperandsLive(New("ifThenElse", <<g, Ret, s>>))
          /\ OperandsLive(Set_elem(1, Ret)) /\ OperandsLive(Follow("handleIf", Ret))
      BY <3>1, <3>2, <3>3
    <3> QED
      BY <3>1, <3>4, OperandsOfLists
  <2>10. ASSUME NEW g, NEW s, Branches(calls, g, s) PROVE OperandsStayLive
    <3>1. /\ calls = <<New("ifThenElse", <<g, Ret, s>>), Set_elem(1, Ret), Follow("handleIf", Ret)>>
          /\ Live(g) /\ Live(s) /\ Live(ret)
      BY <2>10 DEF Branches
    <3>2. Range(<<g, Ret, s>>) = {g, Ret, s}
      BY DEF Range
    <3> QED
      BY <3>1, <3>2, OperandsOfLists
  <2>11. ASSUME NEW a, NEW n, NEW i, NEW h, Heats(calls, a, n, i, h) PROVE OperandsStayLive
    <3>1. /\ calls = <<Add_front(a), Replace_arg(n, i, h), Set_elem(2, Ret)>>
          /\ Live(a) /\ Live(n) /\ Live(h)
      BY <2>a, <2>11 DEF Heats
    <3>2. Ret # a
      BY <3>1, HeapAssumption, LiveIsNode DEF HwIInv, IInv, Ret, HeapAssumption
    <3> QED
      BY <3>1, <3>2, OperandsOfLists
  <2>12. ASSUME NEW n, NEW i, NEW h, LeavesHole(calls, n, i, h) PROVE OperandsStayLive
    <3>1. /\ calls = <<Replace_arg(n, i, h), Set_elem(2, Ret)>>
          /\ Live(n) /\ Live(h)
      BY <2>a, <2>12 DEF LeavesHole
    <3>2. Ret # n /\ Ret # h
      BY <3>1, HeapAssumption, LiveIsNode DEF HwIInv, IInv, Ret, HeapAssumption
    <3> QED
      BY <3>1, <3>2, OperandsOfLists
  <2>13. ASSUME NEW a, NEW n, Splits(calls, a, n) PROVE OperandsStayLive
    <3>1. calls = <<Add_front(a), Trim(n), Set_elem(2, Ret)>> /\ Live(a) /\ Live(n)
      BY <2>a, <2>13 DEF Splits
    <3>2. Ret # a
      BY <3>1, HeapAssumption, LiveIsNode DEF HwIInv, IInv, Ret, HeapAssumption
    <3> QED
      BY <3>1, <3>2, OperandsOfLists
  <2>14. ASSUME NEW n, NEW p, Trims(calls, n, p) PROVE OperandsStayLive
    <3>1. calls = <<Trim(n), Set_elem(p, Ret)>> /\ Live(n)
      BY <2>a, <2>14 DEF Trims
    <3>2. Ret # n
      BY <3>1, HeapAssumption, LiveIsNode DEF HwIInv, IInv, Ret, HeapAssumption
    <3> QED
      BY <3>1, <3>2, OperandsOfLists
  <2>15. ASSUME NEW p, PutsBack(calls, p) PROVE OperandsStayLive
    <3>1. calls = <<Set_elem(p, Ret)>> /\ Live(ret)
      BY <2>a, <2>b, <2>15 DEF PutsBack
    <3> QED
      BY <3>1, OperandsOfLists
  <2>16. ASSUME NEW a, NEW b, Enters(calls, a, b) PROVE OperandsStayLive
    <3>1. calls = <<Add_front(a), Set_elem(2, b)>> /\ Live(a) /\ Live(b)
      BY <2>16 DEF Enters
    <3>2. Ret # a
      BY <3>1, HeapAssumption, LiveIsNode DEF HwIInv, IInv, Ret, HeapAssumption
    <3> QED
      BY <3>1, <3>2, OperandsOfLists
  <2>17. ASSUME NEW p, NEW a, Puts(calls, p, a) PROVE OperandsStayLive
    <3>1. calls = <<Set_elem(p, a)>> /\ Live(a) /\ Ret # a
      BY <2>17 DEF Puts
    <3> QED
      BY <3>1, OperandsOfLists
  <2>18. ASSUME NEW a, Adds(calls, a) PROVE OperandsStayLive
    <3>1. calls = <<Add_front(a)>> /\ Live(a)
      BY <2>18 DEF Adds, Calm
    <3>2. Ret # a
      BY <3>1, HeapAssumption, LiveIsNode DEF HwIInv, IInv, Ret, HeapAssumption
    <3> QED
      BY <3>1, <3>2, OperandsOfLists
  <2>19. ASSUME NEW x, NEW v, NEW n, Declares(calls, x, v, n) PROVE OperandsStayLive
    <3>1. calls = <<UpdateStore(x, v), Trim(n), Set_elem(1, Ret)>> /\ Live(v) /\ Live(n)
      BY <2>a, <2>19 DEF Declares
    <3>2. Ret # v
      BY <3>1, HeapAssumption, LiveIsNode DEF HwIInv, IInv, Ret, HeapAssumption
    <3> QED
      BY <3>1, <3>2, OperandsOfLists
  <2>20. ASSUME NEW x, NEW v, Assigns(calls, x, v) PROVE OperandsStayLive
    <3>1. calls = <<UpdateStore(x, v), Remove_head>> /\ Live(v)
      BY <2>20 DEF Assigns
    <3>2. Ret # v
      BY <3>1, HeapAssumption, LiveIsNode DEF HwIInv, IInv, Ret, HeapAssumption
    <3> QED
      BY <3>1, <3>2, OperandsOfLists
  <2> HIDE DEF OperandsLive
  <2> QED
    BY <1>4, <2>1, <2>2, <2>3, <2>4, <2>5, <2>6, <2>7, <2>8, <2>9, <2>10, <2>11, <2>12, <2>13,
       <2>14, <2>15, <2>16, <2>17, <2>18, <2>19, <2>20, Zenon DEF Handles
<1> QED
  BY <1>1, <1>2, <1>3, <1>4 DEF Ready, Working

-----------------------------------------------------------------------------
(* What a call leaves as it is.                                            *)

\* What is live stays, with its label; the cell in use keeps its holder.
Undisturbed ==
  /\ \A x \in Node : Live(x) => /\ Live(x)' /\ label'[x] = label[x]
                                /\ permanent'[x] = permanent[x]
  /\ root'[Cells[run]] = root[Cells[run]]

\* So the constants and the holder are still there.
LEMMA UndisturbedKeeps ==
  ASSUME HwIInv, Undisturbed, built' = built, run' = run
  PROVE  /\ ConstantsHeld => ConstantsHeld'
         /\ HolderOK => HolderOK' /\ holder' = holder
         /\ \A x : Live(x) => Live(x)'
<1>1. \A x : Live(x) => x \in Node
  BY LiveIsNode DEF HwIInv, IInv
<1>2. ConstantsHeld => ConstantsHeld'
  BY <1>1 DEF ConstantsHeld, Undisturbed
<1>3. holder' = holder
  BY DEF holder, Undisturbed
<1>4. HolderOK => HolderOK'
  BY <1>3, HolderHeld DEF HolderOK, Undisturbed
<1> QED
  BY <1>1, <1>2, <1>3, <1>4 DEF Undisturbed

\* A new node.
LEMMA GrownKeeps ==
  ASSUME HwIInv, NEW n, NEW s, NEW l, Grown(n, s, l), run' = run
  PROVE  /\ Undisturbed
         /\ HandTypeOK /\ Suits(l, Len(s)) => HandTypeOK'
         /\ HolderOK => Cell' = Cell
         /\ Live(n)' /\ label'[n] = l /\ ~ permanent'[n] /\ refs'[n] = 0 /\ Fresh(n)'
<1>1. Undisturbed
  BY DEF Grown, Undisturbed, Live
<1>2. ASSUME HandTypeOK, Suits(l, Len(s)) PROVE HandTypeOK'
  BY <1>2 DEF Grown, HandTypeOK
<1>3. ASSUME HolderOK PROVE Cell' = Cell
  <2>1. holder \in Node /\ Live(holder)
    BY <1>3, HolderHeld
  <2>2. holder' = holder
    BY <1>1 DEF holder, Undisturbed
  <2> QED
    BY <2>1, <2>2 DEF Grown, Cell, Live
<1>4. Live(n)' /\ label'[n] = l /\ ~ permanent'[n] /\ refs'[n] = 0
  BY DEF Grown
<1> QED
  BY <1>1, <1>2, <1>3, <1>4 DEF Fresh

\* An edited node.
LEMMA EditedKeeps ==
  ASSUME HwIInv, NEW k, NEW s, Edited(k, s), run' = run
  PROVE  /\ Undisturbed
         /\ HandTypeOK /\ (Live(k) => Suits(label[k], Len(s))) => HandTypeOK'
         /\ HolderOK => Cell' = IF k = holder THEN s ELSE Cell
<1>1. Undisturbed
  BY DEF Edited, Undisturbed
<1>2. ASSUME HandTypeOK, Live(k) => Suits(label[k], Len(s)) PROVE HandTypeOK'
  BY <1>2 DEF Edited, HandTypeOK
<1>3. ASSUME HolderOK PROVE Cell' = IF k = holder THEN s ELSE Cell
  <2>1. holder \in Node
    BY <1>3, HolderHeld
  <2>2. holder' = holder
    BY <1>1 DEF holder, Undisturbed
  <2> QED
    BY <2>1, <2>2 DEF Edited, Cell
<1> QED
  BY <1>1, <1>2, <1>3

\* A node of the cell that is edited in place is not the holder.
LEMMA NotHolder ==
  ASSUME HwIInv, HolderOK, NEW n, Listed(n), ~ Shared(n)
  PROVE  n # holder
<1>1. /\ Cells[run] \in Root /\ root[Cells[run]] = holder /\ holder \in Node
      /\ n \in Node /\ n \in Range(args[holder])
  BY HolderHeld
<1> QED
  BY <1>1, OwnedAndListed DEF HwIInv

\* The map's keys own values, not cells.
LEMMA KeyKeeps ==
  ASSUME HwIInv, NEW x \in Key, NEW k, root' = [root EXCEPT ![x] = k], UNCHANGED <<args, label, permanent>>,
         \A y \in Node : Live(y)' <=> Live(y), run' = run
  PROVE  /\ Undisturbed
         /\ HandTypeOK => HandTypeOK'
         /\ HolderOK => Cell' = Cell
<1>1. /\ Cells[run] # x /\ Cells[run] \in Root /\ root \in [Root -> Node \cup {NoNode}]
  BY HandAssumption DEF HandAssumption, HwIInv, IInv, TypeOK
<1>2. root'[Cells[run]] = root[Cells[run]]
  BY <1>1
<1>3. Undisturbed /\ holder' = holder
  BY <1>2 DEF Undisturbed, holder
<1>4. HandTypeOK => HandTypeOK'
  BY DEF HandTypeOK
<1> QED
  BY <1>3, <1>4 DEF Cell

\* Labels that are no construct's suit any number of arguments.
LEMMA SuitsAny ==
  /\ \A n : Suits("_kra", n) /\ Suits("statements", n) /\ Suits("#int", n)
  /\ Suits("ifThenElse", 3)
  /\ \A l \in DOMAIN Num : Suits(l, 0)
  /\ \A l, m, n : Suits(l, m) /\ l \notin Constructs => Suits(l, n)
<1>1. \A l \in DOMAIN Num : Suits(l, 0)
  BY HandAssumption DEF HandAssumption
<1>2. \A n : Suits("_kra", n) /\ Suits("statements", n) /\ Suits("#int", n)
  BY DEF Suits, Constructs
<1>3. Suits("ifThenElse", 3)
  BY DEF Suits, Constructs, Arity
<1>4. \A l, m, n : Suits(l, m) /\ l \notin Constructs => Suits(l, n)
  BY DEF Suits
<1> QED
  BY <1>1, <1>2, <1>3, <1>4

\* A step that stops the program leaves everything else alone.
LEMMA StopLeaves ==
  ASSUME NEW why, Stop(why)
  PROVE  /\ UNCHANGED <<args, garbage_k, mallocd, work>> /\ (\A x \in Node : Live(x)' <=> Live(x))
         /\ \A l : Labelled(l) => \A x \in Node : label'[x] = label[x]
<1>1. UNCHANGED <<args, garbage_k, mallocd, work>>
  BY DEF Stop
<1>2. \A x : Dead(x)' <=> Dead(x)
  BY <1>1 DEF Dead
<1>3. Acquired = {}
  BY <1>2 DEF Acquired
<1> QED
  BY <1>1, <1>2, <1>3 DEF Labelled, Live

\* The calls that may stop the program.
LEMMA WhoStops ==
  ASSUME HwIInv, HwStep, panicked = "no", panicked' # "no"
  PROVE  /\ (\E why : Stop(why)) /\ (label' = label \/ \E l : Labelled(l)) /\ test' = test
         /\ calls' = calls \/ (calls # <<>> /\ calls' = Tail(calls))
<1>1. CASE BuildNode \/ NewNode
  <2>1. PICK s, l : /\ K_new(s) /\ Labelled(l) /\ calls # <<>> /\ calls' = Tail(calls) /\ test' = test
    BY <1>1 DEF BuildNode, NewNode, Makes, At, GoOn
  <2>2. \E why : Stop(why)
    BY <2>1 DEF K_new
  <2> QED
    BY <2>1, <2>2
<1>2. CASE Computation_remove_head \/ TrimArgs
  <2>1. PICK k, l : /\ UpdateTrimArgs(k, 1, Len(args[k])) /\ Labelled(l)
                    /\ calls # <<>> /\ calls' = Tail(calls) /\ test' = test
    BY <1>2 DEF Computation_remove_head, TrimArgs, At, GoOn, Cell
  <2>2. \E why : Stop(why)
    BY <2>1 DEF UpdateTrimArgs, CopyStops
  <2> QED
    BY <2>1, <2>2
<1>3. CASE ReplaceArg
  <2>1. PICK k, i, v, l : /\ K_replace_arg(k, i, v) /\ Labelled(l)
                          /\ calls # <<>> /\ calls' = Tail(calls) /\ test' = test
    BY <1>3 DEF ReplaceArg, At, GoOn
  <2>2. \E why : Stop(why)
    BY <2>1 DEF K_replace_arg, CopyStops
  <2> QED
    BY <2>1, <2>2
<1>4. CASE Computation_add_front
  <2>1. /\ K_add_front_arg(holder, Of(Call.v)) /\ label' = label
        /\ calls # <<>> /\ calls' = Tail(calls) /\ test' = test
    BY <1>4 DEF Computation_add_front, At, GoOn, Quiet, End, vars
  <2>2. \E why : Stop(why)
    BY <2>1 DEF K_add_front_arg
  <2> QED
    BY <2>1, <2>2
<1>5. CASE RunDecs
  <2>1. Cascade /\ label' = label /\ test' = test /\ calls' = calls
    BY <1>5 DEF RunDecs
  <2>2. \E why : Stop(why)
    BY <2>1 DEF Cascade, DecStep, AuxStep
  <2> QED
    BY <2>1, <2>2
<1>6. CASE Make_permanent
  BY <1>6 DEF Make_permanent, K_make_permanent
<1>7. CASE NewComputationCell \/ Update_store \/ State_cleanup
  BY <1>7 DEF NewComputationCell, Update_store, State_cleanup, Own, Disown
<1>8. CASE Computation_set_elem \/ NewTop
  BY <1>8 DEF Computation_set_elem, NewTop, K_set_arg, vars
<1>9. CASE Follows \/ Stops
  BY <1>9 DEF Follows, Stops, End, vars
<1>10. CASE Handler
  <2>1. UNCHANGED vars
    BY <1>10, HandlerMaps
  <2> QED
    BY <2>1 DEF vars
<1>11. CASE EmptyCell \/ SafetyCheck \/ New_configuration \/ Get_result \/ Run_ends
  BY <1>11 DEF EmptyCell, SafetyCheck, New_configuration, Get_result, Run_ends, Turn, End, vars
<1> QED
  BY <1>1, <1>2, <1>3, <1>4, <1>5, <1>6, <1>7, <1>8, <1>9, <1>10, <1>11 DEF HwStep, Calls

\* Nothing more is read then than before.
LEMMA PanicStep ==
  ASSUME HwIInv, HandInv, HwStep, panicked = "no", panicked' # "no"
  PROVE  HandInv'
<1>1. /\ \A x \in Node : (Live(x)' <=> Live(x)) /\ label'[x] = label[x]
      /\ args' = args /\ test' = test
      /\ calls' = calls \/ (calls # <<>> /\ calls' = Tail(calls))
  <2>1. PICK why : Stop(why)
    BY WhoStops
  <2>2. \A x \in Node : label'[x] = label[x]
    BY <2>1, WhoStops, StopLeaves
  <2> QED
    BY <2>1, <2>2, WhoStops, StopLeaves DEF Stop
<1>2. OperandsStayLive
  BY OperandsHeld DEF HandInv
<1>3. PICK S : calls \in Seq(S)
  BY ReadySeq DEF HandInv
<1>4. calls' \in Seq(S)
  BY <1>1, <1>3, HeadTailProperties
<1>5. HandTypeOK'
  BY <1>1 DEF HandInv, HandTypeOK
<1>6. \A n : Live(n) => Live(n)'
  BY <1>1, LiveIsNode DEF HwIInv, IInv
<1>7. \A i \in DOMAIN calls' : \E j \in DOMAIN calls : calls'[i] = calls[j]
  <2>1. CASE calls' = calls
    BY <2>1
  <2>2. CASE calls # <<>> /\ calls' = Tail(calls)
    <3>1. /\ DOMAIN calls = 1..Len(calls) /\ DOMAIN calls' = 1..(Len(calls) - 1) /\ Len(calls) \in Nat
          /\ \A i \in 1..(Len(calls) - 1) : calls'[i] = calls[i + 1]
      BY <1>3, <1>4, <2>2, HeadTailProperties, LenProperties
    <3> QED
      BY <3>1
  <2> QED
    BY <1>1, <2>1, <2>2
<1>8. \A i \in DOMAIN calls' : \A n \in Operands(calls'[i]) \ {Ret} : Live(n)'
  BY <1>2, <1>6, <1>7 DEF OperandsStayLive
<1>9. OperandsStayLive'
  BY <1>8 DEF OperandsStayLive, Operands, Ret
<1> QED
  BY <1>1, <1>5, <1>9 DEF HandInv

-----------------------------------------------------------------------------
(* One call after another.                                                 *)

\* A handler goes on.
LEMMA StillWorking ==
  ASSUME HwIInv, HandInv, panicked = "no", Working, HolderOK, Undisturbed,
         UNCHANGED <<built, run>>, phase' # "load", Handles(calls)'
  PROVE  Ready'
<1>1. ConstantsHeld' /\ HolderOK'
  BY UndisturbedKeeps DEF Working
<1>2. Working'
  BY <1>1 DEF Working
<1>3. built' \in Seq(Node)
  BY DEF HandInv, Ready
<1> QED
  BY <1>2, <1>3 DEF Ready

\* A node of the cell is edited, in place or in a copy.
LEMMA EditedOrCopied ==
  ASSUME HwIInv, HolderOK, HandTypeOK, run' = run, NEW k, Listed(k), NEW b, Suits(label[k], Len(b)),
         \/ \E m \in Node : Grown(m, b, label[k]) /\ ret' = m
         \/ Edited(k, b) /\ ret' = k /\ ~ Shared(k)
  PROVE  /\ Undisturbed /\ HandTypeOK' /\ Cell' = Cell /\ Live(k)
         /\ ret' = k \/ Fresh(ret)'
<1>0. Live(k)
  BY HolderHeld
<1>1. ASSUME NEW m \in Node, Grown(m, b, label[k]), ret' = m
      PROVE  Undisturbed /\ HandTypeOK' /\ Cell' = Cell /\ Fresh(ret)'
  <2>1. Undisturbed /\ HandTypeOK' /\ Cell' = Cell /\ Fresh(m)'
    BY <1>1, GrownKeeps
  <2> QED
    BY <1>1, <2>1 DEF Fresh, Live, Dead
<1>2. ASSUME Edited(k, b), ret' = k, ~ Shared(k)
      PROVE  Undisturbed /\ HandTypeOK' /\ Cell' = Cell
  <2>1. k # holder
    BY <1>2, NotHolder
  <2> QED
    BY <1>2, <2>1, EditedKeeps
<1> QED
  BY <1>0, <1>1, <1>2

\* k_replace_arg.
LEMMA ReplaceReady ==
  ASSUME HwIInv, HandInv, panicked = "no", panicked' = "no", ReplaceArg
  PROVE  HandTypeOK' /\ Ready'
<1>0. PICK k : k = Call.k
  OBVIOUS
<1> DEFINE b == [args[k] EXCEPT ![Call.pos] = Of(Call.v)]
<1>1. /\ calls # <<>> /\ Call.op = "k_replace_arg"
      /\ K_replace_arg(k, Call.pos, Of(Call.v)) /\ Labelled(label[k])
      /\ ret' = Returned(k) /\ built' = built /\ calls' = Tail(calls)
      /\ run' = run /\ phase' = phase
  BY <1>0 DEF ReplaceArg, At, Returns, GoOn
<1>2. /\ Working /\ HolderOK /\ HandTypeOK
      /\ \/ \E n, i, v : Cools(calls, n, i, v)
         \/ \E n, i, h : LeavesHole(calls, n, i, h)
  BY <1>1, CallTells DEF HandInv
<1>3. \/ /\ Listed(k) /\ calls' = <<Remove_head, Follow("newTop", k)>>
         /\ 2 \in DOMAIN Cell /\ k = Cell[2]
      \/ /\ Listed(k) /\ calls' = <<Set_elem(2, Ret)>>
  <2>1. ASSUME NEW n, NEW i, NEW v, Cools(calls, n, i, v)
        PROVE  /\ Listed(k) /\ calls' = <<Remove_head, Follow("newTop", k)>>
               /\ 2 \in DOMAIN Cell /\ k = Cell[2]
    <3>1. calls = <<Replace_arg(n, i, v), Remove_head, Follow("newTop", n)>>
          /\ 2 \in DOMAIN Cell /\ n = Cell[2]
      BY <2>1 DEF Cools
    <3>2. k = n
      BY <1>0, <3>1 DEF Call, Replace_arg
    <3>3. Listed(n)
      BY <1>2, <3>1, HolderHeld
    <3> QED
      BY <1>1, <3>1, <3>2, <3>3
  <2>2. ASSUME NEW n, NEW i, NEW h, LeavesHole(calls, n, i, h)
        PROVE  Listed(k) /\ calls' = <<Set_elem(2, Ret)>>
    <3>1. calls = <<Replace_arg(n, i, h), Set_elem(2, Ret)>> /\ Listed(n)
      BY <2>2 DEF LeavesHole
    <3>2. k = n
      BY <1>0, <3>1 DEF Call, Replace_arg
    <3> QED
      BY <1>1, <3>1, <3>2
  <2> QED
    BY <1>2, <2>1, <2>2
<1> HIDE DEF b
<1>4. /\ Len(b) = Len(args[k])
      /\ \/ \E m \in Node : Grown(m, b, label[k]) /\ ret' = m
         \/ Edited(k, b) /\ ret' = k /\ ~ Shared(k)
  BY <1>1, ReplacePost DEF HwIInv, b
<1>5. Listed(k) /\ Suits(label[k], Len(b))
  <2>1. Listed(k)
    BY <1>3
  <2>2. k \in Node /\ Live(k)
    BY <1>2, <2>1, HolderHeld
  <2> QED
    BY <1>2, <1>4, <2>1, <2>2 DEF HandTypeOK
<1>6. Undisturbed /\ HandTypeOK' /\ Cell' = Cell /\ (ret' = k \/ Fresh(ret)')
  BY <1>1, <1>2, <1>4, <1>5, EditedOrCopied
<1>7. phase' # "load"
  BY <1>1, <1>2 DEF Working
<1>8. CASE /\ calls' = <<Remove_head, Follow("newTop", k)>> /\ 2 \in DOMAIN Cell /\ k = Cell[2]
  <2>1. Drops(calls, k)'
    BY <1>6, <1>8 DEF Drops
  <2>2. Handles(calls)'
    BY <2>1 DEF Handles
  <2> QED
    BY <1>1, <1>2, <1>6, <1>7, <2>2, StillWorking
<1>9. CASE calls' = <<Set_elem(2, Ret)>>
  <2>1. Listed(ret)' \/ Fresh(ret)'
    BY <1>5, <1>6 DEF Listed
  <2>2. PutsBack(calls, 2)'
    BY <1>9, <2>1 DEF PutsBack
  <2>3. Handles(calls)'
    BY <2>2 DEF Handles
  <2> QED
    BY <1>1, <1>2, <1>6, <1>7, <2>3, StillWorking
<1> QED
  BY <1>3, <1>8, <1>9

\* updateTrimArgs.
LEMMA TrimReady ==
  ASSUME HwIInv, HandInv, panicked = "no", panicked' = "no", TrimArgs
  PROVE  HandTypeOK' /\ Ready'
<1>0. PICK k : k = Call.k
  OBVIOUS
<1> DEFINE b == SubSeq(args[k], 2, Len(args[k]))
<1>1. /\ calls # <<>> /\ Call.op = "updateTrimArgs"
      /\ UpdateTrimArgs(k, 1, Len(args[k])) /\ Labelled(label[k])
      /\ ret' = Returned(k) /\ built' = built /\ calls' = Tail(calls)
      /\ run' = run /\ phase' = phase
  BY <1>0 DEF TrimArgs, At, Returns, GoOn
<1>2. /\ Working /\ HolderOK /\ HandTypeOK /\ \E n, p : Trims(calls, n, p)
  BY <1>1, CallTells DEF HandInv
<1>3. PICK n, p : Trims(calls, n, p)
  BY <1>2
<1>4. k = n /\ Listed(k) /\ label[k] \notin Constructs /\ calls' = <<Set_elem(p, Ret)>>
  BY <1>0, <1>1, <1>3 DEF Trims, Call, Trim
<1> HIDE DEF b
<1>5. \/ \E m \in Node : Grown(m, b, label[k]) /\ ret' = m
      \/ Edited(k, b) /\ ret' = k /\ ~ Shared(k)
  BY <1>1, TrimPost DEF HwIInv, b
<1>6. Suits(label[k], Len(b))
  <2>1. k \in Node /\ Live(k)
    BY <1>2, <1>4, HolderHeld
  <2>2. Suits(label[k], Len(args[k]))
    BY <1>2, <2>1 DEF HandTypeOK
  <2> QED
    BY <1>4, <2>2, SuitsAny
<1>7. Undisturbed /\ HandTypeOK' /\ Cell' = Cell /\ (ret' = k \/ Fresh(ret)')
  BY <1>1, <1>2, <1>4, <1>5, <1>6, EditedOrCopied
<1>8. phase' # "load"
  BY <1>1, <1>2 DEF Working
<1>9. Listed(ret)' \/ Fresh(ret)'
  BY <1>4, <1>7 DEF Listed
<1>10. PutsBack(calls, p)'
  BY <1>4, <1>9 DEF PutsBack
<1>11. Handles(calls)'
  BY <1>10 DEF Handles
<1> QED
  BY <1>1, <1>2, <1>7, <1>8, <1>11, StillWorking

\* An edit of the holder.
LEMMA HolderEdited ==
  ASSUME HwIInv, HandInv, HolderOK, run' = run, NEW s, Edited(holder, s)
  PROVE  Undisturbed /\ HandTypeOK' /\ Cell' = s
<1>1. Suits(label[holder], Len(s))
  BY SuitsAny DEF HolderOK
<1> QED
  BY <1>1, EditedKeeps DEF HandInv

\* computation_set_elem.
LEMMA SetReady ==
  ASSUME HwIInv, HandInv, panicked = "no", panicked' = "no", Computation_set_elem
  PROVE  HandTypeOK' /\ Ready'
<1>1. /\ calls # <<>> /\ Call.op = "computation_set_elem"
      /\ K_set_arg(holder, Call.pos, Of(Call.v)) /\ label' = label
      /\ ret' = ret /\ built' = built /\ calls' = Tail(calls)
      /\ run' = run /\ phase' = phase
  BY DEF Computation_set_elem, At, Quiet, GoOn
<1>2. /\ Working /\ HolderOK
      /\ \/ \E v, h : Becoming(calls, v, h)
         \/ \E p : PutsBack(calls, p)
         \/ \E p, a : Puts(calls, p, a)
  BY <1>1, CallTells
<1>3. Edited(holder, [Cell EXCEPT ![Call.pos] = Of(Call.v)]) /\ Call.pos \in DOMAIN Cell
  BY <1>1, SetPost DEF HwIInv, Cell
<1>4. Undisturbed /\ HandTypeOK' /\ Cell' = [Cell EXCEPT ![Call.pos] = Of(Call.v)]
  BY <1>1, <1>2, <1>3, HolderEdited
<1>5. phase' # "load"
  BY <1>1, <1>2 DEF Working
<1>6. ASSUME NEW v, NEW h, Becoming(calls, v, h)
      PROVE  Handles(calls)'
  <2>1. calls = <<Set_elem(1, v), Follow(h, v)>> /\ Live(Of(v)) /\ Next_handler(h, v)
    BY <1>6 DEF Becoming
  <2>2. Call.pos = 1 /\ Call.v = v /\ calls' = <<Follow(h, v)>>
    BY <1>1, <2>1 DEF Call, Set_elem
  <2>3. Of(v)' = Of(v)
    BY <1>1 DEF Of
  <2>4. 1 \in DOMAIN Cell' /\ Of(v)' = Cell'[1]
    BY <1>3, <1>4, <2>2, <2>3
  <2>5. Next_handler(h, v)'
    BY <1>1, <2>1, <2>3 DEF Next_handler
  <2>6. Became(calls, v, h)'
    BY <2>2, <2>4, <2>5 DEF Became
  <2> QED
    BY <2>6 DEF Handles
<1>7. ASSUME (\E p : PutsBack(calls, p)) \/ (\E p, a : Puts(calls, p, a))
      PROVE  Handles(calls)'
  <2>0. \E d : calls = <<d>>
    BY <1>7 DEF PutsBack, Puts
  <2>1. calls' = <<>>
    BY <1>1, <2>0
  <2> QED
    BY <2>1, LastCallsShort DEF Handles, LastCalls, LastCall
<1>8. Handles(calls)'
  BY <1>2, <1>6, <1>7
<1> QED
  BY <1>1, <1>2, <1>4, <1>5, <1>8, StillWorking

\* computation_remove_head.
LEMMA RemoveReady ==
  ASSUME HwIInv, HandInv, panicked = "no", panicked' = "no", Computation_remove_head
  PROVE  HandTypeOK' /\ Ready'
<1> DEFINE b == SubSeq(Cell, 2, Len(Cell))
<1>1. /\ calls # <<>> /\ Call.op = "computation_remove_head"
      /\ UpdateTrimArgs(holder, 1, Len(Cell)) /\ Labelled(label[holder])
      /\ ret' = ret /\ built' = built /\ calls' = Tail(calls)
      /\ run' = run /\ phase' = phase
  BY DEF Computation_remove_head, At, GoOn
<1>2. Working /\ HolderOK /\ HandTypeOK /\ (LastCalls(calls) \/ \E n : Drops(calls, n))
  BY <1>1, CallTells DEF HandInv
<1>3. /\ Len(Cell) >= 1 /\ Len(b) = Len(Cell) - 1 /\ \A i \in 1..Len(b) : b[i] = Cell[i + 1]
      /\ \/ \E m \in Node : Grown(m, b, label[holder])
         \/ Edited(holder, b)
      /\ \A x \in Node : refs[x] = 0 => refs'[x] = 0
  BY <1>1, TrimPost DEF HwIInv, Cell
<1> HIDE DEF b
<1>4. Undisturbed /\ HandTypeOK' /\ (Cell' = Cell \/ Cell' = b)
  <2>1. CASE Edited(holder, b)
    BY <1>1, <1>2, <2>1, HolderEdited
  <2>2. ASSUME NEW m \in Node, Grown(m, b, label[holder])
        PROVE  Undisturbed /\ HandTypeOK' /\ Cell' = Cell
    <3>1. Suits(label[holder], Len(b))
      BY <1>2, SuitsAny DEF HolderOK
    <3> QED
      BY <1>1, <1>2, <2>2, <3>1, GrownKeeps
  <2> QED
    BY <1>3, <2>1, <2>2
<1>5. phase' # "load"
  BY <1>1, <1>2 DEF Working
<1>6. CASE LastCalls(calls)
  <2>1. LastCalls(calls')
    BY <1>1, <1>6, LastCallsTail
  <2>2. Handles(calls)'
    BY <2>1 DEF Handles, LastCalls, LastCall
  <2> QED
    BY <1>1, <1>2, <1>4, <1>5, <2>2, StillWorking
<1>7. ASSUME NEW n, Drops(calls, n) PROVE Ready'
  <2>1. /\ calls = <<Remove_head, Follow("newTop", n)>> /\ 2 \in DOMAIN Cell /\ n = Cell[2]
        /\ ret = n \/ Fresh(ret)
    BY <1>7 DEF Drops
  <2>2. calls' = <<Follow("newTop", n)>>
    BY <1>1, <2>1
  <2>3. n \in Range(Cell)
    BY <2>1 DEF Range
  <2>4. n \in Range(b)
    <3>1. b \in Seq(Node)
      BY <1>3 DEF Grown, Edited
    <3>2. Cell \in Seq(Node)
      BY <1>2, HolderHeld
    <3>3. 1 \in 1..Len(b)
      BY <1>3, <2>1, <3>2
    <3>4. b[1] = n
      BY <1>3, <2>1, <3>3
    <3> QED
      BY <3>1, <3>3, <3>4 DEF Range
  <2>5. Listed(n)'
    BY <1>4, <2>3, <2>4 DEF Listed
  <2>6. Fresh(ret) => Fresh(ret)'
    <3> SUFFICES ASSUME Fresh(ret) PROVE Fresh(ret)'
      OBVIOUS
    <3>1. ret \in Node /\ Live(ret) /\ refs[ret] = 0 /\ ~ permanent[ret]
      BY LiveIsNode DEF Fresh, HwIInv, IInv
    <3>2. Live(ret)' /\ refs'[ret] = 0 /\ ~ permanent'[ret]
      BY <1>1, <1>3, <1>4, <3>1 DEF Undisturbed, Live, Dead
    <3> QED
      BY <1>1, <3>2 DEF Fresh
  <2>7. Renews(calls, n)'
    BY <1>1, <2>1, <2>2, <2>5, <2>6 DEF Renews
  <2>8. Handles(calls)'
    BY <2>7 DEF Handles
  <2> QED
    BY <1>1, <1>2, <1>4, <1>5, <2>8, StillWorking
<1> QED
  BY <1>2, <1>4, <1>6, <1>7

\* What handleValue does last.
LEMMA NewTopReady ==
  ASSUME HwIInv, HandInv, panicked = "no", panicked' = "no", NewTop
  PROVE  HandTypeOK' /\ Ready'
<1>1. /\ calls # <<>> /\ Call.op = "newTop"
      /\ UNCHANGED vars \/ K_set_arg(holder, 1, ret)
      /\ label' = label /\ ret' = ret /\ built' = built /\ calls' = Tail(calls)
      /\ run' = run /\ phase' = phase
  BY DEF NewTop, At, Quiet, GoOn
<1>2. Working /\ HolderOK /\ \E n : Renews(calls, n)
  BY <1>1, CallTells
<1>3. Undisturbed /\ HandTypeOK'
  <2>1. CASE UNCHANGED vars
    BY <1>1, <2>1 DEF vars, Undisturbed, Live, Dead, HandInv, HandTypeOK
  <2>2. CASE K_set_arg(holder, 1, ret)
    BY <1>1, <1>2, <2>2, SetPost, HolderEdited DEF HwIInv
  <2> QED
    BY <1>1, <2>1, <2>2
<1>4. phase' # "load"
  BY <1>1, <1>2 DEF Working
<1>5. calls' = <<>>
  BY <1>1, <1>2 DEF Renews
<1>6. Handles(calls)'
  BY <1>5, LastCallsShort DEF Handles, LastCalls, LastCall
<1> QED
  BY <1>1, <1>2, <1>3, <1>4, <1>6, StillWorking

\* The heap is left alone.
LEMMA QuietKeeps ==
  ASSUME UNCHANGED <<vars, label, run>>
  PROVE  Undisturbed /\ (HandTypeOK => HandTypeOK') /\ work' = work /\ args' = args
<1>1. UNCHANGED <<args, permanent, garbage_k, mallocd, root, work, label, run>>
  BY DEF vars
<1>2. \A x : Live(x)' <=> Live(x)
  BY <1>1 DEF Live, Dead
<1>3. HandTypeOK => HandTypeOK'
  BY <1>1, <1>2 DEF HandTypeOK
<1>4. Undisturbed
  BY <1>1, <1>2 DEF Undisturbed
<1> QED
  BY <1>1, <1>3, <1>4

\* No call is left.
LEMMA NothingLeft ==
  ASSUME calls' = <<>>
  PROVE  Handles(calls)'
  BY LastCallsShort DEF Handles, LastCalls, LastCall

\* A node is in hand.
LEMMA LiveNotRet == ASSUME HwIInv, NEW n, Live(n) PROVE n \in Node /\ n # Ret
<1>1. n \in Node
  BY LiveIsNode DEF HwIInv, IInv
<1> QED
  BY <1>1, HeapAssumption DEF Ret, HeapAssumption

\* computation_add_front.
LEMMA AddReady ==
  ASSUME HwIInv, HandInv, panicked = "no", panicked' = "no", Computation_add_front
  PROVE  HandTypeOK' /\ Ready'
<1>1. calls # <<>> /\ Call.op = "computation_add_front"
  BY DEF Computation_add_front, At
<1>2. /\ Working /\ HolderOK /\ HandTypeOK
      /\ \/ \E a, n, i, h : Heats(calls, a, n, i, h)
         \/ \E a, n : Splits(calls, a, n)
         \/ \E a, b : Enters(calls, a, b)
         \/ \E a : Adds(calls, a)
  BY <1>1, CallTells DEF HandInv
<1>3. CASE TooMany
  <2>1. /\ UNCHANGED <<vars, label, run, built>> /\ calls' = <<>> /\ phase' = "too many elements"
    BY <1>3 DEF Computation_add_front, End
  <2>2. Undisturbed /\ HandTypeOK'
    BY <1>2, <2>1, QuietKeeps
  <2>3. phase' # "load"
    BY <2>1
  <2> QED
    BY <1>2, <2>1, <2>2, <2>3, NothingLeft, StillWorking
<1>4. CASE ~ TooMany
  <2>1. /\ K_add_front_arg(holder, Of(Call.v)) /\ label' = label
        /\ ret' = ret /\ built' = built /\ calls' = Tail(calls)
        /\ run' = run /\ phase' = phase
    BY <1>4 DEF Computation_add_front, Quiet, GoOn
  <2>2. PICK x : x = Of(Call.v)
    OBVIOUS
  <2>3. Edited(holder, <<x>> \o Cell) /\ work' = <<>> /\ x \in Node
    BY <2>1, <2>2, AddPost DEF HwIInv, Cell
  <2>4. Undisturbed /\ HandTypeOK' /\ Cell' = <<x>> \o Cell
    BY <1>2, <2>1, <2>3, HolderEdited
  <2>5. \A n : Live(n) => Live(n)'
    BY <2>1, <2>4, UndisturbedKeeps
  <2>6. \A n : Listed(n) => Listed(n)' /\ (label'[n] = label[n])
    <3>1. ASSUME NEW n, Listed(n) PROVE n \in Range(<<x>> \o Cell)
      <4>1. PICK i \in DOMAIN Cell : Cell[i] = n
        BY <3>1 DEF Listed, Range
      <4>2. Cell \in Seq(Node) /\ <<x>> \in Seq(Node)
        BY <1>2, <2>3, HolderHeld
      <4>3. i \in 1..Len(Cell) /\ Len(Cell) \in Nat
        BY <4>1, <4>2, LenProperties
      <4>4. /\ i + 1 \in DOMAIN (<<x>> \o Cell) /\ (<<x>> \o Cell)[i + 1] = n
        BY <4>1, <4>2, <4>3
      <4> QED
        BY <4>4 DEF Range
    <3>2. \A n : Listed(n) => n \in Node /\ Live(n)
      BY <1>2, HolderHeld
    <3>3. \A n : Listed(n) => label'[n] = label[n]
      BY <2>1
    <3> QED
      BY <2>4, <3>1, <3>3 DEF Listed
  <2>7. ASSUME NEW a, NEW n, NEW i, NEW h, Heats(calls, a, n, i, h) PROVE Handles(calls)'
    <3>1. calls' = <<Replace_arg(n, i, h), Set_elem(2, Ret)>> /\ Listed(n) /\ Live(h)
      BY <2>1, <2>7 DEF Heats
    <3>2. LeavesHole(calls, n, i, h)'
      BY <2>3, <2>5, <2>6, <3>1 DEF LeavesHole
    <3> QED
      BY <3>2 DEF Handles
  <2>8. ASSUME NEW a, NEW n, Splits(calls, a, n) PROVE Handles(calls)'
    <3>1. calls' = <<Trim(n), Set_elem(2, Ret)>> /\ Listed(n) /\ label[n] \notin Constructs
      BY <2>1, <2>8 DEF Splits
    <3>2. Trims(calls, n, 2)'
      BY <2>6, <3>1 DEF Trims
    <3> QED
      BY <3>2 DEF Handles
  <2>9. ASSUME NEW a, NEW b, Enters(calls, a, b) PROVE Handles(calls)'
    <3>1. calls' = <<Set_elem(2, b)>> /\ Live(b)
      BY <2>1, <2>9 DEF Enters
    <3>2. Puts(calls, 2, b)'
      BY <2>3, <2>5, <3>1, LiveNotRet DEF Puts, Ret
    <3> QED
      BY <3>2 DEF Handles
  <2>10. ASSUME NEW a, Adds(calls, a) PROVE Handles(calls)'
    <3>1. calls' = <<>>
      BY <2>1, <2>10 DEF Adds
    <3> QED
      BY <3>1, NothingLeft
  <2>11. phase' # "load"
    BY <1>2, <2>1 DEF Working
  <2>12. Handles(calls)'
    BY <1>2, <2>7, <2>8, <2>9, <2>10
  <2> QED
    BY <1>2, <2>1, <2>4, <2>11, <2>12, StillWorking
<1> QED
  BY <1>3, <1>4

\* updateStore.
LEMMA StoreReady ==
  ASSUME HwIInv, HandInv, panicked = "no", panicked' = "no", Update_store
  PROVE  HandTypeOK' /\ Ready'
<1>1. /\ calls # <<>> /\ Call.op = "updateStore"
      /\ Call.key \in Key /\ Own(Call.key, Of(Call.v)) /\ label' = label
      /\ ret' = ret /\ built' = built /\ calls' = Tail(calls)
      /\ run' = run /\ phase' = phase
  BY DEF Update_store, At, Quiet, GoOn
<1>2. /\ Working /\ HolderOK /\ HandTypeOK
      /\ \/ \E x, v, n : Declares(calls, x, v, n)
         \/ \E x, v : Assigns(calls, x, v)
  BY <1>1, CallTells DEF HandInv
<1>3. Undisturbed /\ HandTypeOK' /\ Cell' = Cell
  <2>1. Call.key \in Root
    BY <1>1, HandAssumption DEF HandAssumption
  <2>2. /\ root' = [root EXCEPT ![Call.key] = Of(Call.v)] /\ args' = args /\ permanent' = permanent
        /\ \A x \in Node : Live(x)' <=> Live(x)
    BY <1>1, <2>1, OwnPost DEF HwIInv
  <2>3. PICK x, k : x = Call.key /\ k = Of(Call.v)
    OBVIOUS
  <2>4. x \in Key /\ root' = [root EXCEPT ![x] = k]
    BY <1>1, <2>2, <2>3
  <2> QED
    BY <1>1, <1>2, <2>2, <2>4, KeyKeeps
<1>4. phase' # "load"
  BY <1>1, <1>2 DEF Working
<1>5. ASSUME NEW x, NEW v, NEW n, Declares(calls, x, v, n) PROVE Handles(calls)'
  <2>1. calls' = <<Trim(n), Set_elem(1, Ret)>> /\ Listed(n) /\ label[n] \notin Constructs
    BY <1>1, <1>5 DEF Declares
  <2>2. Trims(calls, n, 1)'
    BY <1>1, <1>3, <2>1 DEF Trims, Listed
  <2> QED
    BY <2>2 DEF Handles
<1>6. ASSUME NEW x, NEW v, Assigns(calls, x, v) PROVE Handles(calls)'
  <2>1. calls' = <<Remove_head>>
    BY <1>1, <1>6 DEF Assigns
  <2> QED
    BY <2>1, LastCallsShort DEF Handles, LastCalls, LastCall
<1>7. Handles(calls)'
  BY <1>2, <1>5, <1>6
<1> QED
  BY <1>1, <1>2, <1>3, <1>4, <1>7, StillWorking

\* state_cleanup.
LEMMA CleanupReady ==
  ASSUME HwIInv, HandInv, panicked = "no", panicked' = "no", State_cleanup
  PROVE  HandTypeOK' /\ Ready'
<1>1. /\ calls # <<>> /\ Call.op = "state_cleanup"
      /\ Call.key \in Key /\ Disown(Call.key) /\ label' = label
      /\ ret' = ret /\ built' = built /\ calls' = Tail(calls)
      /\ run' = run /\ phase' = phase
  BY DEF State_cleanup, At, Quiet, GoOn
<1>2. Working /\ HolderOK /\ HandTypeOK /\ LastCalls(calls)
  BY <1>1, CallTells DEF HandInv
<1>3. Undisturbed /\ HandTypeOK'
  <2>1. Call.key \in Root
    BY <1>1, HandAssumption DEF HandAssumption
  <2>2. /\ root' = [root EXCEPT ![Call.key] = NoNode] /\ args' = args /\ permanent' = permanent
        /\ \A x \in Node : Live(x)' <=> Live(x)
    BY <1>1, <2>1, DisownPost DEF HwIInv
  <2>3. PICK x : x = Call.key
    OBVIOUS
  <2>4. x \in Key /\ root' = [root EXCEPT ![x] = NoNode]
    BY <1>1, <2>2, <2>3
  <2> QED
    BY <1>1, <1>2, <2>2, <2>4, KeyKeeps
<1>4. phase' # "load"
  BY <1>1, <1>2 DEF Working
<1>5. LastCalls(calls')
  BY <1>1, <1>2, LastCallsTail
<1>6. Handles(calls)'
  BY <1>5 DEF Handles, LastCalls, LastCall
<1> QED
  BY <1>1, <1>2, <1>3, <1>4, <1>6, StillWorking

\* A panic ends the program.
LEMMA StopsReady ==
  ASSUME HwIInv, HandInv, panicked = "no", Stops
  PROVE  HandTypeOK' /\ Ready'
<1>1. /\ calls # <<>> /\ Call.op = "panic" /\ calls' = <<>> /\ phase' = Call.why
      /\ UNCHANGED <<vars, label, run, built>>
  BY DEF Stops, At, End
<1>2. Working /\ HolderOK /\ HandTypeOK /\ LastCalls(calls)
  BY <1>1, CallTells DEF HandInv
<1>3. phase' # "load"
  BY <1>1, <1>2, LastCallsTail DEF LastCall, Call
<1>4. Undisturbed /\ HandTypeOK'
  BY <1>1, <1>2, QuietKeeps
<1> QED
  BY <1>1, <1>2, <1>3, <1>4, NothingLeft, StillWorking

\* The node a handler makes.
LEMMA NodeMade ==
  ASSUME HwIInv, HandInv, panicked' = "no", NewNode, Suits(Call.label, Len(Call.args))
  PROVE  /\ Undisturbed /\ HandTypeOK'
         /\ Fresh(ret)' /\ Dead(ret') /\ label'[ret'] = Call.label /\ work' = <<>>
         /\ Call.args = <<>> => \A x \in Node : Live(x) => refs'[x] = refs[x]
<1> DEFINE s == [i \in DOMAIN Call.args |-> Of(Call.args[i])]
<1>1. /\ s \in Seq(Node) /\ K_new(s) /\ Labelled(Call.label)
      /\ ret' = Returned(NoNode) /\ run' = run
  BY DEF NewNode, Makes, Returns, GoOn
<1>2. Len(s) = Len(Call.args)
  OBVIOUS
<1>3. Call.args = <<>> => Range(s) = {}
  BY DEF Range
<1>4. PICK l : l = Call.label
  OBVIOUS
<1>5. PICK t : t = s
  OBVIOUS
<1> HIDE DEF s
<1>6. PICK n \in Node : /\ Grown(n, t, l) /\ (\A k : Returned(k) = n) /\ work' = <<>>
                        /\ \A x \in Node : x \notin Range(t) /\ x # n => refs'[x] = refs[x]
  BY <1>1, <1>4, <1>5, NewPost DEF HwIInv
<1>7. /\ Undisturbed /\ Live(n)' /\ label'[n] = l /\ ~ permanent'[n] /\ refs'[n] = 0
      /\ HandTypeOK /\ Suits(l, Len(t)) => HandTypeOK'
  BY <1>1, <1>6, GrownKeeps
<1>8. HandTypeOK'
  BY <1>2, <1>4, <1>5, <1>7 DEF HandInv
<1>9. ret' = n /\ Dead(n)
  BY <1>1, <1>6 DEF Grown
<1>10. Fresh(ret)'
  BY <1>7, <1>9 DEF Fresh, Live, Dead
<1>11. Call.args = <<>> => \A x \in Node : Live(x) => refs'[x] = refs[x]
  BY <1>3, <1>5, <1>6, <1>9 DEF Live
<1> QED
  BY <1>4, <1>6, <1>7, <1>8, <1>9, <1>10, <1>11

\* k_new of a handler.
LEMMA NewReady ==
  ASSUME HwIInv, HandInv, panicked = "no", panicked' = "no", NewNode
  PROVE  HandTypeOK' /\ Ready'
<1>1. /\ calls # <<>> /\ Call.op = "k_new"
      /\ built' = built /\ calls' = Tail(calls) /\ run' = run /\ phase' = phase
  BY DEF NewNode, At, Returns, GoOn
<1>2. /\ Working
      /\ \/ \E v : Making1(v)
         \/ /\ HolderOK
            /\ \/ \E l : Numbers(calls, l)
               \/ Wraps(calls)
               \/ \E b, n, g, s : Loops(calls, b, n, g, s)
               \/ \E g, s : Branches(calls, g, s)
  BY <1>1, CallTells
<1>3. phase' # "load"
  BY <1>1, <1>2 DEF Working
<1>4. ASSUME NEW v, Making1(v) PROVE HandTypeOK' /\ Ready'
  <2>1. calls = <<New("_kra", <<>>), MakeHolder, Add_front(v)>> /\ Calm(v)
    BY <1>4 DEF Making1
  <2>2. Call.label = "_kra" /\ Call.args = <<>> /\ calls' = <<MakeHolder, Add_front(v)>>
    BY <1>1, <2>1 DEF Call, New
  <2>3. /\ Undisturbed /\ HandTypeOK'
        /\ Fresh(ret)' /\ Dead(ret') /\ label'[ret'] = "_kra" /\ work' = <<>>
        /\ \A x \in Node : Live(x) => refs'[x] = refs[x]
    BY <2>2, NodeMade, SuitsAny
  <2>4. v \in Node /\ Live(v) /\ ret' # v
    BY <2>1, <2>3, LiveNotRet DEF Calm, Live
  <2>5. Calm(v)'
    BY <2>1, <2>3, <2>4 DEF Calm, Undisturbed
  <2>6. Making2(v)'
    BY <2>2, <2>3, <2>4, <2>5 DEF Making2
  <2>7. ConstantsHeld'
    BY <1>1, <1>2, <2>3, UndisturbedKeeps DEF Working
  <2>8. Working'
    BY <1>3, <2>6, <2>7 DEF Working
  <2> QED
    BY <1>1, <2>3, <2>8 DEF Ready, HandInv
<1>5. ASSUME HolderOK, Suits(Call.label, Len(Call.args)),
             Undisturbed /\ Fresh(ret)' /\ label'[ret'] = Call.label /\ work' = <<>> =>
               Handles(calls)'
      PROVE  HandTypeOK' /\ Ready'
  <2>1. Undisturbed /\ HandTypeOK' /\ Fresh(ret)' /\ label'[ret'] = Call.label /\ work' = <<>>
    BY <1>5, NodeMade
  <2> QED
    BY <1>1, <1>2, <1>3, <1>5, <2>1, StillWorking
<1>6. ASSUME HolderOK, NEW l, Numbers(calls, l) PROVE HandTypeOK' /\ Ready'
  <2>1. /\ calls = <<New(l, <<>>), New("#int", <<Ret>>), Set_elem(1, Ret), Follow("handleValue", Ret)>>
        /\ l \in DOMAIN Num
    BY <1>6 DEF Numbers
  <2>2. /\ Call.label = l /\ Call.args = <<>>
        /\ calls' = <<New("#int", <<Ret>>), Set_elem(1, Ret), Follow("handleValue", Ret)>>
    BY <1>1, <2>1 DEF Call, New
  <2>3. Suits(Call.label, Len(Call.args))
    BY <2>1, <2>2, SuitsAny
  <2>4. ASSUME Fresh(ret)', work' = <<>> PROVE Handles(calls)'
    <3>1. Wraps(calls)'
      BY <2>2, <2>4 DEF Wraps, Fresh
    <3> QED
      BY <3>1 DEF Handles
  <2> QED
    BY <1>5, <1>6, <2>3, <2>4
<1>7. ASSUME HolderOK, Wraps(calls) PROVE HandTypeOK' /\ Ready'
  <2>1. calls = <<New("#int", <<Ret>>), Set_elem(1, Ret), Follow("handleValue", Ret)>>
    BY <1>7 DEF Wraps
  <2>2. Call.label = "#int" /\ calls' = <<Set_elem(1, Ret), Follow("handleValue", Ret)>>
    BY <1>1, <2>1 DEF Call, New
  <2>3. Suits(Call.label, Len(Call.args))
    BY <2>2, SuitsAny
  <2>4. ASSUME Fresh(ret)', work' = <<>> PROVE Handles(calls)'
    <3>1. Becoming(calls, Ret, "handleValue")'
      BY <2>2, <2>4 DEF Becoming, Fresh, Of, Next_handler, Ret
    <3> QED
      BY <3>1 DEF Handles
  <2> QED
    BY <1>5, <1>7, <2>3, <2>4
<1>8. ASSUME HolderOK, NEW b, NEW n, NEW g, NEW s, Loops(calls, b, n, g, s)
      PROVE  HandTypeOK' /\ Ready'
  <2>1. /\ calls = <<New("statements", <<b, n>>), New("ifThenElse", <<g, Ret, s>>),
                     Set_elem(1, Ret), Follow("handleIf", Ret)>>
        /\ Live(g) /\ Live(s)
    BY <1>8 DEF Loops
  <2>2. /\ Call.label = "statements"
        /\ calls' = <<New("ifThenElse", <<g, Ret, s>>), Set_elem(1, Ret), Follow("handleIf", Ret)>>
    BY <1>1, <2>1 DEF Call, New
  <2>3. Suits(Call.label, Len(Call.args))
    BY <2>2, SuitsAny
  <2>4. ASSUME Undisturbed, Fresh(ret)', work' = <<>> PROVE Handles(calls)'
    <3>1. Live(g)' /\ Live(s)'
      BY <1>1, <2>1, <2>4, UndisturbedKeeps
    <3>2. Branches(calls, g, s)'
      BY <2>2, <2>4, <3>1 DEF Branches, Fresh
    <3> QED
      BY <3>2 DEF Handles
  <2> QED
    BY <1>5, <1>8, <2>3, <2>4
<1>9. ASSUME HolderOK, NEW g, NEW s, Branches(calls, g, s) PROVE HandTypeOK' /\ Ready'
  <2>1. calls = <<New("ifThenElse", <<g, Ret, s>>), Set_elem(1, Ret), Follow("handleIf", Ret)>>
    BY <1>9 DEF Branches
  <2>2. /\ Call.label = "ifThenElse" /\ Call.args = <<g, Ret, s>>
        /\ calls' = <<Set_elem(1, Ret), Follow("handleIf", Ret)>>
    BY <1>1, <2>1 DEF Call, New
  <2>3. Suits(Call.label, Len(Call.args))
    BY <2>2, SuitsAny
  <2>4. ASSUME Fresh(ret)', label'[ret'] = "ifThenElse", work' = <<>> PROVE Handles(calls)'
    <3>1. Becoming(calls, Ret, "handleIf")'
      BY <2>2, <2>4 DEF Becoming, Fresh, Of, Next_handler, Ret
    <3> QED
      BY <3>1 DEF Handles
  <2> QED
    BY <1>5, <1>9, <2>2, <2>3, <2>4
<1> QED
  BY <1>2, <1>4, <1>6, <1>7, <1>8, <1>9

\* newComputationCell.
LEMMA NewCellReady ==
  ASSUME HwIInv, HandInv, panicked = "no", panicked' = "no", NewComputationCell
  PROVE  HandTypeOK' /\ Ready'
<1>1. /\ calls # <<>> /\ Call.op = "newComputationCell"
      /\ Own(Cells[run], ret) /\ label' = label /\ ret' = ret
      /\ built' = built /\ calls' = Tail(calls) /\ run' = run /\ phase' = phase
  BY DEF NewComputationCell, At, GoOn, Quiet
<1>2. Working /\ \E v : Making2(v)
  BY <1>1, CallTells
<1>3. PICK v : Making2(v)
  BY <1>2
<1>4. /\ calls = <<MakeHolder, Add_front(v)>> /\ Calm(v)
      /\ Fresh(ret) /\ label[ret] = "_kra" /\ ret # v
  BY <1>3 DEF Making2
<1>5. Cells[run] \in Root /\ root \in [Root -> Node \cup {NoNode}]
  BY HandAssumption DEF HandAssumption, HwIInv, IInv, TypeOK
<1>6. /\ ret \in Node /\ root' = [root EXCEPT ![Cells[run]] = ret] /\ args' = args
      /\ permanent' = permanent /\ \A x \in Node : Live(x)' <=> Live(x)
      /\ \A x \in Node \ {ret} : refs'[x] = refs[x]
  BY <1>1, <1>5, OwnPost DEF HwIInv
<1>7. HandTypeOK'
  BY <1>1, <1>6 DEF HandInv, HandTypeOK
<1>8. v \in Node /\ Live(v)
  BY <1>4, LiveNotRet DEF Calm
<1>9. Calm(v)'
  BY <1>4, <1>6, <1>8 DEF Calm
<1>10. holder' = ret
  BY <1>1, <1>5, <1>6 DEF holder
<1>11. HolderOK'
  BY <1>1, <1>4, <1>5, <1>6, <1>10, HeapAssumption DEF HolderOK, HeapAssumption
<1>12. Adds(calls, v)'
  BY <1>1, <1>4, <1>9 DEF Adds
<1>13. Handles(calls)'
  BY <1>12 DEF Handles
<1>14. \A x : Live(x) => Live(x)'
  BY <1>6, LiveNotRet
<1>15. ConstantsHeld'
  BY <1>1, <1>2, <1>6, <1>14 DEF Working, ConstantsHeld
<1>16. Working'
  BY <1>1, <1>2, <1>11, <1>13, <1>15 DEF Working
<1> QED
  BY <1>1, <1>7, <1>16 DEF Ready, HandInv

\* What is still in a list once the head is taken off.
LEMMA StillListed ==
  ASSUME NEW S, NEW c \in Seq(S), c # <<>>, NEW x \in Range(c), x # Head(c)
  PROVE  x \in Range(Tail(c))
<1>1. PICK i \in DOMAIN c : c[i] = x
  BY DEF Range
<1>2. i \in 1..Len(c) /\ Len(c) \in Nat /\ i # 1
  BY <1>1, LenProperties
<1>3. i - 1 \in DOMAIN Tail(c) /\ Tail(c)[i - 1] = x
  BY <1>1, <1>2, HeadTailProperties
<1> QED
  BY <1>3 DEF Range

\* aterm_to_k makes a node of the program, or the runtime one of its constants.
LEMMA BuildReady ==
  ASSUME HwIInv, HandInv, panicked = "no", panicked' = "no", BuildNode
  PROVE  HandTypeOK' /\ Ready'
<1> DEFINE s == [i \in DOMAIN Call.args |-> built[Call.args[i]]]
<1>1. /\ calls # <<>> /\ Call.op = "build" /\ s \in Seq(Node) /\ K_new(s) /\ Labelled(Call.label)
      /\ built' = Append(built, Returned(NoNode)) /\ calls' = Tail(calls)
      /\ run' = run /\ phase' = phase
  BY DEF BuildNode, At, Makes, GoOn
<1>2. Loading /\ HandTypeOK /\ built \in Seq(Node)
  BY <1>1, CallTells DEF HandInv, Ready
<1>3. LoadCall(Call) /\ LoadCalls(Tail(calls))
  BY <1>1, <1>2, LoadCallsTail DEF Loading, Call
<1>4. Suits(Call.label, Len(s))
  BY <1>1, <1>3 DEF LoadCall
<1>5. PICK l, t : l = Call.label /\ t = s
  OBVIOUS
<1> HIDE DEF s
<1>6. PICK n \in Node : Grown(n, t, l) /\ (\A k : Returned(k) = n) /\ work' = <<>>
  BY <1>1, <1>5, NewPost DEF HwIInv
<1>7. Undisturbed /\ Live(n)' /\ refs'[n] = 0 /\ (HandTypeOK /\ Suits(l, Len(t)) => HandTypeOK')
  BY <1>1, <1>6, GrownKeeps
<1>8. HandTypeOK'
  BY <1>2, <1>4, <1>5, <1>7
<1>9. /\ built' \in Seq(Node) /\ built' # <<>> /\ Last(built') = n
      /\ \A p \in DOMAIN built : p \in DOMAIN built' /\ built'[p] = built[p]
  <2>1. built' = Append(built, n)
    BY <1>1, <1>6
  <2> QED
    BY <1>2, <2>1 DEF Last
<1>10. Calm(Last(built))'
  BY <1>7, <1>9 DEF Calm
<1>11. ASSUME NEW p \in Constant
       PROVE  (Permanent(p) \in Range(calls) \/ (p \in DOMAIN built /\ Live(built[p]) /\ permanent[built[p]]))'
  <2>1. CASE Permanent(p) \in Range(calls)
    <3>1. \E S : calls \in Seq(S)
      BY <1>2 DEF Loading, LoadCalls
    <3>2. Permanent(p) # Head(calls)
      BY <1>1 DEF Permanent, Call
    <3>3. Permanent(p) \in Range(calls')
      BY <1>1, <2>1, <3>1, <3>2, StillListed
    <3> QED
      BY <3>3
  <2>2. CASE p \in DOMAIN built /\ Live(built[p]) /\ permanent[built[p]]
    <3>1. p \in DOMAIN built' /\ built'[p] = built[p] /\ built[p] \in Node
      BY <1>2, <1>9, <2>2
    <3> QED
      BY <1>7, <2>2, <3>1 DEF Undisturbed
  <2> QED
    BY <1>2, <2>1, <2>2 DEF Loading
<1>12. Loading'
  BY <1>1, <1>2, <1>3, <1>6, <1>10, <1>11 DEF Loading
<1> QED
  BY <1>8, <1>9, <1>12 DEF Ready

\* k_make_permanent.
LEMMA PermanentReady ==
  ASSUME HwIInv, HandInv, panicked = "no", panicked' = "no", Make_permanent
  PROVE  HandTypeOK' /\ Ready'
<1>0. PICK q, k : q = Call.at /\ k = built[q]
  OBVIOUS
<1>1. /\ calls # <<>> /\ Call.op = "k_make_permanent" /\ q \in DOMAIN built /\ K_make_permanent(k)
      /\ label' = label /\ built' = built /\ calls' = Tail(calls)
      /\ run' = run /\ phase' = phase
  BY <1>0 DEF Make_permanent, At, GoOn, Quiet
<1>2. Loading /\ HandTypeOK /\ built \in Seq(Node)
  BY <1>1, CallTells DEF HandInv, Ready
<1>3. LoadCalls(Tail(calls)) /\ \E S : calls \in Seq(S)
  BY <1>1, <1>2, LoadCallsTail DEF Loading, LoadCalls
<1>4. /\ permanent' = [permanent EXCEPT ![k] = TRUE] /\ Live(k)
      /\ UNCHANGED <<refs, args, garbage_k, mallocd, work>> /\ permanent \in [Node -> BOOLEAN]
  BY <1>1 DEF K_make_permanent, Fresh, HwIInv, IInv, TypeOK
<1>5. \A x : Live(x)' <=> Live(x)
  BY <1>4 DEF Live, Dead
<1>6. HandTypeOK'
  BY <1>1, <1>2, <1>4, <1>5 DEF HandTypeOK
<1>7. \A x \in Node : permanent[x] => permanent'[x]
  BY <1>4
<1>8. built # <<>> => Calm(Last(built))'
  <2>1. ASSUME built # <<>> PROVE Last(built) \in Node /\ Calm(Last(built))
    BY <1>2, <2>1 DEF Loading, Last
  <2> QED
    BY <1>1, <1>4, <1>5, <1>7, <2>1 DEF Calm
<1>9. ASSUME NEW p \in Constant
      PROVE  (Permanent(p) \in Range(calls) \/ (p \in DOMAIN built /\ Live(built[p]) /\ permanent[built[p]]))'
  <2>1. CASE Permanent(p) \in Range(calls) /\ Permanent(p) # Head(calls)
    <3>1. Permanent(p) \in Range(calls')
      BY <1>1, <1>3, <2>1, StillListed
    <3> QED
      BY <3>1
  <2>2. CASE Permanent(p) = Head(calls)
    <3>1. p = q
      BY <1>0, <2>2 DEF Permanent, Call
    <3>2. k \in Node /\ permanent'[k]
      BY <1>0, <1>1, <1>2, <1>4
    <3> QED
      BY <1>0, <1>1, <1>4, <1>5, <3>1, <3>2
  <2>3. CASE p \in DOMAIN built /\ Live(built[p]) /\ permanent[built[p]]
    <3>1. built[p] \in Node
      BY <1>2, <2>3
    <3> QED
      BY <1>1, <1>5, <1>7, <2>3, <3>1
  <2> QED
    BY <1>2, <2>1, <2>2, <2>3 DEF Loading
<1>10. Loading'
  BY <1>1, <1>2, <1>3, <1>4, <1>8, <1>9 DEF Loading
<1> QED
  BY <1>1, <1>2, <1>6, <1>10 DEF Ready

-----------------------------------------------------------------------------
(* The calls a handler makes for the term at the top.                      *)

AtTop(top) == /\ HolderOK /\ ConstantsHeld /\ HandTypeOK /\ work = <<>>
              /\ 1 \in DOMAIN Cell /\ top = Cell[1]

\* What a handler may read.
LEMMA TopRead ==
  ASSUME HwIInv, NEW top, AtTop(top)
  PROVE  /\ Listed(top) /\ Live(top) /\ top \in Node
         /\ args[top] \in Seq(Node)
         /\ \A i \in DOMAIN args[top] : Live(Arg(top, i)) /\ Arg(top, i) # Ret
         /\ label[top] \in Constructs => DOMAIN args[top] = 1..Arity(label[top])
         /\ Live(Hole) /\ Live(False) /\ Live(True) /\ Live(Zero) /\ Live(Skip)
         /\ \A x \in Owned : Live(root[x]) /\ root[x] # Ret
<1>1. Listed(top) /\ Live(top) /\ top \in Node
  BY HolderHeld DEF AtTop
<1>2. args[top] \in Seq(Node)
  BY <1>1 DEF HwIInv, IInv, TypeOK
<1>3. ASSUME NEW i \in DOMAIN args[top] PROVE Live(Arg(top, i)) /\ Arg(top, i) # Ret
  BY <1>1, <1>3, ArgLive, LiveNotRet DEF Arg, HwIInv
<1>4. label[top] \in Constructs => DOMAIN args[top] = 1..Arity(label[top])
  BY <1>1, <1>2, LenProperties DEF AtTop, HandTypeOK, Suits
<1>5. Live(Hole) /\ Live(False) /\ Live(True) /\ Live(Zero) /\ Live(Skip)
  BY DEF AtTop, ConstantsHeld, Constant, Hole, False, True, Zero, Skip
<1>6. ASSUME NEW x \in Owned PROVE Live(root[x]) /\ root[x] # Ret
  <2>1. x \in Root /\ root[x] # NoNode
    BY HandAssumption DEF HandAssumption, Owned
  <2> QED
    BY <2>1, OwnedLive DEF HwIInv, Ret
<1> QED
  BY <1>1, <1>2, <1>3, <1>4, <1>5, <1>6

\* The pieces the lists are made of.
LEMMA PieceHandles ==
  ASSUME HwIInv, NEW top, AtTop(top)
  PROVE  /\ Handles(<<>>) /\ Handles(<<Remove_head>>)
         /\ \A w : w # "load" => Handles(<<Panic(w)>>)
         /\ \A v : Live(v) => Handles(Becomes(v))
         /\ \A i : Handles(NewInt(i))
         /\ \A b : Handles(Becomes(Truth(b)))
         /\ \A p, a : Live(a) => Handles(<<Set_elem(p, a)>>)
         /\ \A i \in DOMAIN args[top] : Handles(Heat(top, i))
<1>1. Handles(<<>>) /\ Handles(<<Remove_head>>) /\ \A w : w # "load" => Handles(<<Panic(w)>>)
  BY LastCallsShort DEF Handles
<1>2. ASSUME NEW v, Live(v) PROVE Handles(Becomes(v))
  <2>1. Of(v) = v
    BY <1>2, LiveNotRet DEF Of
  <2>2. Becoming(Becomes(v), v, "handleValue")
    BY <1>2, <2>1 DEF AtTop, Becoming, Becomes, Next_handler
  <2> QED
    BY <2>2 DEF Handles
<1>3. ASSUME NEW i PROVE Handles(NewInt(i))
  <2>1. IntLabel(i) \in DOMAIN Num
    <3>1. \E l \in DOMAIN Num : Wrap(i) \in IntValue => Num[l] = Wrap(i)
      <4>1. CASE Wrap(i) \in IntValue
        BY <4>1 DEF IntValue
      <4>2. CASE Wrap(i) \notin IntValue
        BY <4>2, HandAssumption DEF HandAssumption
      <4> QED
        BY <4>1, <4>2
    <3> QED
      BY <3>1 DEF IntLabel
  <2>2. PICK l : l = IntLabel(i)
    OBVIOUS
  <2>3. NewInt(i) = <<New(l, <<>>), New("#int", <<Ret>>), Set_elem(1, Ret), Follow("handleValue", Ret)>>
    <3>1. NewInt(i) = <<New(l, <<>>), New("#int", <<Ret>>)>>
                        \o <<Set_elem(1, Ret), Follow("handleValue", Ret)>>
      BY <2>2, Zenon DEF NewInt, Becomes
    <3>2. PICK a, b, c, d : /\ a = New(l, <<>>) /\ b = New("#int", <<Ret>>)
                            /\ c = Set_elem(1, Ret) /\ d = Follow("handleValue", Ret)
      BY Zenon
    <3>3. <<a, b, c, d>> = <<a, b>> \o <<c, d>>
      BY Z3
    <3> QED
      BY <3>1, <3>2, <3>3, Zenon
  <2>4. Numbers(NewInt(i), l)
    BY <2>1, <2>2, <2>3 DEF AtTop, Numbers
  <2> QED
    BY <2>4 DEF Handles
<1>4. ASSUME NEW b PROVE Handles(Becomes(Truth(b)))
  <2>1. PICK v : v = Truth(b)
    OBVIOUS
  <2>2. Live(v)
    BY <2>1, TopRead DEF Truth
  <2> QED
    BY <1>2, <2>1, <2>2
<1>5. ASSUME NEW p, NEW a, Live(a) PROVE Handles(<<Set_elem(p, a)>>)
  <2>1. Puts(<<Set_elem(p, a)>>, p, a)
    BY <1>5, LiveNotRet DEF Puts, AtTop
  <2> QED
    BY <2>1 DEF Handles
<1>6. ASSUME NEW i \in DOMAIN args[top] PROVE Handles(Heat(top, i))
  <2>1. Heats(Heat(top, i), Arg(top, i), top, i, Hole)
    BY TopRead DEF Heats, Heat, AtTop
  <2> QED
    BY <2>1 DEF Handles
<1> QED
  BY <1>1, <1>2, <1>3, <1>4, <1>5, <1>6

\* A strict construct either heats an argument or applies its rule.
LEMMA StrictHandles ==
  ASSUME HwIInv, NEW top, AtTop(top), NEW at, at \in {{1}, {2}, {1, 2}}, at \subseteq DOMAIN args[top],
         NEW rule, Handles(rule)
  PROVE  Handles(Strict(top, at, rule))
<1> DEFINE todo == {i \in at : ~ isValue(Arg(top, i))}
<1>1. ASSUME todo # {} PROVE Min(todo) \in DOMAIN args[top]
  <2>1. todo \subseteq {1, 2} /\ todo \subseteq at
    OBVIOUS
  <2> HIDE DEF todo
  <2>2. \E x \in todo : \A y \in todo : x <= y
    BY <1>1, <2>1
  <2>3. Min(todo) \in todo
    BY <2>2 DEF Min
  <2> QED
    BY <2>1, <2>3
<1> HIDE DEF todo
<1>2. Strict(top, at, rule) = IF todo # {} THEN Heat(top, Min(todo)) ELSE rule
  BY DEF Strict, todo
<1>3. PICK i : i = Min(todo)
  OBVIOUS
<1>4. CASE todo # {}
  BY <1>1, <1>2, <1>3, <1>4, PieceHandles
<1> QED
  BY <1>2, <1>4

\* Each handler.
LEMMA HandlersHandle ==
  ASSUME HwIInv, NEW top, AtTop(top)
  PROVE  /\ Handles(handleValue(top))
         /\ label[top] = "id" => Handles(handleVariable(top))
         /\ label[top] = "program" => Handles(handleProgram(top))
         /\ label[top] = "statements" => Handles(handleStatements(top))
         /\ label[top] = "var" => Handles(handleVar(top))
         /\ label[top] = "assign" => Handles(handleAssign(top))
         /\ label[top] = "ifThenElse" => Handles(handleIf(top))
         /\ label[top] = "while" => Handles(handleWhile(top))
         /\ label[top] = "not" => Handles(handleNot(top))
         /\ label[top] = "lte" => Handles(handleLTE(top))
         /\ label[top] = "plus" => Handles(handlePlus(top))
         /\ label[top] = "minus" => Handles(handleMinus(top))
         /\ label[top] = "div" => Handles(handleDiv(top))
         /\ label[top] = "and" => Handles(handleAnd(top))
         /\ label[top] = "neg" => Handles(handleNeg(top))
         /\ Handles(handleSkip) /\ Handles(<<Panic("unrecognized label")>>)
<1> USE PieceHandles
<1>0. Handles(<<Panic("no such key")>>) /\ Handles(<<Panic("key type")>>)
      /\ Handles(<<Panic("trap")>>) /\ Handles(<<Panic("unrecognized label")>>)
  <2>1. "no such key" # "load" /\ "key type" # "load" /\ "trap" # "load" /\ "unrecognized label" # "load"
    OBVIOUS
  <2> QED
    BY <2>1, Zenon
<1>1. Handles(handleValue(top))
  <2> DEFINE holes == {i \in DOMAIN args[Cell[2]] : label[Arg(Cell[2], i)] = "_hole"}
  <2>1. CASE Len(Cell) = 1 \/ holes = {}
    BY <2>1 DEF handleValue
  <2>2. CASE ~ (Len(Cell) = 1 \/ holes = {})
    <3>1. handleValue(top) = <<Replace_arg(Cell[2], Min(holes), top), Remove_head, Follow("newTop", Cell[2])>>
      BY <2>2 DEF handleValue
    <3>2. Cell \in Seq(Node)
      BY HolderHeld DEF AtTop
    <3>3. 2 \in DOMAIN Cell
      BY <2>2, <3>2 DEF AtTop
    <3> HIDE DEF holes
    <3>4. Cools(handleValue(top), Cell[2], Min(holes), top)
      BY <3>1, <3>3, TopRead DEF Cools, AtTop
    <3> QED
      BY <3>4 DEF Handles
  <2> QED
    BY <2>1, <2>2
<1>2. Handles(handleVariable(top))
  BY <1>0, TopRead, Zenon DEF handleVariable
<1>3. Handles(handleProgram(top))
  <2>1. CASE Len(args[top]) = 2
    <3>1. Live(Arg(top, 1)) /\ Live(Arg(top, 2))
      BY <2>1, TopRead
    <3>2. Enters(handleProgram(top), Arg(top, 1), Arg(top, 2))
      BY <2>1, <3>1 DEF Enters, handleProgram, AtTop
    <3> QED
      BY <3>2 DEF Handles
  <2>2. CASE Len(args[top]) # 2
    BY <2>2 DEF handleProgram
  <2> QED
    BY <2>1, <2>2
<1>4. ASSUME label[top] = "statements" PROVE Handles(handleStatements(top))
  <2>1. CASE Len(args[top]) = 0
    BY <2>1 DEF handleStatements
  <2>2. CASE Len(args[top]) # 0
    <3>1. Live(Arg(top, 1))
      BY <2>2, TopRead
    <3>2. CASE Len(args[top]) = 1
      BY <3>1, <3>2 DEF handleStatements
    <3>3. CASE Len(args[top]) # 1
      <4>1. label[top] \notin Constructs
        BY <1>4 DEF Constructs
      <4>2. Splits(handleStatements(top), Arg(top, 1), top)
        BY <2>2, <3>1, <3>3, <4>1, TopRead DEF handleStatements, Splits, AtTop
      <4> QED
        BY <4>2 DEF Handles
    <3> QED
      BY <3>2, <3>3
  <2> QED
    BY <2>1, <2>2
<1>5. ASSUME label[top] = "var" PROVE Handles(handleVar(top))
  <2>1. CASE args[top] = <<>>
    BY <2>1 DEF handleVar
  <2>2. CASE args[top] # <<>>
    <3>1. label[top] \notin Constructs
      BY <1>5 DEF Constructs
    <3>2. Declares(handleVar(top), KeyOf(Arg(top, 1)), Zero, top)
      BY <2>2, <3>1, TopRead DEF handleVar, Declares, AtTop
    <3> QED
      BY <3>2 DEF Handles
  <2> QED
    BY <2>1, <2>2
<1>6. label[top] \in Constructs /\ Arity(label[top]) = 2 =>
        {2} \subseteq DOMAIN args[top] /\ {1, 2} \subseteq DOMAIN args[top]
  BY TopRead
<1>7. label[top] \in Constructs /\ Arity(label[top]) = 1 => {1} \subseteq DOMAIN args[top]
  BY TopRead
<1>8. /\ label[top] \in {"assign", "while", "lte", "plus", "minus", "div", "and"} =>
           label[top] \in Constructs /\ Arity(label[top]) = 2
      /\ label[top] \in {"not", "neg"} => label[top] \in Constructs /\ Arity(label[top]) = 1
      /\ label[top] = "ifThenElse" => label[top] \in Constructs /\ Arity(label[top]) = 3
  BY DEF Constructs, Arity
<1>9. ASSUME label[top] = "assign" PROVE Handles(handleAssign(top))
  <2>1. Live(Arg(top, 2))
    BY <1>6, <1>8, <1>9, TopRead
  <2>2. PICK x : x = KeyOf(Arg(top, 1))
    OBVIOUS
  <2>3. PICK r : r = <<UpdateStore(x, Arg(top, 2)), Remove_head>>
    OBVIOUS
  <2>4. Assigns(r, x, Arg(top, 2))
    BY <2>1, <2>3 DEF Assigns, AtTop
  <2>5. Handles(r)
    BY <2>4 DEF Handles
  <2>6. handleAssign(top) = Strict(top, {2}, r)
    BY <2>2, <2>3 DEF handleAssign
  <2> QED
    BY <1>6, <1>8, <1>9, <2>5, <2>6, StrictHandles
<1>10. ASSUME label[top] = "ifThenElse" PROVE Handles(handleIf(top))
  <2> DEFINE body == CASE Inside(Arg(top, 1)) = "#true"  -> <<Set_elem(1, Arg(top, 2))>>
                       [] Inside(Arg(top, 1)) = "#false" -> <<Set_elem(1, Arg(top, 3))>>
                       [] OTHER -> <<Panic("key type")>>
  <2>1. {1} \subseteq DOMAIN args[top] /\ Live(Arg(top, 2)) /\ Live(Arg(top, 3))
    BY <1>8, <1>10, TopRead
  <2>2. Handles(body)
    <3>1. Handles(<<Set_elem(1, Arg(top, 2))>>) /\ Handles(<<Set_elem(1, Arg(top, 3))>>)
      BY <2>1
    <3> QED
      BY <1>0, <3>1, Zenon
  <2>3. handleIf(top) = Strict(top, {1}, body)
    BY DEF handleIf
  <2> HIDE DEF body
  <2>4. PICK r : r = body
    OBVIOUS
  <2> QED
    BY <2>1, <2>2, <2>3, <2>4, StrictHandles
<1>11. ASSUME label[top] = "while" PROVE Handles(handleWhile(top))
  <2>1. Live(Arg(top, 1)) /\ Live(Arg(top, 2))
    BY <1>6, <1>8, <1>11, TopRead
  <2>2. Loops(handleWhile(top), Arg(top, 2), top, Arg(top, 1), Skip)
    BY <2>1, TopRead DEF handleWhile, Loops, AtTop
  <2> QED
    BY <2>2 DEF Handles
<1>12. ASSUME {1} \subseteq DOMAIN args[top] PROVE Handles(handleNot(top)) /\ Handles(handleNeg(top))
  <2> DEFINE body == CASE Inside(Arg(top, 1)) = "#false" -> Becomes(True)
                       [] Inside(Arg(top, 1)) = "#true"  -> Becomes(False)
                       [] OTHER -> <<Panic("key type")>>
  <2>1. Handles(Becomes(True)) /\ Handles(Becomes(False))
    <3>1. Truth(TRUE) = True /\ Truth(FALSE) = False
      BY DEF Truth
    <3> QED
      BY <3>1
  <2>2. Handles(body)
    BY <1>0, <2>1, Zenon
  <2>3. handleNot(top) = Strict(top, {1}, body)
    BY DEF handleNot
  <2> HIDE DEF body
  <2>4. Handles(handleNot(top))
    BY <1>12, <2>2, <2>3, StrictHandles
  <2>5. Handles(handleNeg(top))
    BY <1>12, StrictHandles DEF handleNeg
  <2> QED
    BY <2>4, <2>5
<1>13. ASSUME {1, 2} \subseteq DOMAIN args[top]
       PROVE  /\ Handles(handleLTE(top)) /\ Handles(handlePlus(top)) /\ Handles(handleMinus(top))
              /\ Handles(handleAnd(top))
  BY <1>13, StrictHandles DEF handleLTE, handlePlus, handleMinus, handleAnd
<1>14. ASSUME {1, 2} \subseteq DOMAIN args[top] PROVE Handles(handleDiv(top))
  <2> DEFINE a == Number(Arg(top, 1))
             b == Number(Arg(top, 2))
  <2>1. PICK r : r = IF b = 0 \/ DivTraps(a, b) THEN <<Panic("trap")>> ELSE NewInt(Quotient(a, b))
    OBVIOUS
  <2>2. handleDiv(top) = Strict(top, {1, 2}, r)
    BY <2>1 DEF handleDiv
  <2> HIDE DEF a, b
  <2>3. Handles(r)
    BY <1>0, <2>1, Zenon
  <2> QED
    BY <1>14, <2>2, <2>3, StrictHandles
<1>15. Handles(handleSkip)
  BY DEF handleSkip
<1> QED
  BY <1>0, <1>1, <1>2, <1>3, <1>4, <1>5, <1>6, <1>7, <1>8, <1>9, <1>10, <1>11, <1>12, <1>13,
     <1>14, <1>15

-----------------------------------------------------------------------------
(* A step of repl or of run.                                               *)

\* New calls, in the state they were made for.
LEMMA SameShape ==
  ASSUME UNCHANGED <<vars, label, built, ret, run>>, NEW c, calls' = c, Handles(c)
  PROVE  Handles(calls)'
<1>1. /\ UNCHANGED <<args, permanent, refs, garbage_k, mallocd, root, work, label, ret, run>>
      /\ \A x : Live(x)' <=> Live(x)
  BY DEF vars, Live, Dead
<1>2. Cell' = Cell /\ (\A x : Listed(x)' <=> Listed(x)) /\ (\A v : Of(v)' = Of(v)) /\ (Fresh(ret)' <=> Fresh(ret))
  BY <1>1 DEF Listed, Cell, holder, Of, Fresh
<1>3. \A h, v : Next_handler(h, v)' <=> Next_handler(h, v)
  BY <1>1, <1>2 DEF Next_handler
<1>4. LastCalls(c) => Handles(calls)'
  BY DEF Handles, LastCalls, LastCall
<1>5. \A n, i, v : Cools(c, n, i, v) => Cools(calls, n, i, v)'
  BY <1>1, <1>2 DEF Cools
<1>6. \A n : (Drops(c, n) => Drops(calls, n)') /\ (Renews(c, n) => Renews(calls, n)')
  BY <1>1, <1>2 DEF Drops, Renews
<1>7. \A v, h : (Becoming(c, v, h) => Becoming(calls, v, h)') /\ (Became(c, v, h) => Became(calls, v, h)')
  <2>1. \A v : Live(Of(v))' <=> Live(Of(v))
    BY <1>1, <1>2 DEF Live, Dead
  <2> QED
    BY <1>1, <1>2, <1>3, <2>1 DEF Becoming, Became
<1>8. (\A l : Numbers(c, l) => Numbers(calls, l)') /\ (Wraps(c) => Wraps(calls)')
  BY <1>1 DEF Numbers, Wraps, Live, Dead
<1>9. \A b, n, g, s : (Loops(c, b, n, g, s) => Loops(calls, b, n, g, s)') /\ (Branches(c, g, s) => Branches(calls, g, s)')
  BY <1>1 DEF Loops, Branches, Live, Dead
<1>10. \A a, n, i, h : (Heats(c, a, n, i, h) => Heats(calls, a, n, i, h)')
                       /\ (LeavesHole(c, n, i, h) => LeavesHole(calls, n, i, h)')
  BY <1>1, <1>2 DEF Heats, LeavesHole
<1>11. \A a, n, p : (Splits(c, a, n) => Splits(calls, a, n)') /\ (Trims(c, n, p) => Trims(calls, n, p)')
  BY <1>1, <1>2 DEF Splits, Trims
<1>12. \A p, a : /\ PutsBack(c, p) => PutsBack(calls, p)'
                 /\ Puts(c, p, a) => Puts(calls, p, a)'
                 /\ Adds(c, a) => Adds(calls, a)'
  BY <1>1, <1>2 DEF PutsBack, Puts, Adds, Calm, Ret, Listed, Live, Dead
<1>13. \A a, b : Enters(c, a, b) => Enters(calls, a, b)'
  BY <1>1 DEF Enters
<1>14. \A x, v, n : (Declares(c, x, v, n) => Declares(calls, x, v, n)') /\ (Assigns(c, x, v) => Assigns(calls, x, v)')
  BY <1>1, <1>2 DEF Declares, Assigns
<1> QED
  BY <1>4, <1>5, <1>6, <1>7, <1>8, <1>9, <1>10, <1>11, <1>12, <1>13, <1>14 DEF Handles

\* A turn of repl, or of run, that only sets the calls.
LEMMA TurnReady ==
  ASSUME HwIInv, HandInv, panicked = "no", Working, HolderOK, NEW c, Handles(c), calls' = c,
         phase' # "load", UNCHANGED <<vars, label, built, ret, run>>
  PROVE  HandTypeOK' /\ Ready'
<1>1. Undisturbed /\ HandTypeOK'
  BY QuietKeeps DEF HandInv
<1>2. Handles(calls)'
  BY SameShape
<1> QED
  BY <1>1, <1>2, StillWorking

\* Between two turns of repl no handler is at work.
LEMMA BetweenTurns ==
  ASSUME HandInv, panicked = "no", calls = <<>>
  PROVE  /\ phase = "load" => Loading
         /\ phase # "load" => Working /\ HolderOK
<1>1. \A v : ~ Making1(v) /\ ~ Making2(v)
  BY DEF Making1, Making2
<1> QED
  BY <1>1 DEF HandInv, Ready, Loading, Working

\* A handler calls another one for the term it has put at the top.
LEMMA FollowsReady ==
  ASSUME HwIInv, HandInv, panicked = "no", Follows
  PROVE  HandTypeOK' /\ Ready'
<1>1. PICK top, c : /\ top = Of(Call.v) /\ calls' = c /\ calls # <<>> /\ work = <<>>
                    /\ \/ Call.op = "handleValue" /\ c = handleValue(top)
                       \/ Call.op = "handleIf" /\ c = handleIf(top)
                    /\ UNCHANGED <<vars, label, built, ret, run, phase>>
  BY DEF Follows, At, Idle
<1>2. Working /\ HolderOK /\ \E v, h : Became(calls, v, h)
  BY <1>1, CallTells
<1>3. PICK v, h : Became(calls, v, h)
  BY <1>2
<1>4. 1 \in DOMAIN Cell /\ top = Cell[1] /\ Call.op = h /\ Next_handler(h, v) /\ Of(v) = top
  BY <1>1, <1>3 DEF Became, Call, Follow
<1>5. AtTop(top)
  BY <1>1, <1>2, <1>4 DEF AtTop, HandInv, Working
<1>6. h = "handleIf" => label[top] = "ifThenElse"
  BY <1>4 DEF Next_handler
<1>7. Handles(c)
  BY <1>1, <1>4, <1>5, <1>6, HandlersHandle
<1>8. phase' # "load"
  BY <1>1, <1>2 DEF Working
<1> QED
  BY <1>1, <1>2, <1>7, <1>8, TurnReady

\* repl dispatches.
LEMMA DispatchReady ==
  ASSUME HwIInv, HandInv, panicked = "no", NEW l, NEW todo, NEW top, top = Top, Dispatch(l, todo),
         AtTop(top) /\ label[top] = l => Handles(todo)
  PROVE  HandTypeOK' /\ Ready'
<1>1. /\ phase = "repl" /\ calls = <<>> /\ work = <<>> /\ Cell # <<>> /\ label[top] = l
      /\ phase' \in {"result", "repl"} /\ calls' = todo
      /\ UNCHANGED <<vars, label, built, ret, run>>
  BY DEF Dispatch, Free, Turn, Idle
<1>2. Working /\ HolderOK
  BY <1>1, BetweenTurns
<1>3. 1 \in DOMAIN Cell
  BY <1>1, <1>2, HolderHeld
<1>4. AtTop(top)
  BY <1>1, <1>2, <1>3 DEF AtTop, HandInv, Working, Top
<1>5. phase' # "load"
  BY <1>1
<1> QED
  BY <1>1, <1>2, <1>4, <1>5, TurnReady

\* Whatever the label at the top is.
LEMMA HandlerReady ==
  ASSUME HwIInv, HandInv, panicked = "no", Handler
  PROVE  HandTypeOK' /\ Ready'
<1>1. PICK l, todo, top : /\ top = Top /\ Dispatch(l, todo)
                          /\ \/ l \in {"#int", "#bool"} /\ todo = handleValue(top)
                             \/ l = "id" /\ todo = handleVariable(top)
                             \/ l = "program" /\ todo = handleProgram(top)
                             \/ l = "statements" /\ todo = handleStatements(top)
                             \/ l = "var" /\ todo = handleVar(top)
                             \/ l = "assign" /\ todo = handleAssign(top)
                             \/ l = "while" /\ todo = handleWhile(top)
                             \/ l = "ifThenElse" /\ todo = handleIf(top)
                             \/ l = "not" /\ todo = handleNot(top)
                             \/ l = "lte" /\ todo = handleLTE(top)
                             \/ l = "plus" /\ todo = handlePlus(top)
                             \/ l = "minus" /\ todo = handleMinus(top)
                             \/ l = "div" /\ todo = handleDiv(top)
                             \/ l = "and" /\ todo = handleAnd(top)
                             \/ l = "neg" /\ todo = handleNeg(top)
                             \/ l = "skip" /\ todo = handleSkip
                             \/ l = "paren" /\ todo = <<Panic("unrecognized label")>>
  BY Zenon DEF Handler, HandleValue, HandleVariable, HandleProgram, HandleStatements, HandleVar,
     HandleAssign, HandleWhile, HandleIf, HandleNot, HandleLTE, HandlePlus, HandleMinus, HandleDiv,
     HandleAnd, HandleNeg, HandleSkip, Unrecognized
<1>2. AtTop(top) /\ label[top] = l => Handles(todo)
  BY <1>1, HandlersHandle
<1> QED
  BY <1>1, <1>2, DispatchReady

\* A run ends a phase without calling anything.
LEMMA EndReady ==
  ASSUME HwIInv, HandInv, panicked = "no", calls = <<>>, phase # "load", phase' # "load",
         calls' = <<>>, UNCHANGED <<vars, label, built, ret, run>>
  PROVE  HandTypeOK' /\ Ready'
<1>1. Working /\ HolderOK
  BY BetweenTurns
<1>2. Handles(<<>>)
  BY LastCallsShort DEF Handles
<1> QED
  BY <1>1, <1>2, TurnReady

\* state_cleanup of every key.
LEMMA CleanupLast == LastCalls(Cleanup)
<1> DEFINE c == Cardinality(Owned)
           f == [i \in 1..c |-> Forget(SetToSeq(Owned)[i])]
           S == {Forget(x) : x \in {SetToSeq(Owned)[i] : i \in 1..c}}
           T == S \cup {Remove_head}
<1>1. c \in Nat
  <2>1. Owned \subseteq Root
    BY HandAssumption DEF HandAssumption, Owned
  <2> QED
    BY <2>1, HeapAssumption, FS_Subset, FS_CardinalityType DEF HeapAssumption
<1>2. \A d \in T : LastCall(d)
  BY DEF LastCall, Forget, Remove_head
<1>3. f \in Seq(T)
  <2>1. f \in [1..c -> T]
    OBVIOUS
  <2> HIDE DEF f, T, c
  <2> QED
    BY <1>1, <2>1
<1>4. Remove_head \in T
  OBVIOUS
<1>5. Cleanup = <<Remove_head>> \o f
  BY DEF Cleanup
<1> HIDE DEF f, T
<1>6. Cleanup \in Seq(T)
  BY <1>3, <1>4, <1>5, ConcatProperties
<1> QED
  BY <1>2, <1>6 DEF LastCalls

\* The steps of run.
LEMMA ResultReady ==
  ASSUME HwIInv, HandInv, panicked = "no", Get_result
  PROVE  HandTypeOK' /\ Ready'
<1>1. phase = "result" /\ calls = <<>>
  BY DEF Get_result, Free
<1>2. CASE Len(Cell) # 1
  <2>1. /\ phase' = "no single value" /\ calls' = <<>> /\ UNCHANGED <<vars, label, built, ret, run>>
    BY <1>2 DEF Get_result, End
  <2>2. phase # "load" /\ phase' # "load"
    BY <1>1, <2>1
  <2> QED
    BY <1>1, <2>1, <2>2, EndReady
<1>3. CASE Len(Cell) = 1
  <2>1. /\ phase' = "cleanup" /\ calls' = Cleanup /\ UNCHANGED <<vars, label, built, ret, run>>
    BY <1>3 DEF Get_result, Turn
  <2>2. Working /\ HolderOK
    BY <1>1, BetweenTurns
  <2>3. phase' # "load"
    BY <2>1
  <2>4. PICK c : c = Cleanup
    OBVIOUS
  <2>5. Handles(c)
    BY <2>4, CleanupLast DEF Handles
  <2> QED
    BY <2>1, <2>2, <2>3, <2>4, <2>5, TurnReady
<1> QED
  BY <1>2, <1>3

\* Every program is a list of nodes to be made.
LEMMA ProgramCalls ==
  ASSUME NEW t \in DOMAIN Program
  PROVE  LoadCalls(Program[t]) /\ LoadCalls(Constants \o Program[t])
<1> DEFINE p == Program[t]
           P == Range(p)
           L == Range(Constants)
<1>1. p \in Seq(P) /\ \A c \in P : LoadCall(c)
  BY HandAssumption DEF HandAssumption, LoadCall
<1>2. Constants \in Seq(L)
  BY DEF Constants, Range
<1>3. ASSUME NEW c \in L PROVE LoadCall(c)
  <2>1. \/ c \in {Permanent(1), Permanent(3), Permanent(5), Permanent(7), Permanent(9), Permanent(10)}
        \/ c \in {Build("_hole", <<>>), Build("#false", <<>>), Build("#true", <<>>),
                  Build("0", <<>>), Build("1", <<>>), Build("skip", <<>>)}
        \/ c \in {Build("#bool", <<2>>), Build("#bool", <<4>>),
                  Build("#int", <<6>>), Build("#int", <<8>>)}
    BY <1>3 DEF Constants, Range
  <2>2. \A i \in Constant : LoadCall(Permanent(i))
    BY DEF LoadCall, Permanent
  <2>3. \A l : l \notin Constructs /\ l # "_fake" => LoadCall(Build(l, <<>>))
    BY DEF LoadCall, Build, Suits
  <2>4. \A l, n : l \notin Constructs /\ l # "_fake" /\ n \in Nat => LoadCall(Build(l, <<n>>))
    BY DEF LoadCall, Build, Suits
  <2>5. \A l \in {"_hole", "#false", "#true", "0", "1", "skip", "#bool", "#int"} :
           l \notin Constructs /\ l # "_fake"
    BY DEF Constructs
  <2> QED
    BY <2>1, <2>2, <2>3, <2>4, <2>5 DEF Constant
<1> HIDE DEF p, P, L
<1>4. p \in Seq(P \cup L) /\ Constants \in Seq(P \cup L)
  BY <1>1, <1>2
<1>5. Constants \o p \in Seq(P \cup L)
  BY <1>4, ConcatProperties
<1>6. \A c \in P \cup L : LoadCall(c)
  BY <1>1, <1>3
<1> QED
  BY <1>1, <1>5, <1>6 DEF LoadCalls, p

\* run is called again: what it had built is forgotten, the constants stay.
LEMMA EndsReady ==
  ASSUME HwIInv, HandInv, panicked = "no", Run_ends
  PROVE  HandTypeOK' /\ Ready'
<1>1. phase = "cleanup" /\ calls = <<>> /\ work = <<>>
  BY DEF Run_ends, Free, Idle
<1>2. Working /\ HandTypeOK /\ built \in Seq(Node)
  BY <1>1, BetweenTurns DEF HandInv, Ready
<1>3. CASE run = Runs
  <2>1. /\ phase' = "done" /\ calls' = <<>> /\ UNCHANGED <<vars, label, built, ret, run>>
    BY <1>3 DEF Run_ends, End
  <2>2. phase # "load" /\ phase' # "load"
    BY <1>1, <2>1
  <2> QED
    BY <1>1, <2>1, <2>2, EndReady
<1>4. CASE run # Runs
  <2>1. /\ phase' = "load" /\ calls' = Program[test] /\ built' = ConstantNodes
        /\ UNCHANGED <<vars, label>>
    BY <1>4 DEF Run_ends, Turn
  <2>2. /\ UNCHANGED <<args, refs, permanent, garbage_k, mallocd, work, label>>
        /\ \A x : Live(x)' <=> Live(x)
    BY <2>1 DEF vars, Live, Dead
  <2>3. HandTypeOK'
    BY <1>2, <2>2 DEF HandTypeOK
  <2>4. LoadCalls(calls')
    BY <2>1, ProgramCalls DEF HandInv
  <2>5. 10 \in DOMAIN built /\ \A p \in Constant : p \in 1..10
    BY <1>2 DEF Working, ConstantsHeld, Constant
  <2>6. /\ built' \in Seq(Node) /\ Len(built') = 10
        /\ \A p \in 1..10 : p \in DOMAIN built' /\ built'[p] = built[p]
    BY <1>2, <2>1, <2>5 DEF ConstantNodes
  <2>7. \A p \in Constant : (p \in DOMAIN built /\ Live(built[p]) /\ permanent[built[p]])'
    <3>1. ASSUME NEW p \in Constant
          PROVE  p \in DOMAIN built' /\ built'[p] = built[p] /\ Live(built[p]) /\ permanent[built[p]]
      BY <1>2, <2>5, <2>6 DEF Working, ConstantsHeld
    <3> QED
      BY <2>2, <3>1 DEF Live, Dead
  <2>8. Calm(Last(built))'
    BY <2>6, <2>7 DEF Calm, Last, Constant
  <2>9. Loading'
    BY <1>1, <2>1, <2>2, <2>4, <2>7, <2>8 DEF Loading
  <2> QED
    BY <2>3, <2>6, <2>9 DEF Ready
<1> QED
  BY <1>3, <1>4

\* The program is loaded, and a cell is made for it.
LEMMA ConfigurationReady ==
  ASSUME HwIInv, HandInv, panicked = "no", New_configuration
  PROVE  HandTypeOK' /\ Ready'
<1>1. PICK v : /\ v = Last(built) /\ phase = "load" /\ calls = <<>> /\ phase' = "repl"
               /\ calls' = <<New("_kra", <<>>), MakeHolder, Add_front(v)>>
               /\ UNCHANGED <<vars, label, built, ret, run>>
  BY DEF New_configuration, Free, Turn
<1>2. Loading /\ HandTypeOK /\ built \in Seq(Node)
  BY <1>1, BetweenTurns DEF HandInv, Ready
<1>3. Undisturbed /\ HandTypeOK' /\ work' = work
  BY <1>1, <1>2, QuietKeeps
<1>4. \A p \in Constant : p \in DOMAIN built /\ Live(built[p]) /\ permanent[built[p]]
  <2>1. \A x : x \notin Range(calls)
    BY <1>1 DEF Range
  <2> QED
    BY <1>2, <2>1 DEF Loading
<1>5. ConstantsHeld'
  BY <1>1, <1>3, <1>4, UndisturbedKeeps DEF ConstantsHeld
<1>6. Calm(v)
  <2>1. built # <<>>
    BY <1>4 DEF Constant
  <2> QED
    BY <1>1, <1>2, <2>1 DEF Loading
<1>7. Calm(v)'
  BY <1>1, <1>6 DEF Calm, Live, Dead, vars
<1>8. Making1(v)'
  BY <1>1, <1>2, <1>3, <1>7 DEF Making1, Loading
<1>9. phase' # "load"
  BY <1>1
<1>10. Working'
  BY <1>5, <1>8, <1>9 DEF Working
<1> QED
  BY <1>1, <1>2, <1>3, <1>10 DEF Ready

-----------------------------------------------------------------------------
(* A cascade between two calls.                                            *)

\* A cascade leaves the constants, the cell and its nodes as they are.
LEMMA DecsKeep ==
  ASSUME HwIInv, HolderOK, ConstantsHeld, HandTypeOK, Cascade, UNCHANGED <<label, run, built>>
  PROVE  /\ HolderOK' /\ ConstantsHeld' /\ HandTypeOK' /\ Cell' = Cell
         /\ \A x : Calm(x) => Calm(x)'
         /\ \A x : Fresh(x) => Fresh(x)'
<1>0. IInv
  BY DEF HwIInv
<1>1. \A x : Live(x) => x \in Node
  BY <1>0, LiveIsNode DEF IInv
<1>2. HandTypeOK'
  <2>1. \A x \in Node : Live(x)' => Live(x) /\ args'[x] = args[x]
    BY <1>0, CascadeGrowsNothing
  <2> QED
    BY <2>1 DEF HandTypeOK
<1>3. ConstantsHeld'
  <2>1. ASSUME NEW c \in Constant
        PROVE  c \in DOMAIN built' /\ (Live(built[c]) /\ permanent[built[c]])'
    <3>1. PICK x : x = built[c]
      OBVIOUS
    <3>2. c \in DOMAIN built /\ x \in Node /\ Live(x) /\ permanent[x]
      BY <1>1, <3>1 DEF ConstantsHeld
    <3>3. Live(x)' /\ permanent'[x]
      BY <1>0, <3>2, CascadePost
    <3> QED
      BY <3>1, <3>2, <3>3
  <2> QED
    BY <2>1 DEF ConstantsHeld
<1>4. PICK x : x = holder
  OBVIOUS
<1>5. x \in Node /\ Live(x) /\ Cells[run] \in Root /\ root[Cells[run]] = x
  BY <1>4, HolderHeld
<1>6. args'[x] = args[x] /\ root' = root
  BY <1>0, <1>5, CascadePost
<1>7. holder' = x
  BY <1>4, <1>6 DEF holder
<1>8. HolderOK' /\ Cell' = Cell
  BY <1>4, <1>6, <1>7 DEF HolderOK, Cell
<1>9. ASSUME NEW y, Calm(y) PROVE Calm(y)'
  <2>1. y \in Node /\ Live(y) /\ (permanent[y] \/ refs[y] = 0)
    BY <1>1, <1>9 DEF Calm
  <2>2. Live(y)' /\ permanent'[y] = permanent[y] /\ (refs[y] = 0 => refs'[y] = 0)
    BY <1>0, <2>1, CascadePost
  <2> QED
    BY <2>1, <2>2 DEF Calm
<1>10. ASSUME NEW y, Fresh(y) PROVE Fresh(y)'
  <2>1. y \in Node /\ Live(y) /\ ~ permanent[y] /\ refs[y] = 0
    BY <1>1, <1>10 DEF Fresh
  <2>2. Live(y)' /\ permanent'[y] = permanent[y] /\ (refs[y] = 0 => refs'[y] = 0)
    BY <1>0, <2>1, CascadePost
  <2> QED
    BY <2>1, <2>2 DEF Fresh
<1> QED
  BY <1>2, <1>3, <1>8, <1>9, <1>10

\* Whatever a handler still has to do outlives the cascade of the call before.
LEMMA DecsReady ==
  ASSUME HwIInv, HandInv, panicked = "no", panicked' = "no", RunDecs
  PROVE  HandTypeOK' /\ Ready'
<1>1. Cascade /\ UNCHANGED <<label, run, built, calls, ret, phase>> /\ work # <<>>
  BY DEF RunDecs, Cascade, DecStep, AuxStep
<1>2. Working /\ HolderOK /\ HandTypeOK /\ ConstantsHeld /\ built \in Seq(Node) /\ Handles(calls)
  BY <1>1 DEF HandInv, Ready, Loading, Working, Making1, Making2
<1>3. /\ HolderOK' /\ ConstantsHeld' /\ HandTypeOK' /\ Cell' = Cell
      /\ \A x : Calm(x) => Calm(x)'
      /\ \A x : Fresh(x) => Fresh(x)'
  BY <1>1, <1>2, DecsKeep
<1>4. PICK r : r = ret
  OBVIOUS
<1>5. /\ \A x : Listed(x)' <=> Listed(x)
      /\ Fresh(ret) => Fresh(ret)'
      /\ \A v : Of(v)' = Of(v)
  BY <1>1, <1>3, <1>4 DEF Listed, Of, Fresh, Live, Dead
<1>6. LastCalls(calls) => Handles(calls)'
  BY <1>1 DEF Handles, LastCalls, LastCall
<1>7. \A n : (Drops(calls, n) => Drops(calls, n)') /\ (Renews(calls, n) => Renews(calls, n)')
  BY <1>1, <1>3, <1>5 DEF Drops, Renews
<1>8. \A v, h : Became(calls, v, h) => Became(calls, v, h)'
  <2>1. \A v, h : Next_handler(h, v)' <=> Next_handler(h, v)
    BY <1>1, <1>5 DEF Next_handler
  <2> QED
    BY <1>1, <1>3, <1>5, <2>1 DEF Became
<1>9. \A n, p : (Trims(calls, n, p) => Trims(calls, n, p)') /\ (PutsBack(calls, p) => PutsBack(calls, p)')
  <2>1. Listed(ret)' <=> Listed(ret)
    BY <1>1, <1>3 DEF Listed
  <2> QED
    BY <1>1, <1>5, <2>1 DEF Trims, PutsBack
<1>10. \A a : Adds(calls, a) => Adds(calls, a)'
  BY <1>1, <1>3 DEF Adds
<1>11. /\ \A n, i, v : ~ Cools(calls, n, i, v)
       /\ \A v, h : ~ Becoming(calls, v, h)
       /\ \A l : ~ Numbers(calls, l)
       /\ ~ Wraps(calls)
       /\ \A b, n, g, s : ~ Loops(calls, b, n, g, s)
       /\ \A g, s : ~ Branches(calls, g, s)
       /\ \A a, n, i, h : ~ Heats(calls, a, n, i, h)
       /\ \A n, i, h : ~ LeavesHole(calls, n, i, h)
       /\ \A a, n : ~ Splits(calls, a, n)
       /\ \A a, b : ~ Enters(calls, a, b)
       /\ \A p, a : ~ Puts(calls, p, a)
       /\ \A x, v, n : ~ Declares(calls, x, v, n)
       /\ \A x, v : ~ Assigns(calls, x, v)
  BY <1>1 DEF Cools, Becoming, Numbers, Wraps, Loops, Branches, Heats, LeavesHole, Splits, Enters,
              Puts, Declares, Assigns
<1>12. Handles(calls)'
  <2>1. \/ LastCalls(calls)
        \/ \E n : Drops(calls, n) \/ Renews(calls, n)
        \/ \E v, h : Became(calls, v, h)
        \/ \E n, p : Trims(calls, n, p)
        \/ \E p : PutsBack(calls, p)
        \/ \E a : Adds(calls, a)
    BY <1>2, <1>11, Zenon DEF Handles
  <2> QED
    BY <1>6, <1>7, <1>8, <1>9, <1>10, <2>1 DEF Handles
<1>13. phase' # "load"
  BY <1>1, <1>2 DEF Working
<1>14. Working'
  BY <1>3, <1>12, <1>13 DEF Working
<1> QED
  BY <1>1, <1>2, <1>3, <1>14 DEF Ready

-----------------------------------------------------------------------------
(* The operands stay live and the labels suit.                             *)

\* One step of a program that goes on.
LEMMA RunsReady ==
  ASSUME HwIInv, HandInv, panicked = "no", panicked' = "no", HwStep
  PROVE  HandTypeOK' /\ Ready'
<1>1. CASE Calls
  BY <1>1, BuildReady, PermanentReady, NewReady, NewCellReady, AddReady, SetReady, RemoveReady,
     ReplaceReady, TrimReady, NewTopReady, StoreReady, CleanupReady, FollowsReady, StopsReady
     DEF Calls
<1>2. CASE Handler
  BY <1>2, HandlerReady
<1>3. CASE EmptyCell
  <2>1. /\ phase = "repl" /\ phase' = "result" /\ calls = <<>> /\ calls' = <<>>
        /\ UNCHANGED <<vars, label, built, ret, run>>
    BY <1>3 DEF EmptyCell, Free, Turn
  <2>2. phase # "load" /\ phase' # "load"
    BY <2>1
  <2> QED
    BY <2>1, <2>2, EndReady
<1>4. CASE SafetyCheck
  <2>1. /\ phase = "repl" /\ phase' = "safety check" /\ calls = <<>> /\ calls' = <<>>
        /\ UNCHANGED <<vars, label, built, ret, run>>
    BY <1>4 DEF SafetyCheck, Free, End
  <2>2. phase # "load" /\ phase' # "load"
    BY <2>1
  <2> QED
    BY <2>1, <2>2, EndReady
<1>5. CASE New_configuration
  BY <1>5, ConfigurationReady
<1>6. CASE Get_result
  BY <1>6, ResultReady
<1>7. CASE Run_ends
  BY <1>7, EndsReady
<1>8. CASE RunDecs
  BY <1>8, DecsReady
<1> QED
  BY <1>1, <1>2, <1>3, <1>4, <1>5, <1>6, <1>7, <1>8 DEF HwStep

\* The program is what it was, and nothing happens once it has stopped.
LEMMA StoppedStays ==
  ASSUME HwStep
  PROVE  panicked = "no" /\ test' = test
<1>1. Calls => panicked = "no" /\ test' = test
  BY DEF Calls, BuildNode, Make_permanent, NewNode, NewComputationCell, Computation_add_front,
         Computation_set_elem, Computation_remove_head, ReplaceArg, TrimArgs, NewTop, Update_store,
         State_cleanup, Follows, Stops, At, Idle, GoOn, End
<1>2. Handler => panicked = "no" /\ test' = test
  BY DEF Handler, HandleValue, HandleVariable, HandleProgram, HandleStatements, HandleVar,
         HandleAssign, HandleWhile, HandleIf, HandleNot, HandleLTE, HandlePlus, HandleMinus, HandleDiv,
         HandleAnd, HandleNeg, HandleSkip, Unrecognized, Dispatch, Free, Idle, Turn
<1>3. EmptyCell \/ SafetyCheck \/ New_configuration \/ Get_result \/ Run_ends =>
        panicked = "no" /\ test' = test
  BY DEF EmptyCell, SafetyCheck, New_configuration, Get_result, Run_ends, Free, Idle, Turn, End
<1>4. RunDecs => panicked = "no" /\ test' = test
  BY DEF RunDecs, Cascade, DecStep, AuxStep
<1> QED
  BY <1>1, <1>2, <1>3, <1>4 DEF HwStep

\* A program that is over stays as it is.
LEMMA StandsStill ==
  ASSUME HandInv, UNCHANGED hwVars
  PROVE  HandInv'
<1>1. /\ UNCHANGED <<args, permanent, refs, garbage_k, mallocd, root, work, panicked>>
      /\ UNCHANGED <<vars, label, test, run, built, calls, ret, phase, value>>
      /\ \A x : Live(x)' <=> Live(x)
  BY DEF hwVars, vars, Live, Dead
<1>2. HandTypeOK' /\ test' \in DOMAIN Program
  BY <1>1 DEF HandInv, HandTypeOK
<1>3. CASE panicked = "no"
  <2>1. Ready
    BY <1>3 DEF HandInv
  <2>2. Handles(calls) => Handles(calls)'
    <3>1. PICK c : c = calls
      OBVIOUS
    <3> QED
      BY <1>1, <3>1, SameShape
  <2>3. HolderOK => HolderOK'
    BY <1>1 DEF HolderOK, holder
  <2>4. ConstantsHeld => ConstantsHeld'
    BY <1>1 DEF ConstantsHeld, Live, Dead
  <2>5. \A v : (Making1(v) => Making1(v)') /\ (Making2(v) => Making2(v)')
    BY <1>1 DEF Making1, Making2, Calm, Fresh, Live, Dead
  <2>6. Loading => Loading'
    BY <1>1 DEF Loading, Calm, Live, Dead, LoadCalls, LoadCall
  <2>7. Ready'
    BY <1>1, <2>1, <2>2, <2>3, <2>4, <2>5, <2>6 DEF Ready, Working
  <2> QED
    BY <1>1, <1>2, <1>3, <2>7 DEF HandInv
<1>4. CASE panicked # "no"
  <2>1. OperandsStayLive
    BY <1>4 DEF HandInv
  <2>2. OperandsStayLive'
    BY <1>1, <1>4, <2>1 DEF OperandsStayLive
  <2> QED
    BY <1>1, <1>2, <1>4, <2>2 DEF HandInv
<1> QED
  BY <1>3, <1>4

\* Every step.
LEMMA HandStep ==
  ASSUME HwIInv, HandInv, [HwNext]_hwVars
  PROVE  HandInv'
<1>1. CASE UNCHANGED hwVars
  BY <1>1, StandsStill
<1>2. CASE HwStep
  <2>1. panicked = "no" /\ test' = test
    BY <1>2, StoppedStays
  <2>2. CASE panicked' = "no"
    BY <1>2, <2>1, <2>2, RunsReady DEF HandInv
  <2>3. CASE panicked' # "no"
    BY <1>2, <2>1, <2>3, PanicStep
  <2> QED
    BY <2>2, <2>3
<1> QED
  BY <1>1, <1>2 DEF HwNext

\* And the first state.
LEMMA HandInit == HwInit => HandInv
<1> SUFFICES ASSUME HwInit PROVE HandInv
  OBVIOUS
<1>1. /\ test \in DOMAIN Program /\ built = <<>> /\ phase = "load"
      /\ calls = Constants \o Program[test] /\ mallocd = {} /\ work = <<>> /\ panicked = "no"
  BY DEF HwInit, Init
<1>2. HandTypeOK
  BY <1>1 DEF HandTypeOK, Live, Dead
<1>3. LoadCalls(calls)
  BY <1>1, ProgramCalls
<1>4. ASSUME NEW p \in Constant PROVE Permanent(p) \in Range(calls)
  <2>1. PICK c : c = Program[test]
    OBVIOUS
  <2>2. \E S : c \in Seq(S)
    BY <1>1, <2>1, HandAssumption DEF HandAssumption
  <2>3. PICK i \in 1..16 : Constants[i] = Permanent(p)
    <3>1. /\ Constants[2] = Permanent(1) /\ Constants[5] = Permanent(3) /\ Constants[8] = Permanent(5)
          /\ Constants[11] = Permanent(7) /\ Constants[14] = Permanent(9) /\ Constants[16] = Permanent(10)
      BY DEF Constants
    <3> QED
      BY <3>1 DEF Constant
  <2>4. \E S : Constants \in Seq(S)
    <3> DEFINE L == Range(Constants)
    <3>1. Constants \in Seq(L)
      BY DEF Constants, Range
    <3> QED
      BY <3>1
  <2>5. Len(Constants) = 16
    BY DEF Constants
  <2>6. i \in DOMAIN (Constants \o c) /\ (Constants \o c)[i] = Constants[i]
    <3>1. PICK k : k = Constants
      OBVIOUS
    <3>2. PICK S, T : c \in Seq(S) /\ k \in Seq(T) /\ Len(k) = 16
      BY <2>2, <2>4, <2>5, <3>1
    <3>3. c \in Seq(S \cup T) /\ k \in Seq(S \cup T)
      BY <3>2
    <3>4. /\ Len(k \o c) = Len(k) + Len(c) /\ k \o c \in Seq(S \cup T) /\ Len(c) \in Nat
          /\ \A j \in 1..(Len(k) + Len(c)) : (k \o c)[j] = IF j <= Len(k) THEN k[j] ELSE c[j - Len(k)]
      BY <3>3, ConcatProperties, LenProperties
    <3>5. i \in 1..Len(k \o c) /\ DOMAIN (k \o c) = 1..Len(k \o c)
      BY <3>2, <3>4, LenProperties
    <3> QED
      BY <3>1, <3>2, <3>4, <3>5
  <2> QED
    BY <1>1, <2>1, <2>3, <2>6 DEF Range
<1>5. Loading
  BY <1>1, <1>3, <1>4 DEF Loading
<1>6. built \in Seq(Node)
  BY <1>1
<1> QED
  BY <1>1, <1>2, <1>5, <1>6 DEF HandInv, Ready

\* Every state of a run of the interpreter is one the calls can go on from.
THEOREM HandInductive == HwSpec => []HandInv
<1>1. HwInit => HandInv
  BY HandInit
<1>2. HwIInv /\ HandInv /\ [HwNext]_hwVars => HandInv'
  BY HandStep
<1> QED
  BY <1>1, <1>2, HwInductive, PTL DEF HwSpec

\* No handler uses a node after it may have been reclaimed.
THEOREM OperandsAlwaysLive == HwSpec => []OperandsStayLive
<1>1. HwIInv /\ HandInv => OperandsStayLive
  BY OperandsHeld DEF HandInv
<1> QED
  BY <1>1, HwInductive, HandInductive, PTL

\* Every construct keeps the arguments its handler reads.
THEOREM LabelsAlwaysSuit == HwSpec => []HandTypeOK
<1>1. HandInv => HandTypeOK
  BY DEF HandInv
<1> QED
  BY <1>1, HandInductive, PTL
=============================================================================
