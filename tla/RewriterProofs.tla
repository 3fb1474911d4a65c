--------------------------- MODULE RewriterProofs ---------------------------
(***************************************************************************)
(* Generated programs keep to the heap's interface: whatever the rules and *)
(* whatever code the compiler makes of them, each step of Rewriter is a    *)
(* call of KHeap, a step of a cascade, or leaves the heap alone.  What     *)
(* KHeapProofs proves of the heap then holds while any program runs.       *)
(***************************************************************************)
EXTENDS Rewriter, KHeapProofs

\* The heap is sound and what is left to execute is made of known statements.
RwIInv == IInv /\ code \in Seq(Instruction)

\* The next statement.
LEMMA HeadTail ==
  ASSUME NEW S, NEW c \in Seq(S), c # <<>>
  PROVE  Head(c) \in S /\ Tail(c) \in Seq(S)
  BY HeadTailProperties

\* The two edits that generated code makes take positions and lists in range.
LEMMA WithoutIsCall ==
  ASSUME IInv, NEW k \in Node, NEW left \in Nat, K_without_first_n_arg(k, left)
  PROVE  Next
<1>1. Len(args[k]) \in Nat /\ Len(args[k]) <= MAX_GARBAGE_ARG_LEN /\ MAX_GARBAGE_ARG_LEN \in Nat
  BY Window, HeapAssumption DEF IInv, HeapAssumption
<1>2. left <= Len(args[k])
  BY DEF K_without_first_n_arg
<1>3. left \in 0..MAX_GARBAGE_ARG_LEN
  BY <1>1, <1>2
<1>4. Edit(k)
  BY <1>3 DEF Edit
<1> QED
  BY <1>4, EditIsCall

LEMMA InsertIsCall ==
  ASSUME IInv, NEW k \in Node, NEW pos \in Nat, NEW count \in Int, NEW s \in Seq(Node),
         count >= 0, pos + count <= Len(args[k]), Len(s) <= MAX_GARBAGE_ARG_LEN,
         K_insert_elems(k, pos, count, s)
  PROVE  Next
<1>1. Len(args[k]) \in Nat /\ Len(args[k]) <= MAX_GARBAGE_ARG_LEN /\ MAX_GARBAGE_ARG_LEN \in Nat
  BY Window, HeapAssumption DEF IInv, HeapAssumption
<1>2. pos \in 0..MAX_GARBAGE_ARG_LEN /\ count \in 0..MAX_GARBAGE_ARG_LEN
  BY <1>1
<1>3. s \in ArgLists(MAX_GARBAGE_ARG_LEN)
  BY <1>1, ShortList
<1>4. Edit(k)
  BY <1>2, <1>3 DEF Edit
<1> QED
  BY <1>4, EditIsCall

-----------------------------------------------------------------------------
(* One step.                                                               *)

\* A statement makes one call of the heap, or none, and is then done with.
LEMMA StatementMaps ==
  ASSUME RwIInv, Statement
  PROVE  [Next]_vars /\ code' = Tail(code) /\ code # <<>>
<1> DEFINE i == Head(code)
<1> USE DEF RwIInv
<1>0. code # <<>>
  BY DEF Statement, New, Make_permanent, NewComputationCell, Computation_add_front, IncOldK,
         DecOldK, Bind, WithoutFirst, State_get_item, Builtin_constant, Builtin_int,
         Insert_elems, New_holder, Set_label, UpdateStore, Dispose, At
<1>a. i \in Instruction
  BY <1>0, HeadTail
<1>b. "k" \in Root /\ "oldK" \in Root /\ Key \subseteq Root
  BY RewriterAssumption DEF RewriterAssumption
<1>1. CASE New
  <2>1. Given(i.items) \in Seq(Node) /\ K_new(Given(i.items))
    BY <1>1 DEF New, Usable
  <2> QED
    BY <1>0, <1>1, <2>1, NewIsCall DEF New, GoOn
<1>2. CASE Make_permanent
  BY <1>0, <1>2 DEF Make_permanent, GoOn, Next
<1>3. CASE NewComputationCell
  BY <1>0, <1>3, <1>b, OwnIsCall DEF NewComputationCell, GoOn
<1>4. CASE Computation_add_front
  <2>1. root["k"] \in Node /\ env[i.v] \in Node /\ K_add_front_arg(root["k"], env[i.v])
    BY <1>4 DEF Computation_add_front
  <2>2. Edit(root["k"])
    BY <2>1 DEF Edit
  <2> QED
    BY <1>0, <1>4, <2>1, <2>2, EditIsCall DEF Computation_add_front, GoOn
<1>5. CASE IncOldK
  BY <1>0, <1>5, <1>b, OwnIsCall DEF IncOldK, GoOn
<1>6. CASE DecOldK
  BY <1>0, <1>6, <1>b DEF DecOldK, Next
<1>7. CASE Bind \/ State_get_item \/ Builtin_constant \/ Set_label
  BY <1>0, <1>7 DEF Bind, State_get_item, Builtin_constant, Set_label, GoOn, Heap
<1>8. CASE WithoutFirst
  <2>1. i.op = "without" /\ Deref(i.loc) \in Node /\ K_without_first_n_arg(Deref(i.loc), i.left)
    BY <1>8 DEF WithoutFirst, At
  <2>2. i.left \in Nat
    BY <1>a, <2>1, RewriterAssumption DEF RewriterAssumption
  <2>3. Next
    BY <2>1, <2>2, WithoutIsCall
  <2> QED
    BY <1>0, <1>8, <2>3 DEF WithoutFirst, GoOn
<1>9. CASE Builtin_int
  <2>1. <<>> \in Seq(Node) /\ K_new(<<>>)
    BY <1>9 DEF Builtin_int
  <2> QED
    BY <1>0, <1>9, <2>1, NewIsCall DEF Builtin_int, GoOn
<1>10. CASE Insert_elems
  <2> DEFINE k == Deref(i.loc)
             s == Given(i.items)
             c == Overwrites(i, k)
  <2>1. /\ i.op = "insert_elems" /\ k \in Node /\ s \in Seq(Node)
        /\ ~ Misfit(i, k) /\ K_insert_elems(k, i.pos, c, s)
    BY <1>10 DEF Insert_elems, At, Usable
  <2>2. i.pos \in Nat /\ i.count \in Nat
    BY <1>a, <2>1, RewriterAssumption DEF RewriterAssumption
  <2>3. Len(args[k]) \in Nat /\ Len(s) \in Nat /\ MAX_GARBAGE_ARG_LEN \in Nat
    BY <2>1, Window, LenProperties, HeapAssumption DEF IInv, HeapAssumption
  <2>4. /\ ~ (i.pos > Len(args[k])) /\ ~ (i.pos + c > Len(args[k]))
        /\ ~ (Len(s) > MAX_GARBAGE_ARG_LEN)
    BY <2>1 DEF Misfit
  <2>5. c \in Int /\ c >= 0
    BY <2>2, <2>3, <2>4 DEF Overwrites
  <2>6. Next
    <3> HIDE DEF k, s, c
    <3> QED
      BY <2>1, <2>2, <2>3, <2>4, <2>5, InsertIsCall
  <2> QED
    BY <1>0, <1>10, <2>6 DEF Insert_elems, GoOn
<1>11. CASE New_holder
  BY <1>0, <1>11, <1>b, OwnIsCall DEF New_holder, GoOn
<1>12. CASE UpdateStore
  <2>1. Wrapped(i.key) \in Key /\ env[i.val] \in Node /\ Own(Wrapped(i.key), env[i.val])
    BY <1>12 DEF UpdateStore, Wraps
  <2> QED
    BY <1>0, <1>12, <1>b, <2>1, OwnIsCall DEF UpdateStore, GoOn
<1>13. CASE Dispose
  BY <1>0, <1>13 DEF Dispose, GoOn, Next
<1> QED
  BY <1>1, <1>2, <1>3, <1>4, <1>5, <1>6, <1>7, <1>8, <1>9, <1>10, <1>11, <1>12, <1>13 DEF Statement

\* Every step is a call, a step of a cascade, or leaves the heap alone.
LEMMA StepMaps ==
  ASSUME RwIInv, [RwNext]_rwVars
  PROVE  [Next]_vars /\ code' \in Seq(Instruction)
<1> USE DEF RwIInv
<1>1. CASE Statement
  BY <1>1, StatementMaps, HeadTail
<1>2. CASE Assertion \/ NoSuchKey \/ Divide \/ UseReclaimed
  BY <1>2 DEF Assertion, NoSuchKey, Divide, UseReclaimed, End
<1>3. CASE Repl
  <2>1. CASE Finish
    BY <2>1 DEF Finish, End
  <2>2. ASSUME NEW r \in DOMAIN Code, ApplyRule(r) PROVE UNCHANGED vars /\ code' \in Seq(Instruction)
    BY <2>2, RewriterAssumption DEF ApplyRule, RewriterAssumption
  <2>3. ASSUME NEW r \in DOMAIN Code, TripOver(r) PROVE UNCHANGED vars /\ code' \in Seq(Instruction)
    BY <2>3 DEF TripOver, End
  <2> QED
    BY <1>3, <2>1, <2>2, <2>3 DEF Repl
<1>4. CASE RunDecs
  BY <1>4 DEF RunDecs, Next
<1>5. CASE Over \/ UNCHANGED rwVars
  BY <1>5 DEF Over, rwVars
<1> QED
  BY <1>1, <1>2, <1>3, <1>4, <1>5 DEF RwNext, RwStep

-----------------------------------------------------------------------------
(* Theorems.                                                               *)

\* The inductive invariant of the heap holds while a generated program runs.
THEOREM RwInductive == RwSpec => []RwIInv
<1>1. RwInit => RwIInv
  <2> SUFFICES ASSUME RwInit PROVE RwIInv
    OBVIOUS
  <2>1. IInv
    BY InitInv DEF RwInit
  <2>2. code \in Seq(Instruction)
    BY RewriterAssumption DEF RwInit, RewriterAssumption
  <2> QED
    BY <2>1, <2>2 DEF RwIInv
<1>2. RwIInv /\ [RwNext]_rwVars => RwIInv'
  <2> SUFFICES ASSUME RwIInv, [RwNext]_rwVars PROVE RwIInv'
    OBVIOUS
  <2>1. [Next]_vars /\ code' \in Seq(Instruction)
    BY StepMaps
  <2>2. IInv'
    BY <2>1, NextInv DEF RwIInv
  <2> QED
    BY <2>1, <2>2 DEF RwIInv
<1> QED
  BY <1>1, <1>2, PTL DEF RwSpec

\* A generated program is a client of the heap: it implements KHeap's Spec.
THEOREM RewriterUsesHeap == RwSpec => Spec
<1>1. RwInit => Init
  BY DEF RwInit
<1>2. RwIInv /\ [RwNext]_rwVars => [Next]_vars
  BY StepMaps
<1> QED
  BY <1>1, <1>2, RwInductive, PTL DEF RwSpec, Spec

\* Reference counts stay exact whatever rules a language has and however their
\* replacements interfere, up to the step where the program stops.
THEOREM RewritingKeepsCounts == RwSpec => []RefCountsExact
  BY RewriterUsesHeap, CountsAreExact, PTL

\* A node that generated code lets go of is reclaimed once, and nothing in the
\* heap names it then: a rule can only reach it through a C variable.
THEOREM RewritingReclaimsOnce == RwSpec => []ReclaimedOnce
  BY RewriterUsesHeap, NodesReclaimedOnce, PTL

\* The assertions of Dec and dispose_k_itself hold in every generated program.
THEOREM RewritingKeepsAssertions == RwSpec => []CascadeAssertions
  BY RewriterUsesHeap, CascadeAssertionsHold, PTL
=============================================================================
