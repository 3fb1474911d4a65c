------------------------------ MODULE Rewriter ------------------------------
(***************************************************************************)
(* The execution of generated C (src/compiler/compile.go) on the heap: the *)
(* program is loaded, then repl tries the rules in order, runs the code of *)
(* the first whose checks hold, and starts again until no rule applies.    *)
(*                                                                         *)
(* Code is the statements of a function still to be executed; each one     *)
(* makes the runtime calls of KHeap, whose cascades of Decs run before the *)
(* next statement.  Rules come in as compiled code (a constant), so what   *)
(* holds here holds whatever the compiler generates.                       *)
(***************************************************************************)
EXTENDS LabelledHeap, Int64, SequencesExt

CONSTANTS Code,      \* rule -> its checks chk and its statements code
          Program,   \* test -> the statements that load its ATerm file
          CVar,      \* C variables of generated functions
          Global,    \* those among CVar that outlive a call: _true, _false
          Literal,   \* labels that are no symbols: strings and integers
          Key,       \* the strings used as keys of the map cell
          LabelVar   \* names of label variables

VARIABLES
  test,      \* which program is being run
  env,       \* what each C variable points to
  lenv,      \* the labels bound to label variables
  code,      \* statements left in the running function
  outcome    \* "running", "done", or why execution stopped

rwVars == <<vars, test, label, env, lenv, code, outcome>>

\* The statements of the generated functions and of what runs before them.
Instruction == UNION {Range(Code[r].code) : r \in DOMAIN Code}
                 \cup UNION {Range(Program[t]) : t \in DOMAIN Program}

ASSUME RewriterAssumption ==
  /\ {"k", "oldK"} \cup Key \subseteq Root
  /\ Key \cup DOMAIN Num \subseteq Literal
  /\ "ret" \in CVar
  /\ \A r \in DOMAIN Code : Code[r].code \in Seq(Instruction)
  /\ \A t \in DOMAIN Program : Program[t] \in Seq(Instruction)
  /\ \A i \in Instruction :
       /\ i.op = "without" => i.left \in Nat
       /\ i.op = "insert_elems" => i.pos \in Nat /\ i.count \in Nat

Outcomes == {"running", "done", "assert", "no such key", "divide by 0", "trap", "reclaimed"}

-----------------------------------------------------------------------------
(* Reading the heap.                                                       *)

\* k_get_item and k_get_arg along a location; NoNode where their assertion on
\* the number of arguments fails.
Deref(loc) ==
  FoldLeft(LAMBDA n, i : IF n \in Node /\ i \in DOMAIN args[n] THEN args[n][i] ELSE NoNode,
           root["k"], loc)

\* The K's a list of operands stands for: a list variable for its arguments.
Given(items) ==
  FlattenSeq([j \in DOMAIN items |-> IF items[j].list THEN args[env[items[j].v]]
                                                      ELSE <<env[items[j].v]>>])
Usable(s) == s \in Seq(Node) /\ \A x \in Range(s) : Live(x)

\* The literal that v, a #string or an #int, wraps: k_get_arg(v, 0).
Wrapped(v) == label[args[env[v]][1]]
Wraps(v, S) == env[v] \in Node /\ args[env[v]] # <<>> /\ Wrapped(v) \in S

LabelOf_bug(l) == l
LabelOf(l) == IF l \in DOMAIN lenv THEN lenv[l] ELSE l

-----------------------------------------------------------------------------
(* Checks.                                                                 *)

SortFits_bug(c, l) == l \in c.labels
SortFits(c, l) == l \notin Literal /\ (l \in c.labels) # c.reverse
CheckHolds(c) ==
  LET n == Deref(c.loc) IN
  /\ n \in Node
  /\ \/ c.kind = "num" /\ (IF c.exact THEN Len(args[n]) = c.num ELSE Len(args[n]) >= c.num)
     \/ c.kind = "label" /\ c.label \in LabelVar \cup {label[n]}
     \/ c.kind = "sort" /\ SortFits(c, label[n])

\* Checks are sorted by depth, those of one depth in no particular order: a check
\* may be made if all those at lesser depths hold.
Made_bug(r) == Range(Code[r].chk)
Made(r) == {c \in Range(Code[r].chk) :
              \A d \in Range(Code[r].chk) : Len(d.loc) < Len(c.loc) => CheckHolds(d)}

Applies(r)   == {c \in Range(Code[r].chk) : ~ CheckHolds(c)} = {}
MayReject(r) == {c \in Made(r) : ~ CheckHolds(c) /\ Deref(c.loc) \in Node} # {}
\* A check reads an argument that is not there.
MayTrip(r)   == {c \in Made(r) : Deref(c.loc) \notin Node} # {}

\* repl gets as far as rule r.
Reached(r) == \A q \in 1..(r - 1) : MayReject(q)

-----------------------------------------------------------------------------
(* Statements.                                                             *)

Running == panicked = "no" /\ outcome = "running"
At(op)  == Running /\ Idle /\ code # <<>> /\ Head(code).op = op
Heap    == <<vars, label>>
\* The next statement; the heap action may have stopped the program instead.
GoOn == code' = Tail(code) /\ UNCHANGED <<test, lenv, outcome>>
Assign(v, n) == env' = [env EXCEPT ![v] = n]

\* is_int or is_bool fails, or there is nothing in the wrapper.
BadArgument(i) ==
  \E v \in Range(i.args) :
     IF i.fn = "#not" THEN ~ (Wraps(v, {"#true", "#false"}) /\ label[env[v]] = "#bool")
                      ELSE ~ (Wraps(v, DOMAIN Num) /\ label[env[v]] = "#int")

New ==
  /\ At("k_new")
  /\ InOrder
  /\ LET s == Given(Head(code).items) IN Usable(s) /\ K_new(s)
  /\ Labelled(LabelOf(Head(code).label))
  /\ Assign(Head(code).dst, Returned(NoNode))
  /\ GoOn

Make_permanent ==
  /\ At("k_make_permanent")
  /\ env[Head(code).v] \in Node /\ K_make_permanent(env[Head(code).v])
  /\ GoOn /\ UNCHANGED <<label, env>>

\* The holder of the computation cell, Inc'd; then the program in front of it.
NewComputationCell ==
  /\ At("newComputationCell")
  /\ env[Head(code).v] \in Node /\ Own("k", env[Head(code).v])
  /\ GoOn /\ UNCHANGED <<label, env>>
Computation_add_front ==
  /\ At("computation_add_front")
  /\ LET v == env[Head(code).v] IN
     root["k"] \in Node /\ v \in Node /\ K_add_front_arg(root["k"], v)
  /\ GoOn /\ UNCHANGED <<label, env>>

IncOldK ==
  /\ At("Inc_oldK")
  /\ root["k"] \in Node /\ Own("oldK", root["k"])
  /\ GoOn /\ UNCHANGED <<label, env>>
DecOldK ==
  /\ At("Dec_oldK")
  /\ Disown("oldK")
  /\ env' = [v \in CVar |-> IF v \in Global THEN env[v] ELSE NoNode]
  /\ lenv' = <<>>
  /\ code' = Tail(code)
  /\ UNCHANGED <<label, test, outcome>>

Bind ==
  /\ At("bind")
  /\ Deref(Head(code).loc) \in Node
  /\ Assign(Head(code).dst, Deref(Head(code).loc))
  /\ GoOn /\ UNCHANGED Heap
WithoutFirst ==
  /\ At("without")
  /\ InOrder
  /\ LET k == Deref(Head(code).loc) IN
     /\ k \in Node /\ K_without_first_n_arg(k, Head(code).left)
     /\ Labelled(label[k])
  /\ Assign(Head(code).dst, Returned(NoNode))
  /\ GoOn
State_get_item ==
  /\ At("state_get_item")
  /\ Wraps(Head(code).key, Key) /\ root[Wrapped(Head(code).key)] # NoNode
  /\ Assign(Head(code).dst, root[Wrapped(Head(code).key)])
  /\ GoOn /\ UNCHANGED Heap

Lte_bug(a, b) == Num[a] < Num[b]
Lte(a, b)     == Num[a] <= Num[b]
\* k_builtin_bool_not, k_builtin_int_lte: constants made when the program started.
Builtin_constant ==
  /\ At("k_builtin")
  /\ LET i == Head(code) IN
     /\ ~ BadArgument(i)
     /\ \/ /\ i.fn = "#not"
           /\ Assign(i.dst, env[IF Wrapped(i.args[1]) = "#true" THEN "#false" ELSE "#true"])
        \/ /\ i.fn = "#lteInt"
           /\ Assign(i.dst, env[IF Lte(Wrapped(i.args[1]), Wrapped(i.args[2]))
                                 THEN "#true" ELSE "#false"])
  /\ GoOn /\ UNCHANGED Heap
Numbers(i) == [j \in DOMAIN i.args |-> Num[Wrapped(i.args[j])]]
NoQuotient(i) == i.fn = "#divInt" /\ (Numbers(i)[2] # 0 => DivTraps(Numbers(i)[1], Numbers(i)[2]))
\* The leaf of the integer an arithmetic function returns; new_builtin_int wraps it next.
Builtin_int ==
  /\ At("k_builtin") /\ Head(code).fn \in Arithmetic /\ ~ BadArgument(Head(code))
  /\ ~ NoQuotient(Head(code))
  /\ InOrder
  /\ K_new(<<>>)
  /\ Labelled(IntLabel(IntOp(Head(code).fn, Numbers(Head(code)))))
  /\ Assign(Head(code).dst, Returned(NoNode))
  /\ GoOn

Overwrites_bug(i, k) == i.count
\* How many arguments k_insert_elems overwrites: a known number, or the rest.
Overwrites(i, k) == IF i.rest THEN Len(args[k]) - i.pos ELSE i.count
\* The assertions of k_insert_elems_vararg and of the assignments it makes.
Misfit(i, k) == \/ i.pos > Len(args[k]) \/ i.pos + Overwrites(i, k) > Len(args[k])
                \/ Len(Given(i.items)) > MAX_GARBAGE_ARG_LEN

\* k_insert_elems, or computation_insert_elems as far as its first call.
Insert_elems ==
  /\ At("insert_elems")
  /\ InOrder
  /\ LET i == Head(code)
         k == Deref(i.loc)
         s == Given(i.items)
     IN /\ k \in Node /\ Usable(s) /\ ~ Misfit(i, k)
        /\ K_insert_elems(k, i.pos, Overwrites(i, k), s)
        /\ Labelled(label[k])
        /\ Assign("ret", Returned(k))
  /\ GoOn
\* The rest of computation_insert_elems: the cell takes the copy, if there is one.
New_holder ==
  /\ At("new_holder")
  /\ IF env["ret"] = root["k"] THEN UNCHANGED vars
     ELSE env["ret"] \in Node /\ Own("k", env["ret"])
  /\ GoOn /\ UNCHANGED <<label, env>>

Set_label ==
  /\ At("k_set_label")
  /\ LET k == Deref(Head(code).loc) IN
     k \in Node /\ label' = [label EXCEPT ![k] = LabelOf(Head(code).label)]
  /\ GoOn /\ UNCHANGED <<vars, env>>

UpdateStore_bug ==
  /\ At("updateStore")
  /\ Wraps(Head(code).key, Key)
  /\ LET x == Wrapped(Head(code).key) IN
     IF root[x] = NoNode THEN env[Head(code).val] \in Node /\ Own(x, env[Head(code).val])
                         ELSE UNCHANGED vars
  /\ GoOn /\ UNCHANGED <<label, env>>
UpdateStore ==
  /\ At("updateStore")
  /\ Wraps(Head(code).key, Key)
  /\ env[Head(code).val] \in Node /\ Own(Wrapped(Head(code).key), env[Head(code).val])
  /\ GoOn /\ UNCHANGED <<label, env>>

Dispose ==
  /\ At("k_dispose")
  /\ env[Head(code).v] \in Node /\ K_dispose(env[Head(code).v])
  /\ GoOn /\ UNCHANGED <<label, env>>

-----------------------------------------------------------------------------
(* What ends a program other than by running out of rules.                 *)

End(why) == outcome' = why /\ UNCHANGED <<vars, test, label, env, lenv, code>>

\* An assertion of k_get_arg, updateStore, k_insert_elems_vararg or a built-in.
Fails(i) ==
  \/ i.op \in {"bind", "without", "insert_elems", "k_set_label"} /\ Deref(i.loc) \notin Node
  \/ i.op \in {"state_get_item", "updateStore"} /\ ~ Wraps(i.key, Key)
  \/ i.op = "insert_elems" /\ Deref(i.loc) \in Node /\ Misfit(i, Deref(i.loc))
  \/ i.op = "k_builtin" /\ BadArgument(i)
Assertion == /\ Running /\ Idle /\ code # <<>> /\ Fails(Head(code))
             /\ End("assert")
\* state_get_item panics.
NoSuchKey == /\ At("state_get_item")
             /\ Wraps(Head(code).key, Key) /\ root[Wrapped(Head(code).key)] = NoNode
             /\ End("no such key")
\* k_builtin_int_div panics on 0; the least integer divided by -1 traps.
Divide ==
  /\ At("k_builtin") /\ Head(code).fn \in Arithmetic /\ ~ BadArgument(Head(code))
  /\ NoQuotient(Head(code))
  /\ End(IF Numbers(Head(code))[2] = 0 THEN "divide by 0" ELSE "trap")
\* A statement would Inc a node that has been reclaimed since it was bound.  The
\* program goes on with a corrupt heap; the model stops here.
Stale(i) ==
  \/ i.op \in {"k_new", "insert_elems"} /\ ~ Usable(Given(i.items))
  \/ i.op = "updateStore" /\ ~ Live(env[i.val])
UseReclaimed == /\ Running /\ Idle /\ code # <<>>
                /\ ~ Fails(Head(code)) /\ Stale(Head(code))
                /\ End("reclaimed")

-----------------------------------------------------------------------------
(* repl.                                                                   *)

Choosing == Running /\ Idle /\ code = <<>>

ApplyRule(r) ==
  /\ Choosing /\ Applies(r) /\ Reached(r)
  /\ code' = Code[r].code
  /\ lenv' = [x \in {c.label : c \in {d \in Range(Code[r].chk) : d.kind = "label"}} \cap LabelVar |->
                LET c == CHOOSE d \in Range(Code[r].chk) : d.kind = "label" /\ d.label = x
                IN label[Deref(c.loc)]]
  /\ UNCHANGED <<vars, test, label, env, outcome>>
TripOver(r) == Choosing /\ MayTrip(r) /\ Reached(r) /\ End("assert")
Finish      == Choosing /\ Reached(Len(Code) + 1) /\ End("done")

-----------------------------------------------------------------------------
RwInit ==
  /\ Init
  /\ test \in DOMAIN Program
  /\ code = Program[test]
  /\ label = [n \in Node |-> "_fake"]
  /\ env = [v \in CVar |-> NoNode]
  /\ lenv = <<>>
  /\ outcome = "running"

Statement ==
  \/ New \/ Make_permanent \/ NewComputationCell \/ Computation_add_front
  \/ IncOldK \/ DecOldK \/ Bind \/ WithoutFirst \/ State_get_item
  \/ Builtin_constant \/ Builtin_int \/ Insert_elems \/ New_holder \/ Set_label \/ UpdateStore \/ Dispose
Repl == (\E r \in DOMAIN Code : ApplyRule(r) \/ TripOver(r)) \/ Finish
RunDecs == Running /\ Cascade /\ UNCHANGED <<test, label, env, lenv, code, outcome>>
Over == ~ Running /\ UNCHANGED rwVars

RwStep == Statement \/ Assertion \/ NoSuchKey \/ Divide \/ UseReclaimed \/ Repl \/ RunDecs
RwNext == RwStep \/ Over

RwSpec == RwInit /\ [][RwNext]_rwVars
=============================================================================
