# A TLA+ model of kinc

kinc compiles small language definitions written in the style of the K framework to C.
The compiler (`src/compiler`, Go) turns each rewrite rule into a C function; the runtime
(`src/runtime`, C) keeps program terms as a reference-counted graph of *K* nodes and applies the
rules until none matches.  This directory models the program in TLA+, checks the models with TLC on
small instances and proves the main invariants of the heap with TLAPS.

All paths are those of the repository; line numbers are in `PROJECT.json` ("map").

## Inventory

| component | state | operations | talks to | what is hard | correct when |
|---|---|---|---|---|---|
| K heap (`runtime/k.c`) | nodes: label, argument array with a window, `refs`, `permanent`; free list `garbage_k`; `count_malloc_k` | `k_new*`, `Inc`, `Dec`/`dispose_k`, `k_dispose`, trims, set/replace/insert/add arguments, `k_make_permanent` | labels, cells, generated code | manual reference counts over shared graphs, in-place edits, recursive release, free list and limits | counts equal references, nodes are reclaimed once, shared nodes keep their shape, only cycles leak |
| labels (`runtime/k_labels.c`) | `garbage_label`, `symbolLabels` | make, dispose | heap | labels are shared by copies but freed with one owner | a label in use is not recycled |
| argument arrays (`runtime/k.c`) | 64 slots, `pos_first`, `pos_end` | `_shift_args`, `_k_extend`, `_k_grow_front_arg` | heap | overlapping moves, growth at both ends | the slot writes amount to a splice |
| cells (`runtime/cells.c`) | holder of the computation cell, map of the state cell | add, set, insert, remove, lookup, update, cleanup | heap, generated code | swapping the holder, length limits | cells own what they point to |
| built-ins (`runtime/k_builtins.c`) | permanent constants | 64-bit arithmetic, comparison, not | heap | overflow | mathematical result when it fits |
| ATerm loading (`aterm-c`, `aterm_to_k`) | parse stack, symbol table | parse, convert | heap | list order, shared hole | the K term is the term in the file |
| generated rules (`compiler/compile.go`) | the configuration, C locals of the rule | checks, bindings, replacements, `repl` | cells, heap | borrowed pointers, copies whose result is dropped, offsets of an already changed list | one rule application is one rewrite step |
| check construction (`compiler/checks.go`, `reference.go`, ...) | checks, bindings, replacements of a rule | visit, sort | code generation | sort order that is not an order | a parent is checked before its children are read |
| types and subsorts (`compiler/v_*.go`) | constraints, subsort map | collect, propagate to a fixed point | checks | termination, order of propagation | the sort a rule tests is the declared one |
| hand-compiled IMP (`imp-by-hand`) | configuration | heating, cooling, IMP rules | cells, heap | the same heap protocol, written by hand | heating and cooling are inverse |
| options, strings, parsers | - | - | - | - | - (I/O, vendored or generated) |

The runtime has one thread.  The interleavings that matter are those inside it: a `Dec` runs a
recursive cascade in the middle of an edit, and pointers borrowed before a call are used after it.

## Modules

| module | contents |
|---|---|
| `KHeap` | the K heap of `runtime/k.c` |
| `MCKHeap` | the symmetry set for TLC |
| `KHeapLemmas` | counting lemmas: occurrences in sequences, slots, owning variables |
| `KHeapProofs` | the inductive invariant, one lemma per action, and the theorems; at its end, that the calls of programs on the heap are steps of `KHeap` |
| `KHeapLimits` | the free list is always long enough; shared nodes keep their number of arguments; cascades end; only cycles leak |
| `ArgSequence` | the abstract specification of the functions that edit arguments: a sequence, changed in one step |
| `KArgs`, `MCKArgs` | the same functions slot by slot, implementing `ArgSequence` |
| `KArgsProofs` | slot accesses hold, references are counted through every loop, and the slots implement `ArgSequence` |
| `KLabels`, `MCKLabels` | labels made, shared and recycled together with the nodes (`k_labels.c`) |
| `KLabelsProofs` | every step of `KLabels` is a step of `KHeap`; labels stay with their nodes when only symbols are shared |
| `LabelledHeap` | the heap with the label of each node, for the programs that run on it |
| `Int64` | 64-bit arithmetic that wraps around and traps (`k_builtins.c`), on fewer bits |
| `RuleSyntax` | rules and terms as the compiler sees them (`kinc_t.go`) |
| `CompileRules` | checks, bindings and replacements of a rule and the statements generated for them (`v_constraints.go`, `compile.go`); `aterm_to_k` and `k_init_builtins` |
| `Rewriter` | generated code and `repl` running on `KHeap` |
| `Rewriting` | the abstract specification: term rewriting on a K cell and a map |
| `RewriterTerms` | `Rewriter` with rules given as syntax, its heap read back as terms, related to `Rewriting` |
| `RewriterProofs` | every step of `Rewriter` is a step of `KHeap` |
| `CheckOrder`, `MCCheckOrder` | the sort of a rule's checks with a comparison that is not an order (`checks.go`, `reference.go`) |
| `CheckOrderProofs` | whatever the comparison says, shallower checks come first |
| `ImpByHand` | the handlers, `repl` and `run` of `imp-by-hand/imp_bench.c` on `LabelledHeap` |
| `ImpByHandTerms` | its cells read back as terms: a refinement of `Rewriting`, and an evaluator for the results |
| `ImpByHandProofs` | every step of `ImpByHand` is a step of `KHeap`; the limits on the length of a cell never stop it; what a handler has in hand stays live; constructs keep their number of arguments |
| `MCHand` | programs for it, and the nodes `aterm_to_k` makes of them |
| `MCBasic`, `MCImp` | the languages of `tests/basic` and `tests/imp` with their programs and results |

`Rewriter` and `ImpByHand` EXTEND `KHeap` through `LabelledHeap`: a statement of generated code, or a
runtime call of a handler, is an action that contains one of KHeap's calls.  `KLabels` EXTENDS `KHeap` in the
same way, with labels in place of programs.  `KArgs` stands apart: it is what `KHeap` takes for granted of the
slot arrays.  `RewriterTerms` EXTENDS `Rewriter` and `CompileRules` and has `Rewriting` as an INSTANCE.
`Rewriter` takes its rules as compiled code in the constant `Code`, so that it needs no recursive
operator and can be proved about; the configurations set `Code` to `Compiled`, what `CompileRules`
makes of `Rules`.

### KHeap

*State.*  `refs`, `args`, `pos_first`, `permanent` are the fields of a K, as functions of its
address.  `args[k]` is the used part of the slot array, so `pos_end` is
`pos_first[k] + Len(args[k])`.  `garbage_k` is the free list (a stack), `mallocd` the addresses ever
returned by `mallocK`, whose number is `count_malloc_k`.  `root` stands for the C variables that own
a counted reference: the holder of a cell, a map entry, the `oldK` of a rule.  Labels are left out:
no reference goes through them.

*Calls.*  One C call is one action up to the first `Dec` that could release a node; what that `Dec`
still has to do is the sequence `work`, the call stack made explicit.  `DecStep` and `AuxStep` take
one call off it.  While `work` is not empty no other action is possible, as in a program with one
thread.  `_bug` operators are alternative bodies with a mistake; nothing uses them in the model.

*Stopping.*  `panicked` records which `panic` or `assert` ended the program.  Every guard in the C code
that ends it is an alternative of the action: too many arguments, too many outstanding nodes,
a window that does not fit, no room in front, the `free()` branch of `dispose_k_itself`.

*What the environment may do.*  Callers pass live nodes, and hold (`Held`) a node they trim in place
by some other way than through its own arguments: `updateTrimArgs` Decs an argument before it
clears its slot, so a node owned only by a cycle through that slot would be released in the middle
of the call.  In generated code and in `cells.c` the trimmed node is always the holder of a cell or a
term below it.

*Properties.*

- `RefCountsExact`: a count is the number of slots, owning variables and pending Decs that name the
  node.
- `ReclaimedOnce`: a reclaimed node is named by nothing, has no arguments and is on the free list once.
- `CascadeAssertions`: the assertions of `Dec` and `dispose_k_itself`.
- `WindowInBounds`: the window of every array stays inside it.
- `SharedKeepsArity`: no step changes the number of arguments of a node with two references.
- `FreePathUnreachable`: with a free list as large as the number of nodes that may be outstanding,
  the `free()` branch is never taken.  It could not succeed: `free_args` asserts on
  `count_malloc_listk`, which nothing increments.  With the shipped `settings.h` (5000 outstanding,
  10000 kept) it is dead code.
- `OnlyCyclesLeak`: a live node that nothing can reach is on a cycle or held by one.
- `CascadeShrinks`: every step of a cascade of Decs lowers a bound (`Weight`) on what is left: two for each
  used slot, one for each live node, one for each pending call.  So a cascade ends whatever cycles and
  shared terms it meets, and no fairness is needed to say so.

### KArgs and ArgSequence

`KHeap` treats an argument list as a sequence.  `KArgs` is about why that is right.  A node has an array `a` of
fixed size with a window (`pos_first`, `pos_end`) that moves; slots outside of it keep what earlier
owners left there.  `k_insert_elems_vararg` is a phase per loop: `resize`, `overwrite`, `take` and `put`
(the two loops of `_shift_args`), `fill`, `dispose`.  Each loop step is one action and makes the assertions of `k_get_arg` or
`_k_set_arg`.  `updateTrimArgs` and `k_without_first_n_arg` are loops in the same way; `k_replace_arg`, `k_set_arg`,
`k_add_front_arg` and `copy` are one action each.  Another owner may take and drop the node between calls, so each
function runs on shared and on unshared nodes.

- `KeepsPromise`: `KArgs` implements `ArgSequence`.  While a call runs, the mapping shows what both owners saw when it began
  (`before`); the call takes effect when it returns.  A change made in place is visible to the other
  owner only where the code means it to be.
- `AccessesHold`: once a call is under way, no access leaves the window or finds an empty slot.  The copy with which a call
  begins can fail: its window starts at `POS_FIRST` again, and a node that grew in front may have more arguments than fit
  there, so that the assertion of `_k_set_arg` (`k.c:460`) stops the program (`CopyFails`).  The run meets this (three arguments, one more in
  front, an insertion); the property says that it is the only assertion of a slot access that fails, and only then.
- `OverwrittenStayLive`: an overwritten argument keeps a reference until the end of the call, so that it may be
  among the new ones.
- `SlotsCounted`: between calls each argument is counted once per slot.

`KArgs` takes the next array from the free list by CHOOSE: the arrays are alike but for what is left in their slots, which
is what earlier calls of the run have put there.  `ArgsAssumption` says that there are finitely many arrays and always
one more than the three that may be in use when a call acquires one: `mallocK` returns another node or stops the program at a limit,
which is `KHeap`'s subject.

### KLabels

`klabel` is `K.label`, `content` the type and value of a `KLabel`, `symbolLabels` the table that keeps symbols, and
`garbage_label` the free list.  `given` is a history: the value the node was made with.  `Taken` are the
nodes a step acquires; the same step gives them their label: a new one, or, in `Copying`, that of the
node copied by a trim, `k_replace_arg` or `k_insert_elems`; `dispose_k_aux` disposes of the label.  `Sharing` says whether
callers copy nodes with string or integer labels, or build a node with the label a rule has bound.

- `LabelsIntact`: a live node has the label it was made with, and that label is neither freed nor on the free
  list.  It holds as long as only symbols are shared (run `labels`) and fails otherwise (`labels_shared`).  In the programs of the
  tests nothing copies a string or integer node: they have no arguments and no call edits them.

### CompileRules and Rewriter

*Compiling.*  `BuildKChecks` and its list helper follow `v_constraints.go`: one walk over the rule gives
the checks, the bindings and the replacements, each at a location, which is the sequence of positions from
the cell.  `CompileTerm` and `CompileReplacement` give the statements of `compile.go` in the order in
which they are printed: `oldK`, bindings, replacements, disposal of list copies, `Dec(oldK)`.  A
statement is a record whose `op` names the runtime call.

*State.*  In addition to the heap: `label` (K.label), `env` (C variables, those of the running rule and the
constants `_true` and `_false`), `lenv` (label variables), `code` (the statements the running function
still has to execute), `outcome`, and `test`, the program that is run.  The computation cell is
`root["k"]`, the holder node; an entry of the map cell is `root[x]` for its key `x`; `root["oldK"]` is
the reference a rule takes to the old holder.

*Steps.*  One statement is one action; the Decs it starts run (`RunDecs`) before the next statement.
`computation_insert_elems` takes two (the insertion, and the cell taking over the copy), because the
insertion may have a cascade of its own to run.  `k_builtin_int_plus` takes two nodes and is two
statements.  Between rules (`code` empty) `repl` takes the first rule whose checks hold.  The compiler sorts checks by
location with a comparison that leaves those of one depth in no fixed order (see `CheckOrder`); so `Made` allows any order that
respects depth, and a rule may be rejected (`MayReject`) or trip (`MayTrip`) by any check such an order can reach.

*Ending.*  `outcome` says how a program ends: `"done"` when no rule applies, `"assert"` when an assertion of
the runtime fails, `"no such key"` when a lookup panics, `"reclaimed"` when a statement would Inc a
node that has been reclaimed since it was bound.  In the last case the program itself goes on with a
corrupt heap; the model stops there, since nothing later means anything.  `panicked` covers the limits.

Division by zero and of the least number ends as `"trap"`.

*Left out.*  Type inference (variables are written with the sort they get), `when` clauses (the
compiler refuses them), right sides with injected integers and argument lists that mix a list with other terms (the compiler
panics on these), the node made for `#hole`, debug printing, and builds with NDEBUG.

*Properties.*

- `RewriteSteps`: the terms seen between rules are steps of `Rewriting`.  The refinement mapping is the
  history variable `seen`, into which the cells are read back as terms each time a rule has finished; a rule
  that leaves the cells as they were still counts as a step (`turn`), and must be one.
- `StopsInNormalForm`: the program ends only when no rule matches, on terms.
- `NothingLeaks`: between rules every live node is in a cell or one of the constants.
- `BorrowedStaysLive`: a C variable that will still be read points to a live node (for the programs that end as
  they should, `DOMAIN Expected`).
- `ChecksReadWhatExists`: no order of checks that the sort permits reads a missing argument.
- `ResultAsTested`: the K cell at the end is that of the `.result` file (or, for programs the test suite does
  not have, `nested`, `loop`, `arith`, `quot`, `wraps`, what the rules and 64-bit arithmetic give).
- `Terminates`: the programs of the run end.

`RwTypeOK` also says that every node in use has been given a label.

### CheckOrder

A location is a sequence of parts: the cell, then positions from the front of a list or from its end.  `Compare`
looks at the depth first and then at the parts, as `Reference.Compare` does; positions that are equal but
different objects (`at` equal, records distinct) compare as different, in both directions.  `Less` is
`Compare <= 0`, true of equal locations.  The steps are those of the insertion sort in Go's library, which finishes
every `sort.Sort` of up to 12 elements; the initial list is arbitrary.  Nothing is said of a rule with more checks than that,
whose list `sort.Sort` partitions first.

- `ShallowFirst`: after the sort, shallower checks come first.  Nothing more can be said, which is why
  `Rewriter` allows any order at one depth.  `SortInv` is the inductive invariant of the proof.

### ImpByHand

*State.*  The heap with labels; `phase` (where `run` is: `"load"`, `"repl"`, `"result"`, `"cleanup"`, or why the program
ended); `calls`, the runtime calls the current handler still has to make; `ret`, what the last of them returned; `built`,
the constants and the nodes of the program; `value`, the results of the runs so far; `run`, how often `run` has been called.  A holder
of a computation cell is `root["cell1"]` and so on, one for each call of `run`; an entry of the map is
`root[x]`.

*Steps.*  A handler reads the heap and becomes the list of calls it will make (`Heat`, `Strict`, `Becomes`, ...);
it makes none when it returns without a change, which ends `repl`.  Each call is one action (`Calls`)
containing one of KHeap's; `RunDecs` runs its cascade.  Nothing a handler reads after its first call is read again
except what a later handler reads (`Follow`), so the decision at the start is the decision in the code;
`OperandsStayLive` says that the operands it read stay live until the last call has used them.

*Programs.*  Well-typed terms, and `k_get_arg` on a missing argument is not reached.  What `handleIf` and `handleNot` do with a value
that is no truth value (the `checkTypeSafety` panics) is an alternative of these handlers that no program of the runs takes.  `HandAssumption` says what of this the proofs use: each node of a program has a label and a construct its number
of arguments (`Suits`), and the labels of integers (`Num`) are not those of a construct.  `run` loads the program again each time, as `run_mem` does in `test.c`.

*Properties* (the first three are stated in `ImpByHand`, where they can be proved, the others in `ImpByHandTerms`):

- `HandTypeOK`: every node in use has a label, and a construct of IMP its number of arguments.  `k_replace_arg` writes one
  argument of a construct at a time; the trims and insertions that change numbers must only ever meet lists.
- `OperandsStayLive`: what a handler read before its first call, and what a call returned, is live when a later call
  uses it.  A handler counts none of it; a call in between may release the node it was found in.
- `LimitNeverReported`: `too many elements` and the safety check of `repl` are never what stops a program; the window of the
  holder is used up first and `k_add_front_arg` panics.
- `RuleSteps`: each handler is one rule of IMP (`HandRules`) in `Rewriting`; the cells are read back into `seen` when a handler is about to look at
  them.
- `ResultAsEvaluated`: the result is what a recursive evaluator of IMP gives, in every run.
- `CheckPasses`: what `check()` of `cells.c` would count agrees with every `refs` in the cells.
- `OnlyHoldersLeak`: between two runs nothing is left but the constants and one empty holder per earlier run.
- `Terminates`.

## Findings

Five runs show a disagreement between the code and its own tests, comments or assertions:

| run | what the repository says | what the code does |
|---|---|---|
| `imp_store01` | `tests/imp/store01.result`: the cell is `#int(5())` | the assignment rule replaces the K cell before it updates the store; the replacement releases the last reference to the key, and `updateStore` (`cells.c:261`) reads a reclaimed node and fails an assertion.  A K cell that shares the assignment term (a loop body, run `imp`, program `loop`) hides it |
| `imp_skip` | `k.c:429` asserts that the argument read exists | `(skip() ~> K:listk) => K` counts as no argument, so its check accepts an empty cell and the next one reads item 0 |
| `basic_list3` | `tests/basic/list3.result`: `list3(c())` | `k_insert_elems` returns a copy when it removes arguments; generated code drops it, and the rule applies for ever |
| `hand_mem` | `test.c:57-59`: the same result from each of many calls | `run` frees its computation cell but not the holder node in it; one node per call, until no more may be made |
| `labels_shared` | `k_labels.c:13-14`: strings are shared by copies, labels should probably not be freed | `dispose_label` frees or recycles them; a live node ends up with another label |

Met while modelling and not run: `list6` and `list9` fail like `list3`; `tests/basic/list11` applies its second
replacement at the position from before the first and ends with `list11(b(), d(), c())` instead of
`list11(b(), e(), d())`; `imp_bench.c:599` has no case for `paren`, so programs with
parentheses that `test.c:19-20` lists stop there (program `parens` of `hand` shows the stop).

## Runs

| run | instance | shows |
|---|---|---|
| `heap_wide` | 3 nodes, 1 variable, 2 slots, windows start at slot 1, room for 3 on the free list | types, counts, reclamation, windows, arity, the assertions of a cascade, only cycles leak, the `free()` branch is not taken, cascades shrink |
| `args` | 4 arrays of 4 slots, 2 argument nodes, 3 calls | accesses hold, overwritten arguments stay live, slots are counted, slot writes implement sequences |
| `labels` | 3 nodes, 3 labels, room for 2 on the free lists, no literal is shared | labels stay with their nodes |
| `check_order` | up to 4 checks of depth up to 3 | shallower checks come first |
| `basic` | the 33 rules of `tests/basic` and 24 of its programs, 30 nodes of 20 slots | steps are rewrites, results as tested, normal forms, no leaks, checks in any permitted order |
| `imp` | all rules of `imp.kinc`, 12 programs that end and 6 that stop, 60 nodes of 20 slots, fairness | steps are rewrites, results, no leaks, borrowed pointers, termination |
| `hand` | 11 programs (4 that end, 7 that stop), each run twice, 90 nodes of 12 slots, fairness | the properties of `ImpByHand` and `ImpByHandTerms` |
| `imp_store01`, `imp_skip`, `basic_list3`, `hand_mem`, `labels_shared` | one program or client each | the findings |

*Bounds.*  `Node`, `Array`, `Label`, `MAX_OUTSTANDING_K`, `MAX_GARBAGE_KEPT`, `MAX_GARBAGE_ARG_LEN`, `POS_FIRST` and `MAX_K` are
the program's own limits made small.  The models add `MaxElems` and `MaxCalls` (`KArgs`: arguments of one insertion, calls
made), `Runs` (calls of `run`), `MaxDepth` and `MaxChecks` (`CheckOrder`), and the bits of `Num`.

Three nodes are enough for a
shared child, a parent and the copy an insertion makes of it, and for the cycles an in-place
write can close; two slots are enough for the same argument twice, for a shift, and for a window
that can move by trimming, growing in front and growing behind.  `POS_FIRST = 1` leaves one free slot in front, as 20
does in the program; with 0 every front growth panics at once.  In `args`, four slots hold a
prefix, an overwritten part, a shifted part of two and an insertion; three calls are enough to trim or grow a window, to leave old
values outside of it, and to grow over them; four arrays are the most that one call needs (two owners, the copy that keeps
the old arguments, the copy that is edited).  In `labels`, two literals and three labels are enough for a freed label to be
handed out again while another node might still use it.  The theorems below hold for every value of
the bounds.

The programs of `basic`, `imp` and `hand` are deterministic but for the order of checks, so a run is the set of its
programs.  30, 60 and 90 nodes are more than any program that ends needs; where one leaks
(`basic_list3`, `hand_mem`) the limit is what stops it, as 5000 does in the real program.  Arrays have 20 or 12 slots
instead of 64 and windows start at 2, 4 or 6 instead of 20; the longest list of any program that ends has 15
elements.  Program `deep` of `hand` nests more terms than the window has room for.  Peano numbers of `plus` and
`rewriteInsideTerm` are smaller than in the tests, which changes the number of
rewrites and not the rules used.  Integers have three bits: -4 to 3, so that sums wrap and the least number can be divided
by -1.  Addresses from `malloc` are taken in increasing order (`InOrder`) where programs run, since
nothing compares them.

*Symmetry.*  Nodes, variables, labels of one kind and argument atoms are interchangeable where no action orders or
chooses among them; runs with only safety properties and step properties use their permutations.  The runs of programs use none.

*Fairness.*  Only the runs with `Terminates` assume any: `TmFairSpec` and `HtFairSpec` say that the program runs on
until it has ended.  It is one thread, it waits for nothing, and each of its actions is a call or a statement that
returns.  This is weak fairness of the next-state relation, with "has not ended" in place of ENABLED: some step is possible until
the end (a state without one would be a deadlock, which TLC looks for), and TLC cannot evaluate ENABLED of these actions in
reasonable time.

## Proofs

`KHeapProofs` proves, for every value of the constants that satisfies `HeapAssumption`:

- `TypeCorrect`, `WindowsInBounds`, `CountsAreExact`, `NodesReclaimedOnce`, `CascadeAssertionsHold`.

*Argument.*  `IInv` is the conjunction of `TypeOK`, `WindowInBounds`, `RefCountsExact` and
`ReclaimedOnce`.  None of the parts is inductive alone: that a released node has zero references needs the
counts to be exact; that the counts stay exact when a free node is reused needs that nothing names
it and that it has no arguments; and that an edit stays within the set of slots over which the counts are
taken needs the windows.  The counts are cardinalities of sets of slots and positions; `KHeapLemmas`
says how one write, a whole new list or a new owner changes them.  `KHeapProofs` has one lemma per action and a
theorem `Inductive` that puts them together.

`KHeapLimits` builds on it:

- `FreePathDead`: the nodes on the free list are distinct, and a node about to be released is not one
  of them, so the list is shorter than `mallocd`, which `MAX_OUTSTANDING_K` bounds (`LInv`); hence it has
  room whenever `MAX_GARBAGE_KEPT >= MAX_OUTSTANDING_K`.
- `ArityKept`: every edit that changes the number of arguments either holds the only reference to
  the node (by `RefCountsExact` no other call is working on it) or edits a copy.
- `CascadesShrink`: a step of a cascade lowers `Weight`.  A `Dec` that leaves references takes one call
  off.  A `Dec` of the last reference clears the node's slots, which count two each, and puts as many pending `Dec`s and one
  `dispose_k_aux` in the place of itself, while one node is no longer live; with no arguments the node alone pays.  A
  `dispose_k_aux` takes itself off and changes neither slots nor live nodes.
- `OnlyCyclesLeakHolds`: suppose some live nodes are accounted for by neither a root nor a cycle, and take one
  with the most nodes below it (`LeastNatural` in `KHeapLemmas`).  It has a reference that no owner and no pending `Dec`
  holds, so by `RefCountsExact` a live node has it as an argument; that node is not accounted for either, and has
  everything below it that the first has, and the first itself, which is not below itself as it is on no cycle: one
  more, a contradiction.  `Reach` is a recursive function of the number of steps; what the proof
  needs of it (closed, and least) is an induction over that number, which `SetInduction` does with sets in place
  of an operator.

`RewriterProofs` puts generated programs on top:

- `RewriterUsesHeap`: `RwSpec => Spec`.  Whatever `Code` and `Program` are (statements in range,
  `RewriterAssumption`), each step of `Rewriter` is a call of `KHeap` with arguments `KHeap` allows, a step of a
  cascade, or leaves the heap alone.
- `RewritingKeepsCounts`, `RewritingReclaimsOnce`, `RewritingKeepsAssertions`: the heap's invariants
  therefore hold while any program runs.

*Argument.*  The invariant is `RwIInv`: `IInv` and that `code` is a sequence of known statements.  `IInv` is needed for
the ranges `KHeap` quantifies over: its calls take lists and positions no longer than an array, and the
windows are what bounds them.  The end of `KHeapProofs` has a lemma for each kind of call (`NewIsCall`, `InsertIsCall`, ...) and
`StatementMaps` has one case per statement.  The theorems say nothing of what happens after a
use of a reclaimed node, where the model stops; that borrowed pointers do stay live depends on
the rules, and is checked (`BorrowedStaysLive`), not proved.

`ImpByHandProofs` does the same for the interpreter written by hand, from the same lemmas:

- `ImpByHandUsesHeap`: `HwSpec => Spec`, for any program, any number of runs and any limits.
- `HandlersKeepCounts`: `RefCountsExact` therefore holds while handlers run.
- `LimitsNeverReported`: if `POS_FIRST <= MAX_K`, `LimitNeverReported` holds (both are 20 in the program).
  `LimitInv` says that the window of a computation cell ends where it began (`CellEnds`): handlers only grow and
  trim it in front, so it never has more than `POS_FIRST` elements.  `Stage` says which calls may be
  outstanding: those that load the program, those that make a cell, or a handler's, none of which ends the
  program with one of the two reports.  Without the hypothesis the check in `computation_add_front` would be reached.
- `OperandsAlwaysLive`, `LabelsAlwaysSuit`: `OperandsStayLive` and `HandTypeOK` hold, for any program that satisfies
  `HandAssumption`.

*Argument.*  `OperandsStayLive` is about lists of calls that are still to be made, so `HandInv` lists the lists there are
(`Heats`, `Cools`, `Becoming`, `Splits`, `Declares`, ...), in each of the stages they go through, and says for each what
its operands rest on.  There are five reasons why a node in hand is still there: nothing has been released since it was read (`work` is
empty and it was live); it is in the cell (`Listed`), as the node under the head is while the head is removed; it has been made and not yet been
given to anyone (`Fresh`), so that no `Dec` reaches it; it is a constant, which is permanent (`ConstantsHeld`); or the program is still being loaded.
The proof has a lemma for what each call of the heap leaves as it is (`Grown`, `Edited`, `CascadePost`; in common, `Undisturbed`), one
for each call of a handler that leads from one list to the next (`ReplaceReady`, `SetReady`, `RemoveReady`, ...), and one for each
handler that shows that its first list is one of those (`HandlersHandle`).

The strengthening is needed twice.  A `Dec` in `computation_set_elem` or `computation_remove_head` releases whatever was only
below the old head, and that the operands of the calls that follow are not there is a fact about each list, not about states in
general.  And `updateTrimArgs` and `k_replace_arg` edit in place a node with one reference: that this is not the holder of the cell
(`NotHolder`), whose arguments are what makes other nodes `Listed`, follows from `RefCountsExact`, as a node in the cell and held by the
cell has two references.  The argument lists of constructs survive because trims and insertions only meet other labels.

`KLabelsProofs`:

- `LabelsUseHeap`: `LbSpec => Spec`, whatever is shared.
- `LabelsStayIntact`: `~ Sharing => (LbSpec => []LabelsIntact)`.  `LabelInv` adds to `LabelsIntact` that a free label is
  listed once, that the table keeps the label of each symbol, and that two nodes that still have a label to give back
  carry the same one only if it is a symbol's (`LiteralsUnshared`).  Without the hypothesis it is false (run `labels_shared`).

`KArgsProofs` is about the loops over slots, for arrays and lists of any length and any number of calls:

- `AccessesAlwaysHold`, `OverwrittenStayLiveHolds`, `SlotsAlwaysCounted`: the safety properties of `KArgs`.
- `SlotsKeepPromise`: `ArgsSpec => KeepsPromise`, the refinement of `ArgSequence`.

*Argument.*  `ArgsInv` has three parts.  `ArgsTypeOK` includes that an assertion has failed only between calls, at a node too
long to copy (`TooLongToCopy`); that such a node grew in front follows.  `Phase` says for each phase of a call
what is in the slots of the node it edits as a function of `i`: what is cleared, what has been moved to `temp`,
what is already in its place; that the copy to be given up (`doomed`) still reads the old list; and that owners of other nodes see
what they saw when the call began (`OwnersSee`).  `Counted` says that the references of an argument are the slots in use that name it
and its places in `temp`; slots of the edited node that are still to be written are not in use
(`Settled`).  For the refinement, what the mapping shows does not change within a call, and when the call returns the new contents are
one `Splice` or `Keep` of the old; `Disposing` carries this from the last write to the end of the
disposal.

`CheckOrderProofs` is about a sort whose comparison is not an order:

- `SortInvariant`, `ChecksShallowFirst`: for any number of checks of any depth that the insertion sort is given, which is
  every list of up to 12.  `LessByDepth` is all it needs of the
  comparison: a shallower check is less, a deeper one is not.  `SortInv` says that the checks up to `i`
  other than the one in hand are in order of depth, and those behind it are not shallower than it.

*Only model-checked.*  Everything about terms, since reading the heap back is recursive: `RewriteSteps`,
`StopsInNormalForm`, `NothingLeaks`, `BorrowedStaysLive`, `ChecksReadWhatExists`, `ResultAsTested`,
`RwTypeOK`, and the properties of `ImpByHandTerms` (`RuleSteps`, `ResultAsEvaluated`, `CheckPasses`, `OnlyHoldersLeak`); and `Terminates`, which needs
fairness.
That `aterm_to_k`, `BuildKChecks` and `CompileTerm` give the right code is checked for the rules of the
tests; what a recursive definition computes for every input would need induction over data.

## Plan

1. `KHeap` with its lemmas and proofs - done.
2. `RuleSyntax`, `CompileRules`, `Rewriter`, `Rewriting` and their relation - done for all rules of
   `tests/basic` and `tests/imp`.
3. `KArgs` and `ArgSequence`, `KLabels`, `Int64`, with proofs about the first three - done.
4. `ImpByHand` with its relation to `Rewriting`, and the cell operations that only it uses - done.
5. `CheckOrder` - done.

Worth doing next: the in-place changes of references while checks are built
(`v_constraints.go:97`), subsort closure and type inference as fixed points, and `BorrowedStaysLive` as a theorem for the
code of a given rule.

## Not modelled

- The parsers (generated from grammars), printers and the compiler's driver: one pass over a file, no state.
- Type and subsort inference (`compiler/v_variable_types.go`, `v_subsorts.go`, `v_symbol_labels.go`): the rules of the runs
  carry the sorts it would give them.
- `uthash.h`, `adopt.c` (vendored), strings and timing helpers.
- `imp-by-hand/imp.c`, an older version of `imp_bench.c` written against calls the runtime no longer has.
- Builds with NDEBUG, in which the assertions the models stop at are gone.
