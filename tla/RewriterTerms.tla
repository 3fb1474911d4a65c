--------------------------- MODULE RewriterTerms ----------------------------
(***************************************************************************)
(* Rewriter related to Rewriting.  Between rules the K cell and the map    *)
(* cell are read back as terms into the history variable seen, which       *)
(* changes with every rule; the terms seen one after the other must be     *)
(* steps of term rewriting.                                                *)
(***************************************************************************)
EXTENDS Rewriter, CompileRules

CONSTANTS Rules,     \* the rules whose compiled form is Code
          Expected   \* test -> the K cell its .result file shows, for those
                     \* that are to end

VARIABLE seen

Compiled == [r \in DOMAIN Rules |-> CompileRule(Rules[r])]

RECURSIVE TermAt(_)
TermAt(n) == T(label[n], [i \in DOMAIN args[n] |-> TermAt(args[n][i])])

Cell  == TermAt(root["k"]).a
Store == [x \in {y \in Key : root[y] # NoNode} |-> TermAt(root[x])]
\* No rule is running.
Between == root["k"] # NoNode /\ code = <<>> /\ work = <<>> /\ panicked = "no"

TmInit == RwInit /\ seen = [cell |-> <<>>, store |-> <<>>, turn |-> FALSE]
TmNext == /\ RwNext
          /\ seen' = IF Between' /\ ~ Between
                      THEN [cell |-> Cell', store |-> Store', turn |-> ~ seen.turn] ELSE seen
TmSpec == TmInit /\ [][TmNext]_<<rwVars, seen>>

Abstract == INSTANCE Rewriting WITH cell <- seen.cell, store <- seen.store,
                                    LabelVars <- LabelVar
Loaded == seen.cell # <<>>
Ended  == outcome # "running" \/ panicked # "no"
ToEnd  == test \in DOMAIN Expected

\* One thread, which runs on until the program has ended: weak fairness of
\* TmNext, with ~ Ended for ENABLED (a step is possible until the end, and TLC
\* takes too long over ENABLED here).
TmFairSpec == TmSpec /\ ([]<>Ended \/ []<><<TmNext>>_<<rwVars, seen>>)

-----------------------------------------------------------------------------
(* Properties.                                                             *)

\* Every node in use has been given a label.
RwTypeOK ==
  /\ label \in [Node -> STRING]
  /\ \A n \in Node : Live(n) => label[n] # "_fake"
  /\ env \in [CVar -> Node \cup {NoNode}]
  /\ test \in DOMAIN Program
  /\ outcome \in Outcomes

\* One run of generated code is one rewrite by the first rule that matches:
\* statements that edit the terms one after the other, in place or in copies,
\* amount to replacing all left sides at once.
RewriteSteps == [][Loaded /\ seen' # seen => Abstract!Next]_seen

\* The program stops only when no rule matches (or a lookup fails).
StopsInNormalForm == outcome = "done" => Abstract!NormalForm

\* Between rules every live node is part of a cell, or one of the constants:
\* what a rule allocates and does not use is released by the end of it.
NothingLeaks ==
  Between /\ outcome = "running" =>
    \A n \in Node : Live(n) =>
      n \in Reach({root[r] : r \in {x \in Root : root[x] # NoNode}}
                    \cup {env[v] : v \in {x \in Global : env[x] # NoNode}})

\* The C variables a statement reads.
Operands(i) ==
  CASE i.op \in {"k_new", "insert_elems"} -> {x.v : x \in Range(i.items)}
    [] i.op = "k_builtin" -> Range(i.args)
    [] i.op = "state_get_item" -> {i.key}
    [] i.op = "updateStore" -> {i.key, i.val}
    [] i.op \in {"k_make_permanent", "newComputationCell", "computation_add_front", "k_dispose"} -> {i.v}
    [] OTHER -> {}
\* Those the running function still reads before it assigns them.
Needed ==
  UNION {{v \in Operands(code[n]) :
            \A m \in 1..(n - 1) : "dst" \in DOMAIN code[m] => code[m].dst # v} : n \in DOMAIN code}

\* What a rule borrows from the cells when it binds its variables stays alive
\* until its last use, though earlier statements of the rule release the terms
\* it was borrowed from.
BorrowedStaysLive == ToEnd => \A v \in Needed : Live(env[v])

\* Checks read only arguments that shallower checks have found to be there.
ChecksReadWhatExists == Choosing => \A r \in DOMAIN Code : MayTrip(r) => ~ Reached(r)

\* What the test suite expects to see in the K cell at the end (and what term
\* rewriting gives for the programs that are not in the suite).
ResultAsTested == Ended /\ ToEnd => outcome = "done" /\ Cell = Expected[test]

\* Every program of the run comes to an end: repl does not apply rules for ever.
Terminates == <>Ended
=============================================================================
