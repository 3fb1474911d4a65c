------------------------------ MODULE KLabels -------------------------------
(***************************************************************************)
(* The labels of K nodes (src/runtime/k_labels.c): one KLabel per symbol,  *)
(* kept in symbolLabels for ever, and one for every string or integer a    *)
(* node is made with, which goes to the free list garbage_label when the   *)
(* node does.  copy() gives the copy the label of the original, and rules  *)
(* with label variables reuse labels: nothing counts who points to one.    *)
(***************************************************************************)
EXTENDS KHeap

CONSTANTS Label,     \* addresses malloc may return for a KLabel
          NoLabel,   \* NULL
          Symbol, Literal,  \* the values of labels: symbols; strings, integers
          Sharing    \* do clients copy literals, or build with a bound label?

VARIABLES
  klabel,         \* K.label
  garbage_label,  \* garbage_label[0 .. garbage_label_next-1]
  labels,         \* labels malloc'd and not freed
  content,        \* type and value of a KLabel
  symbolLabels,   \* the table of symbol labels
  given           \* what each node was made with (history)

labelVars == <<klabel, garbage_label, labels, content, symbolLabels, given>>
lbVars == <<vars, labelVars>>

ASSUME LabelAssumption ==
  /\ NoLabel \notin Label /\ IsFiniteSet(Label)
  /\ Symbol \cap Literal = {} /\ Sharing \in BOOLEAN

Value == Symbol \cup Literal
IsSymbol(l) == content[l] \in Symbol

\* _new_label
CanTake(l) == IF garbage_label # <<>> THEN l = garbage_label[Len(garbage_label)]
                                      ELSE l \in Label \ labels
Take(l, v) == /\ CanTake(l)
              /\ garbage_label' = Popped(garbage_label)
              /\ labels' = labels \cup {l}
              /\ content' = [content EXCEPT ![l] = v]
Found == UNCHANGED <<garbage_label, labels, content, symbolLabels>>
\* StringLabel, Int64Label and SymbolLabel return l.
LabelFor(v, l) ==
  \/ v \in Literal /\ Take(l, v) /\ UNCHANGED symbolLabels
  \/ v \in Symbol /\ symbolLabels[v] = l /\ l # NoLabel /\ Found
  \/ /\ v \in Symbol /\ symbolLabels[v] = NoLabel
     /\ Take(l, v) /\ symbolLabels' = [symbolLabels EXCEPT ![v] = l]

\* In the hands of a caller, or disposed of but for its label.
Carries(n) == n \in mallocd /\ n \notin Range(garbage_k)
\* The nodes the step acquires, if any, get label l.
Taken == {n \in Node : ~ Carries(n) /\ Carries(n)'}
Labels(l, v) ==
  /\ klabel' = [n \in Node |-> IF n \in Taken THEN l ELSE klabel[n]]
  /\ given'  = [n \in Node |-> IF n \in Taken THEN v ELSE given[n]]

\* k_new with a label made for it (a literal has no arguments), or with the one a
\* label variable is bound to.
New(v, l, s) == (v \in Literal => s = <<>>) /\ LabelFor(v, l) /\ K_new(s) /\ Labels(l, v)
MayShare(k) == Sharing \/ IsSymbol(klabel[k])
NewBound(k, s) == Live(k) /\ MayShare(k) /\ K_new(s) /\ Labels(klabel[k], content[klabel[k]]) /\ Found
\* The functions that may copy() the node k.
Copying(k) ==
  /\ MayShare(k)
  /\ \/ K_without_first_n_arg(k, 0)
     \/ \E i \in DOMAIN args[k], v \in Node : K_replace_arg(k, i, v)
     \/ UpdateTrimArgs(k, 1, Len(args[k]))
     \/ \E pos, count \in 0..MAX_GARBAGE_ARG_LEN, s \in ArgLists(MAX_GARBAGE_ARG_LEN) :
           K_insert_elems(k, pos, count, s)
  /\ Labels(klabel[k], content[klabel[k]]) /\ Found
\* k_set_label: the label k had is not recovered.
K_set_label(k, v, l) ==
  /\ Idle /\ Live(k) /\ LabelFor(v, l)
  /\ klabel' = [klabel EXCEPT ![k] = l] /\ given' = [given EXCEPT ![k] = v]
  /\ UNCHANGED vars

Dispose_label_bug(k) ==
  /\ garbage_label' = Append(garbage_label, klabel[k])
  /\ UNCHANGED <<labels, content, symbolLabels>>
Dispose_label(k) ==
  IF IsSymbol(klabel[k]) THEN Found
  ELSE /\ IF Len(garbage_label) < MAX_GARBAGE_KEPT
            THEN garbage_label' = Append(garbage_label, klabel[k]) /\ UNCHANGED labels
            ELSE labels' = labels \ {klabel[k]} /\ UNCHANGED garbage_label
       /\ UNCHANGED <<content, symbolLabels>>
\* dispose_k_aux
Dispose_aux ==
  /\ work # <<>> /\ Head(work).op = "dispose_k_aux" /\ AuxStep
  /\ Dispose_label(Head(work).k) /\ UNCHANGED <<klabel, given>>

-----------------------------------------------------------------------------
LbInit ==
  /\ Init
  /\ klabel = [n \in Node |-> NoLabel] /\ given = klabel
  /\ garbage_label = <<>> /\ labels = {}
  /\ content = [l \in Label |-> NoLabel]
  /\ symbolLabels = [s \in Symbol |-> NoLabel]

Unlabelled ==
  \/ \E k \in Node : K_make_permanent(k) \/ K_dispose(k)
  \/ \E k, v \in Node : K_add_front_arg(k, v) \/ \E i \in DOMAIN args[k] : K_set_arg(k, i, v)
  \/ \E r \in Root : Disown(r) \/ \E k \in Node : Own(r, k)
  \/ DecStep

LbNext ==
  \/ \E v \in Value, l \in Label, s \in ArgLists(MAX_GARBAGE_ARG_LEN) : New(v, l, s)
  \/ \E k \in Node, s \in ArgLists(MAX_GARBAGE_ARG_LEN) : NewBound(k, s)
  \/ \E k \in Node : Live(k) /\ Copying(k)
  \/ \E k \in Node, v \in Symbol, l \in Label : K_set_label(k, v, l)
  \/ Dispose_aux
  \/ Unlabelled /\ UNCHANGED labelVars
  \/ Stopped /\ UNCHANGED labelVars

LbSpec == LbInit /\ [][LbNext]_lbVars

-----------------------------------------------------------------------------
\* A node keeps the label it was made with, and that label is not on the free
\* list, as long as the node is live: no other node's end takes it away.
LabelsIntact ==
  \A k \in Node : Live(k) =>
    /\ klabel[k] \in labels /\ klabel[k] \notin Range(garbage_label)
    /\ content[klabel[k]] = given[k]
=============================================================================
