---------------------------- MODULE LabelledHeap ----------------------------
(***************************************************************************)
(* The heap with the label of every node, for the programs that run on it. *)
(***************************************************************************)
EXTENDS KHeap

VARIABLE label   \* K.label

\* The nodes the step takes from the free list or from malloc and keeps.
Acquired == {n \in Node : Dead(n) /\ ~ Dead(n)'}
\* malloc's choice of an address matters to nobody: they are taken in order.
\* (One step takes two at the most.)
InOrder == \E d \in 0..2 : mallocd' = 1..(Cardinality(mallocd) + d)
\* What a call that may make a copy of k returns.
Returned(k) == IF Acquired = {} THEN k ELSE CHOOSE n \in Acquired : TRUE
Labelled_bug(l) == UNCHANGED label
Labelled(l) == label' = [n \in Node |-> IF n \in Acquired THEN l ELSE label[n]]
=============================================================================
