------------------------------ MODULE MCKLabels -----------------------------
EXTENDS KLabels, TLC
LabelSymmetry == Permutations(Node) \cup Permutations(Label) \cup Permutations(Literal)
=============================================================================
