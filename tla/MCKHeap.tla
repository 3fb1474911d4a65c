------------------------------ MODULE MCKHeap ------------------------------
EXTENDS KHeap, TLC
Symmetry == Permutations(Node) \cup Permutations(Root)
=============================================================================
