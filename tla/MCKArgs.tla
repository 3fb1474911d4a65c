------------------------------ MODULE MCKArgs ------------------------------
(* Arguments are interchangeable; nodes are not, Acquired picks one. *)
EXTENDS KArgs, TLC

Symmetry == Permutations(Elem)
=============================================================================
