---------------------------- MODULE MCCheckOrder ----------------------------
(***************************************************************************)
(* The checks of a rule: locations in a cell, with two objects for one     *)
(* position and positions behind a list.                                   *)
(***************************************************************************)
EXTENDS CheckOrder

Parts == {[kind |-> "cell", at |-> 0, id |-> 0],
          [kind |-> "known", at |-> 0, id |-> 1], [kind |-> "known", at |-> 0, id |-> 2],
          [kind |-> "length", at |-> 1, id |-> 3]}
=============================================================================
