---------------------------- MODULE ArgSequence ----------------------------
(***************************************************************************)
(* What the functions of src/runtime/k.c that edit the arguments of a node *)
(* promise their callers: the arguments are a sequence, edited in one      *)
(* step.  Another owner of the node keeps the sequence it has, except that *)
(* overwriting as many arguments as are written shows through to it.       *)
(***************************************************************************)
EXTENDS Integers, Sequences

CONSTANTS Elem,    \* the nodes that may be arguments
          MaxArgs, \* how many arguments a node may ever have
          MaxElems \* how many an insert may bring

VARIABLES mine,    \* the arguments of the node the caller holds
          theirs,  \* those of the node the other owner holds
          owned,   \* whether there is another owner
          shared,  \* whether it owns the same node
          stopped  \* whether the program has stopped

seqVars == <<mine, theirs, owned, shared, stopped>>

SeqInit == mine \in UNION {[1..n -> Elem] : n \in 0..MaxArgs} /\ theirs = <<>> /\ ~ owned /\ ~ shared /\ ~ stopped

\* The caller's node gets the arguments new, as seen by the other owner if the
\* change is made in place.
Becomes(new, inPlace) ==
  /\ mine' = new /\ Len(new) <= MaxArgs
  /\ theirs' = IF shared /\ inPlace THEN new ELSE theirs
  /\ shared' = (shared /\ inPlace)
  /\ UNCHANGED <<owned, stopped>>

\* k_insert_elems: s instead of over arguments behind the first pos.
Splice(pos, over, s) ==
  /\ pos + over <= Len(mine)
  /\ Becomes(SubSeq(mine, 1, pos) \o s \o SubSeq(mine, pos + over + 1, Len(mine)), Len(s) = over)
\* updateTrimArgs and k_without_first_n_arg.
Keep(left, right) == Becomes(SubSeq(mine, left + 1, right), FALSE)
\* k_set_arg and k_replace_arg.
Put(n, v) == n \in DOMAIN mine /\ Becomes([mine EXCEPT ![n] = v], FALSE)
\* k_add_front_arg.
AddFront(v) == ~ shared /\ Becomes(<<v>> \o mine, FALSE)

Share == ~ owned /\ theirs' = mine /\ owned' /\ shared' /\ UNCHANGED <<mine, stopped>>
Unshare == owned /\ theirs' = <<>> /\ ~ owned' /\ ~ shared' /\ UNCHANGED <<mine, stopped>>
Panic == stopped' /\ UNCHANGED <<mine, theirs, owned, shared>>

SeqNext ==
  \/ \E pos, over \in 0..MaxArgs, n \in 0..MaxElems : \E s \in [1..n -> Elem] : Splice(pos, over, s)
  \/ \E left, right \in 0..Len(mine) : left <= right /\ Keep(left, right)
  \/ \E n \in 1..MaxArgs, v \in Elem : Put(n, v)
  \/ \E v \in Elem : AddFront(v)
  \/ Share \/ Unshare \/ Panic

SeqSpec == SeqInit /\ [][~ stopped /\ SeqNext]_seqVars
=============================================================================
