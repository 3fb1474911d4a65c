------------------------------- MODULE KArgs -------------------------------
(***************************************************************************)
(* The arrays behind the arguments of nodes (src/runtime/k.c), one slot    *)
(* access at a time: windows that move inside an array of fixed size,      *)
(* slots outside of them that keep what was once there, shifts of          *)
(* overlapping stretches, and the copy that holds the old arguments while  *)
(* k_insert_elems_vararg runs.  KHeap takes each of these functions as one *)
(* change of a sequence; here that is what they have to add up to.         *)
(*                                                                         *)
(* One caller edits a node that another owner may hold too.  Arguments are *)
(* atoms with a count; one whose count reaches 0 is reclaimed.             *)
(***************************************************************************)
EXTENDS Integers, Sequences, FiniteSets, Functions

CONSTANTS Elem,                \* the nodes that may be arguments
          Array,               \* the nodes whose arguments are modelled
          NULL,
          MAX_GARBAGE_ARG_LEN, \* settings.h: slots of an array
          POS_FIRST,           \* first used slot of an acquired node (20)
          MaxElems,            \* an insert brings at most so many arguments
          MaxCalls             \* so many calls are made

ASSUME ArgsAssumption ==
  /\ NULL \notin Elem \cup Array /\ IsFiniteSet(Array)
  /\ \A x, y, z \in Array : Array \ {x, y, z} # {}
  /\ MAX_GARBAGE_ARG_LEN \in Nat /\ POS_FIRST \in 0..MAX_GARBAGE_ARG_LEN /\ MaxElems \in Nat /\ MaxCalls \in Nat

VARIABLES
  a,         \* K.args.a
  pos_first, \* K.args.pos_first
  pos_end,   \* K.args.pos_end
  refs,      \* K.refs of the arguments
  mine,      \* the node the caller holds
  theirs,    \* the node another owner holds, or NULL
  call,      \* the arguments of the running call
  pc,        \* where it is, "idle" if there is none
  k,         \* the node it edits, mine or a copy
  doomed,    \* the node it disposes of: fakeCopy, or what the caller gives up
  i,         \* the counter of its loop
  temp,      \* temp of _shift_args
  before,    \* what both owners saw when it began
  calls,     \* how many have been made
  panicked   \* "no", or why the program stopped

heapVars == <<a, pos_first, pos_end, refs>>
callVars == <<call, k, doomed, temp, before>>
argVars  == <<heapVars, mine, theirs, callVars, pc, i, calls, panicked>>

\* The definitions called ..._bug are the next definition with a plausible
\* mistake in it; no action uses them.

Slot == 0..(MAX_GARBAGE_ARG_LEN - 1)
Lists(n) == UNION {[1..m -> Elem] : m \in 0..n}

k_num_args(n) == pos_end[n] - pos_first[n]
Arg(n, x)     == a[n][pos_first[n] + x]
Window(n)     == [x \in 1..k_num_args(n) |-> Arg(n, x - 1)]
Shared        == theirs = mine
\* The node _k_acquire comes up with, its slots as they were left.
Acquired      == CHOOSE n \in Array : n \notin {mine, theirs, doomed}

\* The assertions of _k_set_arg and of k_get_arg.
Writable(n, x) == x >= 0 /\ x < k_num_args(n) /\ pos_first[n] + x < MAX_GARBAGE_ARG_LEN
Readable(n, x) == Writable(n, x) /\ Arg(n, x) # NULL /\ refs[Arg(n, x)] > 0

Count(s, v)    == Cardinality({x \in DOMAIN s : s[x] = v})
Bump(c, s)     == [v \in Elem |-> c[v] + Count(s, v)]
Inc_bug(v) == UNCHANGED refs
Inc(v) == refs' = [refs EXCEPT ![v] = @ + 1]
Dec(v) == refs' = [refs EXCEPT ![v] = @ - 1]

Panic(why) ==
  panicked' = why /\ UNCHANGED <<a, pos_first, pos_end, refs, mine, theirs, call, pc, k, doomed, i, temp, before>>

\* copy(n) into m, with room for extra more arguments: nothing looks at m before
\* it is complete.
Filled(n, m) ==
  [a EXCEPT ![m] = [p \in Slot |-> IF p \in POS_FIRST..(POS_FIRST + k_num_args(n) - 1)
                                     THEN Arg(n, p - POS_FIRST) ELSE @[p]]]
CopyTo_bug(n, m, extra) ==
  /\ a' = Filled(n, m)
  /\ pos_first' = [pos_first EXCEPT ![m] = POS_FIRST]
  /\ pos_end'   = [pos_end EXCEPT ![m] = POS_FIRST + k_num_args(n) + extra]
  /\ UNCHANGED refs
CopyTo(n, m, extra) ==
  /\ a' = Filled(n, m)
  /\ pos_first' = [pos_first EXCEPT ![m] = POS_FIRST]
  /\ pos_end'   = [pos_end EXCEPT ![m] = POS_FIRST + k_num_args(n) + extra]
  /\ refs' = Bump(refs, Window(n))
Fits(n) == POS_FIRST + n <= MAX_GARBAGE_ARG_LEN
\* copy(mine) fails the assertion of _k_set_arg at the end of the array: mine grew
\* in front until it had more arguments than fit behind slot POS_FIRST.
CopyFails == ~ Fits(k_num_args(mine)) /\ Panic("assert")

-----------------------------------------------------------------------------
(* Calls.                                                                  *)

Seen == [mine |-> Window(mine), theirs |-> IF theirs = NULL THEN <<>> ELSE Window(theirs),
         owned |-> theirs # NULL, shared |-> Shared]

\* A call that edits the node n.
Begin(c, n, at) ==
  call' = c /\ k' = n /\ pc' = at /\ before' = Seen /\ temp' = <<>> /\ UNCHANGED <<mine, theirs, panicked>>
Return == call' = <<>> /\ k' = NULL /\ doomed' = NULL /\ pc' = "idle" /\ before' = <<>> /\ temp' = <<>>
\* A caller that gets a copy gives up the node it had, if no one else owns it.
GiveUp == doomed' = mine /\ pc' = "dispose" /\ UNCHANGED <<call, k, before, temp>>
Idle == pc = "idle" /\ panicked = "no"
Running(at) == pc = at /\ panicked = "no"

Added == Len(call.elems) - call.over
LastGoodArg == call.pos + call.over

\* k_insert_elems_vararg begins with the copy that keeps the old arguments.
K_insert_elems(pos, over, elems) ==
  /\ Idle /\ pos + over <= k_num_args(mine)
  /\ \/ CopyFails
     \/ /\ Fits(k_num_args(mine)) /\ CopyTo(mine, Acquired, 0) /\ doomed' = Acquired
        /\ Begin([pos |-> pos, over |-> over, elems |-> elems], mine, "resize") /\ i' = pos

\* A copy if arguments go, and _k_extend if some come.
Resize ==
  /\ Running("resize")
  /\ IF Added < 0 \/ (Added > 0 /\ Shared)
       THEN IF Added > 0 /\ ~ Fits(k_num_args(k) + Added)
              THEN Panic("no room")
              ELSE /\ CopyTo(k, Acquired, IF Added > 0 THEN Added ELSE 0) /\ k' = Acquired
                   /\ pc' = "overwrite" /\ UNCHANGED <<mine, theirs, call, doomed, i, temp, before, panicked>>
       ELSE IF pos_end[k] + Added > MAX_GARBAGE_ARG_LEN
              THEN Panic("no room")
              ELSE /\ pos_end' = [pos_end EXCEPT ![k] = @ + Added] /\ pc' = "overwrite"
                   /\ UNCHANGED <<a, pos_first, refs, mine, theirs, callVars, i, panicked>>

\* The arguments that are to go.
Overwrite ==
  /\ Running("overwrite")
  /\ \/ i >= LastGoodArg /\ i' = 0 /\ pc' = "take" /\ UNCHANGED heapVars /\ UNCHANGED panicked
     \/ i < LastGoodArg /\ ~ Readable(k, i) /\ panicked' = "assert" /\ UNCHANGED <<heapVars, i, pc>>
     \/ /\ i < LastGoodArg /\ Readable(k, i)
        /\ Dec(Arg(k, i)) /\ a' = [a EXCEPT ![k][pos_first[k] + i] = NULL] /\ i' = i + 1
        /\ UNCHANGED <<pos_first, pos_end, pc, panicked>>
  /\ UNCHANGED <<mine, theirs, callVars>>

\* _shift_args: how many arguments it moves, and where the next one goes.
Behind_bug == Len(before.mine) - call.pos
Behind == Len(before.mine) - LastGoodArg
Dest_bug(n) == LastGoodArg + n - Added
Dest(n) == LastGoodArg + n + Added

Take ==
  /\ Running("take")
  /\ \/ i >= Behind /\ i' = 0 /\ pc' = "put" /\ UNCHANGED <<temp, panicked>>
     \/ i < Behind /\ ~ Readable(k, LastGoodArg + i) /\ panicked' = "assert" /\ UNCHANGED <<temp, i, pc>>
     \/ /\ i < Behind /\ Readable(k, LastGoodArg + i)
        /\ temp' = Append(temp, Arg(k, LastGoodArg + i)) /\ i' = i + 1 /\ UNCHANGED <<pc, panicked>>
  /\ UNCHANGED <<heapVars, mine, theirs, call, k, doomed, before>>

\* At the end of the shift, _k_extend by a negative number drops the rest.
PutBack ==
  /\ Running("put")
  /\ \/ /\ i >= Behind /\ i' = 0 /\ pc' = "fill" /\ UNCHANGED <<a, panicked>>
        /\ pos_end' = [pos_end EXCEPT ![k] = IF Added < 0 THEN @ + Added ELSE @]
     \/ i < Behind /\ ~ Writable(k, Dest(i)) /\ panicked' = "assert" /\ UNCHANGED <<a, pos_end, i, pc>>
     \/ /\ i < Behind /\ Writable(k, Dest(i))
        /\ a' = [a EXCEPT ![k][pos_first[k] + Dest(i)] = temp[i + 1]]
        /\ i' = i + 1 /\ UNCHANGED <<pos_end, pc, panicked>>
  /\ UNCHANGED <<pos_first, refs, mine, theirs, callVars>>

\* The new arguments, and then the copy that kept the old ones.
Fill ==
  /\ Running("fill")
  /\ \/ i >= Len(call.elems) /\ i' = 0 /\ pc' = "dispose" /\ UNCHANGED <<a, refs, panicked>>
     \/ /\ i < Len(call.elems) /\ ~ Writable(k, call.pos + i)
        /\ panicked' = "assert" /\ UNCHANGED <<a, refs, i, pc>>
     \/ /\ i < Len(call.elems) /\ Writable(k, call.pos + i)
        /\ a' = [a EXCEPT ![k][pos_first[k] + call.pos + i] = call.elems[i + 1]]
        /\ Inc(call.elems[i + 1]) /\ i' = i + 1 /\ UNCHANGED <<pc, panicked>>
  /\ UNCHANGED <<pos_first, pos_end, mine, theirs, callVars>>

\* dispose_k of doomed.
Dispose ==
  /\ Running("dispose")
  /\ \/ /\ i < k_num_args(doomed) /\ Readable(doomed, i)
        /\ a' = [a EXCEPT ![doomed][pos_first[doomed] + i] = NULL] /\ Dec(Arg(doomed, i)) /\ i' = i + 1
        /\ UNCHANGED <<pos_first, pos_end, mine, theirs, callVars, pc, panicked>>
     \/ i < k_num_args(doomed) /\ ~ Readable(doomed, i) /\ Panic("assert")
     \/ /\ i >= k_num_args(doomed) /\ i' = 0 /\ mine' = k
        /\ IF k # mine /\ ~ Shared THEN GiveUp ELSE Return
        /\ UNCHANGED <<heapVars, theirs, panicked>>

-----------------------------------------------------------------------------
(* The other functions.                                                    *)

\* updateTrimArgs (in a copy if the node is shared) and k_without_first_n_arg
\* (always in a copy): keep left..right-1.
Trim(left, right, always) ==
  /\ Idle /\ left <= right /\ right <= k_num_args(mine)
  /\ LET c == [left |-> left, right |-> right]
         first == IF left = 0 THEN right ELSE 0
     IN \/ (Shared \/ always) /\ CopyFails
        \/ /\ (Shared \/ always) /\ Fits(k_num_args(mine))
           /\ CopyTo(mine, Acquired, 0) /\ Begin(c, Acquired, "trim")
           /\ i' = first /\ UNCHANGED doomed
        \/ /\ ~ Shared /\ ~ always
           /\ Begin(c, mine, "trim") /\ i' = first /\ UNCHANGED <<heapVars, doomed>>

TrimStep ==
  /\ Running("trim")
  /\ \/ i < k_num_args(k) /\ ~ Readable(k, i) /\ Panic("assert")
     \/ /\ i < k_num_args(k) /\ Readable(k, i)
        /\ Dec(Arg(k, i)) /\ a' = [a EXCEPT ![k][pos_first[k] + i] = NULL]
        /\ i' = IF i + 1 = call.left THEN call.right ELSE i + 1
        /\ UNCHANGED <<pos_first, pos_end, mine, theirs, callVars, pc, panicked>>
     \/ /\ i >= k_num_args(k) /\ i' = 0 /\ mine' = k
        /\ pos_first' = [pos_first EXCEPT ![k] = @ + call.left]
        /\ pos_end'   = [pos_end EXCEPT ![k] = pos_first[k] + call.right]
        /\ IF k # mine /\ ~ Shared THEN GiveUp ELSE Return
        /\ UNCHANGED <<a, refs, theirs, panicked>>

\* k_set_arg, and k_replace_arg, which makes a copy of a shared node.
K_replace_arg(x, v) ==
  /\ Idle /\ x < k_num_args(mine)
  /\ \/ Shared /\ CopyFails
     \/ /\ Shared /\ Fits(k_num_args(mine))
        /\ mine' = Acquired
        /\ a' = [Filled(mine, mine') EXCEPT ![mine'][POS_FIRST + x] = v]
        /\ pos_first' = [pos_first EXCEPT ![mine'] = POS_FIRST]
        /\ pos_end'   = [pos_end EXCEPT ![mine'] = POS_FIRST + k_num_args(mine)]
        /\ refs' = [Bump(Bump(refs, Window(mine)), <<v>>) EXCEPT ![Arg(mine, x)] = @ - 1]
        /\ UNCHANGED <<theirs, callVars, pc, i, panicked>>
     \/ /\ ~ Shared
        /\ a' = [a EXCEPT ![mine][pos_first[mine] + x] = v]
        /\ refs' = [Bump(refs, <<v>>) EXCEPT ![Arg(mine, x)] = @ - 1]
        /\ UNCHANGED <<pos_first, pos_end, mine, theirs, callVars, pc, i, panicked>>

K_add_front_arg(v) ==
  /\ Idle /\ ~ Shared
  /\ \/ pos_first[mine] = 0 /\ Panic("no room")
     \/ /\ pos_first[mine] > 0
        /\ pos_first' = [pos_first EXCEPT ![mine] = @ - 1]
        /\ a' = [a EXCEPT ![mine][pos_first[mine] - 1] = v] /\ Inc(v)
        /\ UNCHANGED <<pos_end, mine, theirs, callVars, pc, i, panicked>>

\* Another owner takes hold of the node, and lets go of what it has.
Share ==
  /\ Idle /\ theirs = NULL /\ theirs' = mine
  /\ UNCHANGED <<heapVars, mine, callVars, pc, i, panicked>>
Unshare ==
  /\ Idle /\ theirs # NULL /\ theirs' = NULL
  /\ IF Shared THEN UNCHANGED <<callVars, pc, i>>
               ELSE /\ doomed' = theirs /\ pc' = "dispose" /\ i' = 0 /\ k' = mine
                    /\ before' = [Seen EXCEPT !.theirs = <<>>, !.owned = FALSE] /\ UNCHANGED <<call, temp>>
  /\ UNCHANGED <<heapVars, mine, panicked>>

-----------------------------------------------------------------------------
\* Any node, as k_new has made it.
ArgsInit ==
  /\ mine \in Array
  /\ \E s \in Lists(MAX_GARBAGE_ARG_LEN - POS_FIRST) :
       /\ a = [n \in Array |-> [p \in Slot |-> IF n = mine /\ p - POS_FIRST + 1 \in DOMAIN s
                                                 THEN s[p - POS_FIRST + 1] ELSE NULL]]
       /\ pos_end = [n \in Array |-> IF n = mine THEN POS_FIRST + Len(s) ELSE POS_FIRST]
       /\ refs = Bump([v \in Elem |-> 0], s)
  /\ pos_first = [n \in Array |-> POS_FIRST]
  /\ theirs = NULL /\ call = <<>> /\ pc = "idle" /\ k = NULL /\ doomed = NULL
  /\ i = 0 /\ calls = 0 /\ temp = <<>> /\ before = <<>> /\ panicked = "no"

Stopped == (panicked # "no" \/ (pc = "idle" /\ calls = MaxCalls)) /\ UNCHANGED argVars

Begins ==
  \/ \E pos, over \in 0..MAX_GARBAGE_ARG_LEN, s \in Lists(MaxElems) : K_insert_elems(pos, over, s)
  \/ \E left, right \in 0..MAX_GARBAGE_ARG_LEN, always \in BOOLEAN : Trim(left, right, always)
  \/ \E x \in Slot, v \in Elem : K_replace_arg(x, v)
  \/ \E v \in Elem : K_add_front_arg(v)
  \/ Share \/ Unshare
GoesOn == Resize \/ Overwrite \/ Take \/ PutBack \/ Fill \/ Dispose \/ TrimStep

ArgsNext ==
  \/ calls < MaxCalls /\ Begins /\ calls' = calls + 1
  \/ GoesOn /\ UNCHANGED calls
  \/ Stopped

ArgsSpec == ArgsInit /\ [][ArgsNext]_argVars

-----------------------------------------------------------------------------
(* Properties.                                                             *)

\* An assertion of k_get_arg or _k_set_arg fails only where a call begins by
\* copying a node that grew in front and has more arguments than fit from slot
\* POS_FIRST.  Once a call is under way, whatever the slots outside of a window
\* hold and however it has moved, every access stays inside of it and finds a
\* node with a reference.
AccessesHold ==
  panicked = "assert" =>
    pc = "idle" /\ pos_first[mine] < POS_FIRST /\ ~ Fits(k_num_args(mine))

\* No Dec of k_insert_elems_vararg is the last one, even of an argument that is
\* overwritten by itself: the first copy holds them all until the end.
OverwrittenStayLive ==
  pc \in {"overwrite", "take", "put", "fill"} => \A v \in Range(before.mine) : refs[v] > 0

\* Between calls each argument is counted once for every slot that names it.
SlotsCounted ==
  pc = "idle" /\ panicked = "no" => \A v \in Elem :
    refs[v] = Cardinality({e \in {mine, theirs} \X Slot :
                 e[1] # NULL /\ e[2] >= pos_first[e[1]] /\ e[2] < pos_end[e[1]] /\ a[e[1]][e[2]] = v})

Now == IF pc = "idle" THEN Seen ELSE before
Promised == INSTANCE ArgSequence WITH
  MaxArgs <- MAX_GARBAGE_ARG_LEN, mine <- Now.mine, theirs <- Now.theirs,
  owned <- Now.owned, shared <- Now.shared, stopped <- (panicked # "no")

\* Slot by slot, the calls add up to what ArgSequence promises: nothing is
\* lost, repeated or out of order, and the other owner sees no change but
\* overwriting in place.
KeepsPromise == Promised!SeqSpec
=============================================================================
