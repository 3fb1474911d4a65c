------------------------------- MODULE KHeap -------------------------------
(***************************************************************************)
(* The reference-counted heap of K nodes of the runtime                    *)
(* (src/runtime/k.c): allocation through the garbage_k free list, Inc and  *)
(* Dec with the recursive dispose_k, and every function that builds or     *)
(* edits the arguments of a node.  Builds are taken with assertions on: a  *)
(* failing assert and a panic() both stop the program.                     *)
(*                                                                         *)
(* A C call is one action, up to the first Dec that may free a node.  What *)
(* that Dec and the calls it makes still have to do is the sequence work,  *)
(* the explicit form of the C call stack; each entry is a step of its own. *)
(* Labels carry no reference and are left to their own model.              *)
(***************************************************************************)
EXTENDS Integers, Sequences, FiniteSets, Functions

CONSTANTS Node,                 \* addresses malloc may return for a K
          NoNode,               \* NULL
          Root,                 \* C variables that own a counted reference: a
                                \* cell's holder, oldK of a rule, a map entry
          MAX_OUTSTANDING_K,    \* settings.h
          MAX_GARBAGE_KEPT,     \* settings.h
          MAX_GARBAGE_ARG_LEN,  \* settings.h: slots in every args array
          POS_FIRST             \* first used slot of an acquired node (20)

ASSUME HeapAssumption ==
  /\ IsFiniteSet(Node) /\ IsFiniteSet(Root)
  /\ NoNode \notin Node
  /\ MAX_OUTSTANDING_K \in Nat /\ MAX_OUTSTANDING_K <= Cardinality(Node)
  /\ MAX_GARBAGE_KEPT \in Nat
  /\ MAX_GARBAGE_ARG_LEN \in Nat
  /\ POS_FIRST \in 0..MAX_GARBAGE_ARG_LEN

VARIABLES
  refs,       \* K.refs
  args,       \* the arguments of a K: K.args.a[pos_first .. pos_end-1]
  pos_first,  \* K.args.pos_first; pos_end is pos_first + Len(args)
  permanent,  \* K.permanent
  garbage_k,  \* garbage_k[0 .. garbage_k_next-1]
  mallocd,    \* addresses handed out by mallocK; count_malloc_k is its size
  root,       \* what each owning C variable points to
  work,       \* what the running Dec or k_dispose still has to do
  panicked    \* "no", or why the program stopped

vars == <<refs, args, pos_first, permanent, garbage_k, mallocd, root, work, panicked>>

DecOf(k) == [op |-> "Dec", k |-> k]          \* a call Dec(k)
AuxOf(k) == [op |-> "dispose_k_aux", k |-> k] \* dispose_k's last call
Pending  == [op : {"Dec", "dispose_k_aux"}, k : Node]
Reasons  == {"no", "args length", "outstanding", "assert", "no room", "free_args"}

Occ(s, x)  == Cardinality({i \in DOMAIN s : s[i] = x})
DecEach(s) == [i \in DOMAIN s |-> DecOf(s[i])]

\* The definitions called ..._bug are the next definition with a plausible
\* mistake in it; no action uses them.  A property that does not notice the
\* mistake would say little.

Bump_bug(x, s) == [n \in Node |-> x[n] + IF n \in Range(s) THEN 1 ELSE 0]
Drop_bug(x, s) == x
Bump(x, s) == [n \in Node |-> x[n] + Occ(s, n)]    \* Inc of every element of s
Drop(x, s) == [n \in Node |-> x[n] - Occ(s, n)]    \* Dec of every element of s

ArgLists(n) == UNION {[1..m -> Node] : m \in 0..n}

count_malloc_k == Cardinality(mallocd)

\* k has been reclaimed (or never allocated): no C code may look at it.
Dead(k) == k \notin mallocd \/ k \in Range(garbage_k) \/ AuxOf(k) \in Range(work)
Live(k) == ~ Dead(k)
\* Live and owned by nobody but a C local: what k_new and copy return.
Fresh(k) == Live(k) /\ refs[k] = 0 /\ ~ permanent[k]

\* _copy_if_necessary copies k.
Shared_bug(k) == refs[k] > 2
Shared(k) == refs[k] > 1
\* Dec leaves k without a reference, and dispose_k does not spare it.
Dies_bug(k) == refs[k] <= 2 /\ ~ permanent[k]
Dies(k) == refs[k] = 1 /\ ~ permanent[k]
\* The rest of dispose_k once the slots of k are emptied: Dec what they held,
\* then reclaim k.
Release_bug(k) == <<AuxOf(k)>>
Release(k) == Append(DecEach(args[k]), AuxOf(k))

\* Nodes reachable from the set S through argument slots.
Reach(S) ==
  LET R[i \in 0..Cardinality(Node)] ==
        IF i = 0 THEN S ELSE LET Q == R[i-1] IN Q \cup UNION {Range(args[k]) : k \in Q}
  IN R[Cardinality(Node)]
\* A C caller can still get at k: from an owning variable, or from a node a
\* local or a runtime constant points to uncounted.
Held(k) == k \in Reach({x \in Node : \/ \E r \in Root : root[r] = x
                                     \/ Live(x) /\ (refs[x] = 0 \/ permanent[x])})

Idle  == work = <<>> /\ panicked = "no"
Stop(why) == /\ panicked' = why
             /\ UNCHANGED <<refs, args, pos_first, permanent, garbage_k, mallocd, root, work>>

-----------------------------------------------------------------------------
(* Allocation: _k_acquire and mallocK.  The free list is a stack.          *)

CanAcquire(g, m, n) ==
  IF g # <<>> THEN n = g[Len(g)]
              ELSE n \in Node \ m /\ Cardinality(m) < MAX_OUTSTANDING_K
Popped_bug(g) == g
Popped(g) == IF g = <<>> THEN g ELSE SubSeq(g, 1, Len(g) - 1)

\* mallocK refuses the c-th of c acquisitions.
Exhausted(c) == Len(garbage_k) + MAX_OUTSTANDING_K - count_malloc_k < c
\* An acquired node of len arguments keeps its window inside the array.
Fits_bug(len) == POS_FIRST + len <= MAX_GARBAGE_ARG_LEN + 1
Fits(len) == POS_FIRST + len <= MAX_GARBAGE_ARG_LEN

\* k_new, k_new_empty, k_new_from_array, k_new_from_k_args and copy: a node
\* with the arguments s, each Inc'd, and no reference to itself.
K_new(s) ==
  /\ Idle
  /\ \A x \in Range(s) : Live(x)
  /\ \/ Len(s) > MAX_GARBAGE_ARG_LEN /\ Stop("args length")
     \/ Len(s) <= MAX_GARBAGE_ARG_LEN /\ Exhausted(1) /\ Stop("outstanding")
     \/ Len(s) <= MAX_GARBAGE_ARG_LEN /\ ~ Exhausted(1) /\ ~ Fits(Len(s)) /\ Stop("assert")
     \/ /\ Fits(Len(s))
        /\ \E n \in Node :
             /\ CanAcquire(garbage_k, mallocd, n)
             /\ garbage_k' = Popped(garbage_k)
             /\ mallocd'   = mallocd \cup {n}
             /\ refs'      = [Bump(refs, s) EXCEPT ![n] = 0]
             /\ args'      = [args EXCEPT ![n] = s]
             /\ pos_first' = [pos_first EXCEPT ![n] = POS_FIRST]
             /\ permanent' = [permanent EXCEPT ![n] = FALSE]
             /\ UNCHANGED <<root, work, panicked>>

\* k_make_permanent, called on the shared constants when the runtime starts.
K_make_permanent(k) ==
  /\ Idle /\ Fresh(k)
  /\ permanent' = [permanent EXCEPT ![k] = TRUE]
  /\ UNCHANGED <<refs, args, pos_first, garbage_k, mallocd, root, work, panicked>>

-----------------------------------------------------------------------------
(* Owning C variables.                                                     *)

\* Inc when a cell, a map entry or oldK starts to own k; Inc of the new and
\* Dec of the old value when it is overwritten.
Own(r, k) ==
  /\ Idle /\ Live(k)
  /\ root' = [root EXCEPT ![r] = k]
  /\ refs' = [refs EXCEPT ![k] = @ + 1]
  /\ work' = IF root[r] = NoNode THEN <<>> ELSE <<DecOf(root[r])>>
  /\ UNCHANGED <<args, pos_first, permanent, garbage_k, mallocd, panicked>>

\* Dec(oldK) at the end of a rule, state_cleanup of a map entry.
Disown(r) ==
  /\ Idle /\ root[r] # NoNode
  /\ root' = [root EXCEPT ![r] = NoNode]
  /\ work' = <<DecOf(root[r])>>
  /\ UNCHANGED <<refs, args, pos_first, permanent, garbage_k, mallocd, panicked>>

\* k_dispose of the list copies at the end of a rule.
K_dispose(k) ==
  /\ Idle /\ Fresh(k)
  /\ args' = [args EXCEPT ![k] = <<>>]
  /\ work' = Release(k)
  /\ UNCHANGED <<refs, pos_first, permanent, garbage_k, mallocd, root, panicked>>

-----------------------------------------------------------------------------
(* Dec and dispose_k, one pending call at a time.                          *)

\* Dec: at zero references dispose_k gives up the arguments of k and then k.
\* (The slots are emptied one by one, each before its Dec; nothing refers to k
\* by then, so no step in between can see the rest of them.)
DecStep_bug ==
  /\ panicked = "no" /\ work # <<>> /\ Head(work).op = "Dec"
  /\ LET k == Head(work).k IN
       /\ refs' = [refs EXCEPT ![k] = @ - 1]
       /\ work' = (IF Dies(k) THEN Release(k) ELSE <<>>) \o Tail(work)
  /\ UNCHANGED <<args, pos_first, permanent, garbage_k, mallocd, root, panicked>>
DecStep ==
  /\ panicked = "no" /\ work # <<>> /\ Head(work).op = "Dec"
  /\ LET k == Head(work).k IN
       /\ refs' = [refs EXCEPT ![k] = @ - 1]
       /\ IF Dies(k)
            THEN /\ work' = Release(k) \o Tail(work)
                 /\ args' = [args EXCEPT ![k] = <<>>]
            ELSE work' = Tail(work) /\ UNCHANGED args
  /\ UNCHANGED <<pos_first, permanent, garbage_k, mallocd, root, panicked>>

\* dispose_k_itself: keep the node on the free list.  With the list full it
\* calls free_args, whose assertion on count_malloc_listk (a counter nothing
\* increments) cannot hold.
Room_bug == Len(garbage_k) + 1 < MAX_GARBAGE_KEPT
Room == Len(garbage_k) < MAX_GARBAGE_KEPT
AuxStep ==
  /\ panicked = "no" /\ work # <<>> /\ Head(work).op = "dispose_k_aux"
  /\ IF Room
       THEN /\ garbage_k' = Append(garbage_k, Head(work).k)
            /\ work' = Tail(work)
            /\ UNCHANGED <<refs, args, pos_first, permanent, mallocd, root, panicked>>
       ELSE Stop("free_args")

-----------------------------------------------------------------------------
(* Editing the arguments of a node.                                        *)

\* The common part of the functions that copy() k first: the copy n takes the
\* arguments s, its window starting at slot p.
IntoCopy(n, s, p) ==
  /\ args'      = [args EXCEPT ![n] = s]
  /\ pos_first' = [pos_first EXCEPT ![n] = p]
  /\ permanent' = [permanent EXCEPT ![n] = FALSE]

\* The first of the c copies made of k's arguments fails, or memory for one of
\* them is refused.
CopyStops(k, c) ==
  \/ Fits(Len(args[k])) /\ Exhausted(c) /\ Stop("outstanding")
  \/ ~ Fits(Len(args[k])) /\ Exhausted(1) /\ Stop("outstanding")
  \/ ~ Fits(Len(args[k])) /\ ~ Exhausted(1) /\ Stop("assert")

\* k_without_first_n_arg: a copy of k without its first left arguments.  The
\* originals still hold those, so the Decs of the copy free nothing.
K_without_first_n_arg(k, left) ==
  /\ Idle /\ Live(k) /\ left <= Len(args[k])
  /\ \/ CopyStops(k, 1)
     \/ /\ Fits(Len(args[k]))
        /\ \E n \in Node :
             LET kept == SubSeq(args[k], left + 1, Len(args[k])) IN
             /\ CanAcquire(garbage_k, mallocd, n)
             /\ garbage_k' = Popped(garbage_k)
             /\ mallocd'   = mallocd \cup {n}
             /\ refs'      = [Bump(refs, kept) EXCEPT ![n] = 0]
             /\ IntoCopy(n, kept, POS_FIRST + left)
             /\ UNCHANGED <<root, work, panicked>>

\* updateTrimArgs: keep arguments left+1..right, in a copy when k is shared.
\* With left = 1 and right = Len it is k_remove_arg_head.  The Decs of an
\* in-place trim come before their slots are cleared; they cannot come back to
\* k, because the caller still holds it by another way than its own arguments.
UpdateTrimArgs(k, left, right) ==
  LET old  == args[k]
      kept == SubSeq(old, left + 1, right)
      cut  == SubSeq(old, 1, left) \o SubSeq(old, right + 1, Len(old))
  IN /\ Idle /\ Live(k) /\ left <= right /\ right <= Len(old)
     /\ \/ Shared(k) /\ CopyStops(k, 1)
        \/ /\ Shared(k) /\ Fits(Len(old))
           /\ \E n \in Node :
                /\ CanAcquire(garbage_k, mallocd, n)
                /\ garbage_k' = Popped(garbage_k)
                /\ mallocd'   = mallocd \cup {n}
                /\ refs'      = [Bump(refs, kept) EXCEPT ![n] = 0]
                /\ IntoCopy(n, kept, POS_FIRST + left)
                /\ UNCHANGED <<root, work, panicked>>
        \/ /\ ~ Shared(k) /\ Held(k)
           /\ args'      = [args EXCEPT ![k] = kept]
           /\ pos_first' = [pos_first EXCEPT ![k] = @ + left]
           /\ work'      = DecEach(cut)
           /\ UNCHANGED <<refs, permanent, garbage_k, mallocd, root, panicked>>

\* k_set_arg, which insists on an unshared node.
K_set_arg(k, i, v) ==
  /\ Idle /\ Live(k) /\ Live(v) /\ refs[k] = 1 /\ i \in DOMAIN args[k]
  /\ args' = [args EXCEPT ![k] = [@ EXCEPT ![i] = v]]
  /\ refs' = [refs EXCEPT ![v] = @ + 1]
  /\ work' = <<DecOf(args[k][i])>>
  /\ UNCHANGED <<pos_first, permanent, garbage_k, mallocd, root, panicked>>

\* k_replace_arg: as k_set_arg, in a copy when k is shared.
K_replace_arg(k, i, v) ==
  /\ Idle /\ Live(k) /\ Live(v) /\ i \in DOMAIN args[k]
  /\ LET new == [args[k] EXCEPT ![i] = v] IN
     \/ Shared(k) /\ CopyStops(k, 1)
     \/ /\ Shared(k) /\ Fits(Len(args[k]))
        /\ \E n \in Node :
             /\ CanAcquire(garbage_k, mallocd, n)
             /\ garbage_k' = Popped(garbage_k)
             /\ mallocd'   = mallocd \cup {n}
             /\ refs'      = [Bump(Bump(refs, args[k]), <<v>>) EXCEPT ![n] = 0]
             /\ IntoCopy(n, new, POS_FIRST)
        /\ work' = <<DecOf(args[k][i])>>
        /\ UNCHANGED <<root, panicked>>
     \/ /\ ~ Shared(k)
        /\ args' = [args EXCEPT ![k] = new]
        /\ refs' = [refs EXCEPT ![v] = @ + 1]
        /\ work' = <<DecOf(args[k][i])>>
        /\ UNCHANGED <<pos_first, permanent, garbage_k, mallocd, root, panicked>>

\* k_add_front_arg: grow the window of an unshared node by one slot to the left.
K_add_front_arg(k, v) ==
  /\ Idle /\ Live(k) /\ Live(v) /\ refs[k] = 1
  /\ \/ pos_first[k] = 0 /\ Stop("no room")
     \/ /\ pos_first[k] > 0
        /\ pos_first' = [pos_first EXCEPT ![k] = @ - 1]
        /\ args'      = [args EXCEPT ![k] = <<v>> \o @]
        /\ refs'      = [refs EXCEPT ![v] = @ + 1]
        /\ UNCHANGED <<permanent, garbage_k, mallocd, root, work, panicked>>

\* k_insert_elems_vararg: overwrite count arguments of k after position pos by
\* s.  A first copy f (fakeCopy) holds the old arguments until the end, when it
\* is disposed of; k itself is copied when it shrinks, or grows while shared,
\* and edited in place otherwise.
K_insert_elems(k, pos, count, s) ==
  LET old   == args[k]
      over  == SubSeq(old, pos + 1, pos + count)
      new   == SubSeq(old, 1, pos) \o s \o SubSeq(old, pos + count + 1, Len(old))
      added == Len(s) - count
      copies == added < 0 \/ (added > 0 /\ Shared(k))
  IN /\ Idle /\ Live(k) /\ pos + count <= Len(old)
     /\ \A x \in Range(s) : Live(x)
     /\ \/ CopyStops(k, IF copies THEN 2 ELSE 1)
        \/ /\ Fits(Len(old)) /\ ~ copies /\ ~ Exhausted(1)
           /\ pos_first[k] + Len(new) > MAX_GARBAGE_ARG_LEN /\ Stop("no room")
        \/ /\ Fits(Len(old)) /\ copies /\ ~ Exhausted(2)
           /\ ~ Fits(Len(new)) /\ Stop("no room")
        \/ /\ Fits(Len(old)) /\ ~ copies
           /\ pos_first[k] + Len(new) <= MAX_GARBAGE_ARG_LEN
           /\ \E f \in Node :
                /\ CanAcquire(garbage_k, mallocd, f)
                /\ garbage_k' = Popped(garbage_k)
                /\ mallocd'   = mallocd \cup {f}
                /\ refs'      = [Bump(Drop(Bump(refs, old), over), s) EXCEPT ![f] = 0]
                /\ args'      = [args EXCEPT ![k] = new]
                /\ pos_first' = [pos_first EXCEPT ![f] = POS_FIRST]
                /\ permanent' = [permanent EXCEPT ![f] = FALSE]
                /\ work'      = Append(DecEach(old), AuxOf(f))
                /\ UNCHANGED <<root, panicked>>
        \/ /\ Fits(Len(old)) /\ copies /\ Fits(Len(new))
           /\ \E f, n \in Node :
                /\ CanAcquire(garbage_k, mallocd, f)
                /\ CanAcquire(Popped(garbage_k), mallocd \cup {f}, n)
                /\ garbage_k' = Popped(Popped(garbage_k))
                /\ mallocd'   = mallocd \cup {f, n}
                /\ refs'      = [Bump(Drop(Bump(Bump(refs, old), old), over), s)
                                EXCEPT ![f] = 0, ![n] = 0]
                /\ args'      = [args EXCEPT ![n] = new]
                /\ pos_first' = [pos_first EXCEPT ![f] = POS_FIRST, ![n] = POS_FIRST]
                /\ permanent' = [permanent EXCEPT ![f] = FALSE, ![n] = FALSE]
                /\ work'      = Append(DecEach(old), AuxOf(f))
                /\ UNCHANGED <<root, panicked>>

-----------------------------------------------------------------------------
Init ==
  /\ refs = [k \in Node |-> 0]
  /\ args = [k \in Node |-> <<>>]
  /\ pos_first = [k \in Node |-> POS_FIRST]
  /\ permanent = [k \in Node |-> FALSE]
  /\ garbage_k = <<>>
  /\ mallocd = {}
  /\ root = [r \in Root |-> NoNode]
  /\ work = <<>>
  /\ panicked = "no"

\* The program has stopped.
Stopped == panicked # "no" /\ UNCHANGED vars

Edit(k) ==
  \/ \E left \in 0..MAX_GARBAGE_ARG_LEN : K_without_first_n_arg(k, left)
  \/ \E left, right \in 0..MAX_GARBAGE_ARG_LEN : UpdateTrimArgs(k, left, right)
  \/ \E i \in 1..MAX_GARBAGE_ARG_LEN, v \in Node : K_set_arg(k, i, v)
  \/ \E i \in 1..MAX_GARBAGE_ARG_LEN, v \in Node : K_replace_arg(k, i, v)
  \/ \E v \in Node : K_add_front_arg(k, v)
  \/ \E pos, count \in 0..MAX_GARBAGE_ARG_LEN, s \in ArgLists(MAX_GARBAGE_ARG_LEN) :
        K_insert_elems(k, pos, count, s)

Cascade == DecStep \/ AuxStep

Next ==
  \/ \E s \in ArgLists(MAX_GARBAGE_ARG_LEN + 1) : K_new(s)
  \/ \E k \in Node : K_make_permanent(k) \/ K_dispose(k) \/ Edit(k)
  \/ \E r \in Root, k \in Node : Own(r, k)
  \/ \E r \in Root : Disown(r)
  \/ Cascade
  \/ Stopped

Spec == Init /\ [][Next]_vars

-----------------------------------------------------------------------------
(* Properties.                                                             *)

TypeOK ==
  /\ refs \in [Node -> Nat]
  /\ args \in [Node -> Seq(Node)]
  /\ pos_first \in [Node -> 0..MAX_GARBAGE_ARG_LEN]
  /\ permanent \in [Node -> BOOLEAN]
  /\ garbage_k \in Seq(Node)
  /\ mallocd \in SUBSET Node
  /\ root \in [Root -> Node \cup {NoNode}]
  /\ work \in Seq(Pending)
  /\ panicked \in Reasons

SlotsOf(a, k)  == {e \in Node \X (1..MAX_GARBAGE_ARG_LEN) :
                     e[2] \in DOMAIN a[e[1]] /\ a[e[1]][e[2]] = k}
OwnersOf(o, k) == {r \in Root : o[r] = k}
\* What refs[k] ought to be.
Holders(k) == Cardinality(SlotsOf(args, k)) + Cardinality(OwnersOf(root, k))
                + Occ(work, DecOf(k))

\* K.refs is the number of argument slots and owning C variables that point to
\* the node, plus the Decs a running cascade still owes it: no call of k.c
\* forgets an Inc or a Dec on any of its paths.
RefCountsExact == \A k \in Node : refs[k] = Holders(k)

\* A reclaimed node is referenced by nothing, holds nothing and is on the free
\* list (or about to be put there) once: the next _k_acquire hands it to one
\* owner only.
ReclaimedOnce ==
  \A k \in Node : Dead(k) =>
    /\ refs[k] = 0 /\ args[k] = <<>>
    /\ Occ(garbage_k, k) + Occ(work, AuxOf(k)) = IF k \in mallocd THEN 1 ELSE 0

\* assert(k->refs >= 1) of Dec and assert(k->refs == 0) of dispose_k_itself.
CascadeAssertions ==
  work # <<>> => IF Head(work).op = "Dec" THEN refs[Head(work).k] >= 1 /\ Live(Head(work).k)
                                          ELSE refs[Head(work).k] = 0
\* The used window of every args array lies inside the array, whatever mix of
\* trims, insertions and front growth a node and its copies went through.
WindowInBounds == \A k \in Node : pos_first[k] + Len(args[k]) <= MAX_GARBAGE_ARG_LEN

\* With a free list as large as the number of nodes that may be outstanding
\* (the shipped settings), dispose_k_itself never reaches the free() branch,
\* whose assertion would stop the program.
FreePathUnreachable == MAX_OUTSTANDING_K <= MAX_GARBAGE_KEPT => panicked # "free_args"

OnCycle(k) == k \in Reach(Range(args[k]))

\* Every live node can still be reached from an owning C variable, from a node
\* some C local holds uncounted (or a permanent one), from a Dec still to be
\* made, or from a cycle of terms: only a cycle can leak.
OnlyCyclesLeak ==
  \A k \in Node : Live(k) =>
    k \in Reach({x \in Node : \/ OwnersOf(root, x) # {} \/ Occ(work, DecOf(x)) > 0
                              \/ (Live(x) /\ refs[x] = 0)
                              \/ OnCycle(x)})

\* A node with more than one reference never changes its number of arguments:
\* what grows or shrinks a shared term works on a copy.  (Overwriting as many
\* arguments as are written does edit the shared node in place.)
SharedKeepsArity ==
  [][\A k \in Node : refs[k] > 1 => Len(args'[k]) = Len(args[k])]_vars

\* A bound on what a cascade of Decs still has to do.
Slots  == {e \in Node \X (1..MAX_GARBAGE_ARG_LEN) : e[2] \in DOMAIN args[e[1]]}
Weight == 2 * Cardinality(Slots) + Cardinality({k \in Node : Live(k)}) + Len(work)
\* Every step of a cascade makes the bound smaller, whatever cycles and shared
\* terms it meets: no recursion of dispose_k goes on for ever.
CascadeShrinks == [][work # <<>> => Weight' < Weight \/ panicked' # "no"]_vars
=============================================================================
