---------------------------- MODULE KHeapLimits ----------------------------
(***************************************************************************)
(* Four more consequences of the invariant of KHeap: the free list never   *)
(* fills up when it is as large as the number of nodes that may be         *)
(* outstanding, a shared node never changes its number of arguments, every *)
(* step of a cascade brings its end nearer, and only cycles of terms leak. *)
(***************************************************************************)
EXTENDS KHeapProofs

\* mallocK never hands out more addresses than it may.
MallocBounded == Cardinality(mallocd) <= MAX_OUTSTANDING_K

LInv == IInv /\ MallocBounded /\ FreePathUnreachable

-----------------------------------------------------------------------------
(* The number of outstanding nodes.                                        *)

\* One _k_acquire keeps the number of addresses bounded.
LEMMA AcquireBound ==
  ASSUME NEW g \in Seq(Node), NEW m \in SUBSET Node, Range(g) \subseteq m,
         Cardinality(m) <= MAX_OUTSTANDING_K, NEW n \in Node, CanAcquire(g, m, n)
  PROVE  /\ Cardinality(m \cup {n}) <= MAX_OUTSTANDING_K
         /\ Popped(g) \in Seq(Node) /\ Range(Popped(g)) \subseteq m \cup {n}
<1>1. IsFiniteSet(m) /\ MAX_OUTSTANDING_K \in Nat
  BY HeapAssumption, FS_Subset DEF HeapAssumption
<1>2. Cardinality(m) \in Nat
  BY <1>1, FS_CardinalityType
<1>3. CASE g = <<>>
  <2>1. n \notin m /\ Cardinality(m) < MAX_OUTSTANDING_K /\ Popped(g) = g
    BY <1>3 DEF CanAcquire, Popped
  <2>2. Cardinality(m \cup {n}) = Cardinality(m) + 1
    BY <1>1, <2>1, FS_AddElement
  <2> QED
    BY <1>1, <1>2, <2>1, <2>2
<1>4. CASE g # <<>>
  <2>1. Popped(g) \in Seq(Node) /\ g = Append(Popped(g), n)
    BY <1>4, PopSplit DEF CanAcquire
  <2> DEFINE q == Popped(g)
  <2>2. q \in Seq(Node) /\ Len(q) \in Nat /\ g = Append(q, n)
    BY <2>1, LenProperties
  <2> HIDE DEF q
  <2>3. Range(g) = Range(q) \cup {n}
    BY <2>2 DEF Range
  <2>4. n \in m /\ m \cup {n} = m
    BY <2>3
  <2> QED
    BY <2>2, <2>3, <2>4 DEF q
<1> QED
  BY <1>3, <1>4

\* What the free list holds has been allocated.
LEMMA PoolAllocated == ASSUME IInv, work = <<>> PROVE Range(garbage_k) \subseteq mallocd
<1>1. garbage_k \in Seq(Node)
  BY DEF IInv, TypeOK
<1>2. Range(garbage_k) \subseteq Node
  BY <1>1 DEF Range
<1> QED
  BY <1>2, PoolOnce

\* The same for the acquisitions of the calls that make one or two nodes.
LEMMA OneMore ==
  ASSUME LInv, work = <<>>, NEW n \in Node, CanAcquire(garbage_k, mallocd, n),
         mallocd' = mallocd \cup {n}
  PROVE  MallocBounded'
<1>1. garbage_k \in Seq(Node) /\ mallocd \in SUBSET Node /\ Range(garbage_k) \subseteq mallocd
  BY PoolAllocated DEF LInv, IInv, TypeOK
<1> QED
  BY <1>1, AcquireBound DEF LInv, MallocBounded

LEMMA TwoMore ==
  ASSUME LInv, work = <<>>, NEW f \in Node, NEW n \in Node,
         CanAcquire(garbage_k, mallocd, f),
         CanAcquire(Popped(garbage_k), mallocd \cup {f}, n),
         mallocd' = mallocd \cup {f, n}
  PROVE  MallocBounded'
<1>1. garbage_k \in Seq(Node) /\ mallocd \in SUBSET Node /\ Range(garbage_k) \subseteq mallocd
  BY PoolAllocated DEF LInv, IInv, TypeOK
<1> DEFINE g == Popped(garbage_k)
           m == mallocd \cup {f}
<1>2. /\ Cardinality(m) <= MAX_OUTSTANDING_K /\ m \in SUBSET Node
      /\ g \in Seq(Node) /\ Range(g) \subseteq m
  BY <1>1, AcquireBound DEF LInv, MallocBounded
<1>3. CanAcquire(g, m, n) /\ mallocd' = m \cup {n}
  OBVIOUS
<1> HIDE DEF g, m
<1>4. Cardinality(m \cup {n}) <= MAX_OUTSTANDING_K
  BY <1>2, <1>3, AcquireBound
<1> QED
  BY <1>3, <1>4, Zenon DEF MallocBounded

\* No call allocates more than it may.
LEMMA MallocStep == ASSUME LInv, [Next]_vars PROVE MallocBounded'
<1>1. ASSUME mallocd' = mallocd PROVE MallocBounded'
  BY <1>1 DEF LInv, MallocBounded
<1>2. ASSUME NEW why, Stop(why) PROVE MallocBounded'
  BY <1>1, <1>2 DEF Stop
<1>3. ASSUME NEW s, K_new(s) PROVE MallocBounded'
  BY <1>2, <1>3, OneMore DEF K_new, Idle
<1>4. ASSUME NEW k \in Node, NEW c, CopyStops(k, c) PROVE MallocBounded'
  BY <1>2, <1>4 DEF CopyStops
<1>5. ASSUME NEW k \in Node, Edit(k) PROVE MallocBounded'
  <2>1. ASSUME NEW left, K_without_first_n_arg(k, left) PROVE MallocBounded'
    BY <1>4, <2>1, OneMore DEF K_without_first_n_arg, Idle
  <2>2. ASSUME NEW left, NEW right, UpdateTrimArgs(k, left, right) PROVE MallocBounded'
    BY <1>1, <1>4, <2>2, OneMore DEF UpdateTrimArgs, Idle
  <2>3. ASSUME NEW i, NEW v, K_set_arg(k, i, v) PROVE MallocBounded'
    BY <1>1, <2>3 DEF K_set_arg
  <2>4. ASSUME NEW i, NEW v, K_replace_arg(k, i, v) PROVE MallocBounded'
    BY <1>1, <1>4, <2>4, OneMore DEF K_replace_arg, Idle
  <2>5. ASSUME NEW v, K_add_front_arg(k, v) PROVE MallocBounded'
    BY <1>1, <1>2, <2>5 DEF K_add_front_arg
  <2>6. ASSUME NEW pos, NEW count, NEW s, K_insert_elems(k, pos, count, s) PROVE MallocBounded'
    BY <1>2, <1>4, <2>6, OneMore, TwoMore DEF K_insert_elems, Idle
  <2> QED
    BY <1>5, <2>1, <2>2, <2>3, <2>4, <2>5, <2>6 DEF Edit
<1>6. ASSUME NEW k \in Node, K_make_permanent(k) \/ K_dispose(k) PROVE MallocBounded'
  BY <1>1, <1>6 DEF K_make_permanent, K_dispose
<1>7. ASSUME NEW r \in Root, Disown(r) \/ \E k \in Node : Own(r, k) PROVE MallocBounded'
  BY <1>1, <1>7 DEF Own, Disown
<1>8. CASE Cascade
  BY <1>1, <1>2, <1>8 DEF Cascade, DecStep, AuxStep
<1>9. CASE UNCHANGED vars
  BY <1>1, <1>9 DEF vars
<1> QED
  BY <1>3, <1>5, <1>6, <1>7, <1>8, <1>9 DEF Next, Stopped

-----------------------------------------------------------------------------
(* Room on the free list.                                                  *)

\* While a node waits to be put on the free list, the list is shorter than
\* the number of addresses: its elements are distinct, and the node is not
\* among them.
LEMMA PoolShort ==
  ASSUME IInv, work # <<>>, Head(work).op = "dispose_k_aux"
  PROVE  Len(garbage_k) < Cardinality(mallocd)
<1> DEFINE h == Head(work).k
<1>1. garbage_k \in Seq(Node) /\ mallocd \in SUBSET Node /\ work \in Seq(Pending)
  BY DEF IInv, TypeOK
<1>2. Tail(work) \in Seq(Pending) /\ h \in Node
      /\ Occ(work, AuxOf(h)) = Occ(Tail(work), AuxOf(h)) + 1
  BY WorkSplit
<1> HIDE DEF h
<1>3. Occ(Tail(work), AuxOf(h)) \in Nat /\ Occ(garbage_k, h) \in Nat
  BY <1>1, <1>2, OccNat
<1>4. Occ(work, AuxOf(h)) # 0
  BY <1>2, <1>3
<1>5. Dead(h)
  BY <1>1, <1>4, OccNat DEF Dead
<1>6. Occ(garbage_k, h) + Occ(work, AuxOf(h)) = IF h \in mallocd THEN 1 ELSE 0
  BY <1>2, <1>5 DEF IInv, ReclaimedOnce
<1>7. h \in mallocd /\ Occ(garbage_k, h) = 0
  BY <1>2, <1>3, <1>6
<1>8. ASSUME NEW x \in Range(garbage_k)
      PROVE  x \in mallocd \ {h} /\ Occ(garbage_k, x) = 1
  <2>1. x \in Node /\ Dead(x)
    BY <1>1, <1>8 DEF Range, Dead
  <2>2. Occ(garbage_k, x) \in Nat /\ Occ(garbage_k, x) # 0 /\ Occ(work, AuxOf(x)) \in Nat
    BY <1>1, <1>8, OccNat
  <2>3. Occ(garbage_k, x) + Occ(work, AuxOf(x)) = IF x \in mallocd THEN 1 ELSE 0
    BY <2>1 DEF IInv, ReclaimedOnce
  <2> QED
    BY <1>7, <2>2, <2>3
<1>9. garbage_k \in Injection(1..Len(garbage_k), mallocd \ {h})
  <2>1. DOMAIN garbage_k = 1..Len(garbage_k) /\ \A i \in DOMAIN garbage_k : garbage_k[i] \in Range(garbage_k)
    BY <1>1, LenProperties DEF Range
  <2>2. garbage_k \in [1..Len(garbage_k) -> mallocd \ {h}]
    BY <1>1, <1>8, <2>1
  <2>3. ASSUME NEW i \in DOMAIN garbage_k, NEW j \in DOMAIN garbage_k, garbage_k[i] = garbage_k[j]
        PROVE  i = j
    <3> DEFINE I == {l \in DOMAIN garbage_k : garbage_k[l] = garbage_k[i]}
    <3>1. IsFiniteSet(I) /\ Cardinality(I) = 1
      BY <1>1, <1>8, <2>1, OccNat DEF Occ
    <3>2. i \in I /\ j \in I
      BY <2>3
    <3> HIDE DEF I
    <3> QED
      BY <3>1, <3>2, FS_Singleton
  <2> QED
    BY <2>1, <2>2, <2>3 DEF Injection, IsInjective
<1>10. IsFiniteSet(mallocd)
  BY <1>1, HeapAssumption, FS_Subset DEF HeapAssumption
<1>11. /\ IsFiniteSet(mallocd \ {h}) /\ Cardinality(mallocd \ {h}) = Cardinality(mallocd) - 1
       /\ Cardinality(mallocd) \in Nat
  BY <1>7, <1>10, FS_RemoveElement, FS_CardinalityType
<1>12. Len(garbage_k) \in Nat
  BY <1>1, LenProperties
<1>13. Cardinality(1..Len(garbage_k)) = Len(garbage_k)
  <2>1. \A b \in Int : Cardinality(1..b) = IF 1 > b THEN 0 ELSE b - 1 + 1
    BY FS_Interval
  <2> QED
    BY <1>12, <2>1
<1>14. Cardinality(1..Len(garbage_k)) <= Cardinality(mallocd \ {h})
  BY <1>9, <1>11, FS_Injection
<1> QED
  BY <1>11, <1>12, <1>13, <1>14

\* Only a full free list stops a cascade.
LEMMA FreePathStep == ASSUME LInv, [Next]_vars PROVE FreePathUnreachable'
<1> SUFFICES ASSUME MAX_OUTSTANDING_K <= MAX_GARBAGE_KEPT PROVE panicked' # "free_args"
  BY DEF FreePathUnreachable
<1>1. panicked # "free_args"
  BY DEF LInv, FreePathUnreachable
<1>2. ASSUME panicked' = panicked PROVE panicked' # "free_args"
  BY <1>1, <1>2
<1>3. ASSUME NEW s, K_new(s) PROVE panicked' # "free_args"
  BY <1>1, <1>3 DEF K_new, Stop
<1>4. ASSUME NEW k \in Node, NEW c, CopyStops(k, c) PROVE panicked' # "free_args"
  BY <1>4 DEF CopyStops, Stop
<1>5. ASSUME NEW k \in Node, Edit(k) PROVE panicked' # "free_args"
  <2>1. ASSUME NEW left, K_without_first_n_arg(k, left) PROVE panicked' # "free_args"
    BY <1>1, <1>4, <2>1 DEF K_without_first_n_arg
  <2>2. ASSUME NEW left, NEW right, UpdateTrimArgs(k, left, right) PROVE panicked' # "free_args"
    BY <1>1, <1>4, <2>2 DEF UpdateTrimArgs
  <2>3. ASSUME NEW i, NEW v, K_set_arg(k, i, v) \/ K_replace_arg(k, i, v) PROVE panicked' # "free_args"
    BY <1>1, <1>4, <2>3 DEF K_set_arg, K_replace_arg
  <2>4. ASSUME NEW v, K_add_front_arg(k, v) PROVE panicked' # "free_args"
    BY <1>1, <2>4 DEF K_add_front_arg, Stop
  <2>5. ASSUME NEW pos, NEW count, NEW s, K_insert_elems(k, pos, count, s) PROVE panicked' # "free_args"
    BY <1>1, <1>4, <2>5 DEF K_insert_elems, Stop
  <2> QED
    BY <1>5, <2>1, <2>2, <2>3, <2>4, <2>5 DEF Edit
<1>6. ASSUME NEW k \in Node, K_make_permanent(k) \/ K_dispose(k) PROVE panicked' # "free_args"
  BY <1>1, <1>6 DEF K_make_permanent, K_dispose
<1>7. ASSUME NEW r \in Root, Disown(r) \/ \E k \in Node : Own(r, k) PROVE panicked' # "free_args"
  BY <1>1, <1>7 DEF Own, Disown
<1>8. CASE DecStep
  BY <1>1, <1>8 DEF DecStep
<1>9. CASE AuxStep
  <2> DEFINE g == Len(garbage_k)
             m == Cardinality(mallocd)
  <2>1. work # <<>> /\ Head(work).op = "dispose_k_aux" /\ IInv
    BY <1>9 DEF AuxStep, LInv
  <2>2. g < m /\ m <= MAX_OUTSTANDING_K
    BY <2>1, PoolShort DEF LInv, MallocBounded
  <2>3. g \in Nat /\ m \in Nat /\ MAX_OUTSTANDING_K \in Nat /\ MAX_GARBAGE_KEPT \in Nat
    <3>1. garbage_k \in Seq(Node) /\ mallocd \in SUBSET Node
      BY <2>1 DEF IInv, TypeOK
    <3>2. IsFiniteSet(mallocd)
      BY <3>1, HeapAssumption, FS_Subset DEF HeapAssumption
    <3> QED
      BY <3>1, <3>2, HeapAssumption, LenProperties, FS_CardinalityType DEF HeapAssumption
  <2>4. g < MAX_GARBAGE_KEPT
    <3> HIDE DEF g, m
    <3> QED
      BY <2>2, <2>3
  <2>5. Room
    BY <2>4 DEF Room
  <2> QED
    BY <1>1, <1>9, <2>5 DEF AuxStep
<1>10. CASE UNCHANGED vars
  BY <1>1, <1>10 DEF vars
<1> QED
  BY <1>3, <1>5, <1>6, <1>7, <1>8, <1>9, <1>10 DEF Next, Cascade, Stopped

\* With the sizes of settings.h, no cascade ever reaches the free() branch of
\* dispose_k_itself.
THEOREM FreePathDead == Spec => []FreePathUnreachable
<1>1. Init => LInv
  <2> SUFFICES ASSUME Init PROVE LInv
    OBVIOUS
  <2>1. mallocd = {} /\ panicked = "no" /\ IInv
    BY InitInv DEF Init
  <2> QED
    BY <2>1, FS_EmptySet, HeapAssumption DEF LInv, MallocBounded, FreePathUnreachable, HeapAssumption
<1>2. LInv /\ [Next]_vars => LInv'
  BY NextInv, MallocStep, FreePathStep DEF LInv
<1>3. LInv => FreePathUnreachable
  BY DEF LInv
<1> QED
  BY <1>1, <1>2, <1>3, PTL DEF Spec

-----------------------------------------------------------------------------
(* Shared nodes.                                                           *)

KeepsArity(k) == Len(args'[k]) = Len(args[k])

\* Writing the arguments of another node.
LEMMA OtherArity ==
  ASSUME IInv, NEW k \in Node, NEW n, n # k, NEW s, args' = [args EXCEPT ![n] = s]
  PROVE  KeepsArity(k)
  BY DEF KeepsArity, IInv, TypeOK

\* A referenced node is not one that is about to be acquired.
LEMMA SharedNotAcquired ==
  ASSUME IInv, work = <<>>, NEW k \in Node, refs[k] > 1,
         NEW n \in Node, CanAcquire(garbage_k, mallocd, n)
  PROVE  n # k
<1>1. refs[n] = 0
  BY AcquireStep
<1> QED
  BY <1>1

\* Overwriting as many arguments as are written keeps their number.
LEMMA SameCount ==
  ASSUME IInv, NEW k \in Node, NEW pos \in Nat, NEW count \in Nat,
         pos + count <= Len(args[k]), NEW s \in Seq(Node), Len(s) = count
  PROVE  Len(Inserted(k, pos, count, s)) = Len(args[k])
<1> DEFINE old  == args[k]
           head == SubSeq(old, 1, pos)
           tail == SubSeq(old, pos + count + 1, Len(old))
<1>1. old \in Seq(Node) /\ Len(old) \in Nat
  BY Window DEF IInv
<1>2. pos \in 0..Len(old) /\ pos + count \in pos..Len(old)
  BY <1>1
<1>3. /\ head \in Seq(Node) /\ tail \in Seq(Node)
      /\ Len(head) = pos /\ Len(tail) = Len(old) - (pos + count)
  BY <1>1, <1>2, OccSplit
<1>4. Inserted(k, pos, count, s) = (head \o s) \o tail
  BY DEF Inserted
<1> HIDE DEF head, tail
<1>5. \A a, b \in Seq(Node) : a \o b \in Seq(Node) /\ Len(a \o b) = Len(a) + Len(b)
  BY ConcatProperties
<1>6. /\ head \o s \in Seq(Node) /\ Len(head \o s) = pos + count
      /\ Len((head \o s) \o tail) = Len(head \o s) + Len(tail)
  <2>1. head \in Seq(Node) /\ tail \in Seq(Node) /\ Len(head) = pos
    BY <1>3
  <2>2. head \o s \in Seq(Node) /\ Len(head \o s) = Len(head) + Len(s)
    BY <2>1, <1>5, Zenon
  <2>3. Len((head \o s) \o tail) = Len(head \o s) + Len(tail)
    BY <2>1, <2>2, <1>5, Zenon
  <2> QED
    BY <2>1, <2>2, <2>3
<1> HIDE DEF old
<1>7. Len(head \o s) + Len(tail) = Len(old)
  BY <1>1, <1>3, <1>6
<1> QED
  BY <1>4, <1>6, <1>7 DEF old

\* k_insert_elems on a shared node.
LEMMA InsertKeepsArity ==
  ASSUME IInv, NEW k \in Node, refs[k] > 1, NEW j \in Node,
         NEW pos \in 0..MAX_GARBAGE_ARG_LEN, NEW count \in 0..MAX_GARBAGE_ARG_LEN,
         NEW s \in ArgLists(MAX_GARBAGE_ARG_LEN), K_insert_elems(j, pos, count, s)
  PROVE  KeepsArity(k)
<1>1. work = <<>> /\ pos + count <= Len(args[j])
  BY DEF K_insert_elems, Idle
<1>2. pos \in Nat /\ count \in Nat /\ s \in Seq(Node) /\ Len(s) \in Nat
  BY HeapAssumption DEF HeapAssumption, ArgLists
<1> DEFINE copies == Len(s) - count < 0 \/ (Len(s) - count > 0 /\ Shared(j))
<1>3. CASE args' = args
  BY <1>3 DEF KeepsArity
<1>4. CASE ~ copies /\ args' = [args EXCEPT ![j] = Inserted(j, pos, count, s)]
  <2>1. CASE j # k
    BY <1>4, <2>1, OtherArity
  <2>2. CASE j = k
    <3>1. Shared(j)
      BY <2>2 DEF Shared
    <3>2. Len(s) = count
      BY <1>2, <1>4, <3>1
    <3>3. Len(Inserted(j, pos, count, s)) = Len(args[j])
      BY <1>1, <1>2, <3>2, SameCount
    <3> QED
      BY <1>4, <2>2, <3>3 DEF KeepsArity, IInv, TypeOK
  <2> QED
    BY <2>1, <2>2
<1>5. ASSUME NEW f \in Node, NEW n \in Node, InsertedInCopy(f, n, j, pos, count, s)
      PROVE  KeepsArity(k)
  <2>1. /\ CanAcquire(garbage_k, mallocd, f) /\ CanAcquire(Popped(garbage_k), mallocd \cup {f}, n)
        /\ args' = [args EXCEPT ![n] = Inserted(j, pos, count, s)]
    BY <1>5 DEF InsertedInCopy
  <2>2. Dead(n)
    BY <1>1, <2>1, AcquireTwice
  <2>3. refs[n] = 0
    BY <2>2, DeadIsolated
  <2>4. n # k
    BY <2>3
  <2> QED
    BY <2>1, <2>4, OtherArity
<1> QED
  <2>1. CASE \E why : Stop(why)
    BY <1>3, <2>1 DEF Stop
  <2>2. CASE \E c : CopyStops(j, c)
    BY <1>3, <2>2 DEF CopyStops, Stop
  <2>3. CASE \E f, n \in Node : InsertedInCopy(f, n, j, pos, count, s)
    BY <1>5, <2>3
  <2>4. CASE ~ copies /\ \E f \in Node : InsertedInPlace(f, j, pos, count, s)
    BY <1>4, <2>4 DEF InsertedInPlace
  <2> QED
    BY <2>1, <2>2, <2>3, <2>4 DEF K_insert_elems, InsertedInPlace, InsertedInCopy, Inserted

\* Every call leaves the number of arguments of a shared node alone.
LEMMA ArityStep == ASSUME IInv, [Next]_vars, NEW k \in Node, refs[k] > 1 PROVE KeepsArity(k)
<1>1. ASSUME args' = args PROVE KeepsArity(k)
  BY <1>1 DEF KeepsArity
<1>2. refs \in [Node -> Nat]
  BY DEF IInv, TypeOK
<1>3. ASSUME NEW why, Stop(why) PROVE KeepsArity(k)
  BY <1>1, <1>3 DEF Stop
<1>4. ASSUME NEW j \in Node, NEW c, CopyStops(j, c) PROVE KeepsArity(k)
  BY <1>3, <1>4 DEF CopyStops
<1>5. ASSUME NEW n, refs[n] # refs[k], NEW s, args' = [args EXCEPT ![n] = s] PROVE KeepsArity(k)
  BY <1>5, OtherArity
<1>6. ASSUME NEW s, K_new(s) PROVE KeepsArity(k)
  BY <1>3, <1>6, SharedNotAcquired, OtherArity DEF K_new, Idle
<1>7. ASSUME NEW j \in Node, Edit(j) PROVE KeepsArity(k)
  <2>1. ASSUME NEW left, K_without_first_n_arg(j, left) PROVE KeepsArity(k)
    BY <1>4, <2>1, SharedNotAcquired, OtherArity DEF K_without_first_n_arg, IntoCopy, Idle
  <2>2. ASSUME NEW left, NEW right, UpdateTrimArgs(j, left, right) PROVE KeepsArity(k)
    <3>1. CASE ~ Shared(j) /\ args' = [args EXCEPT ![j] = SubSeq(args[j], left + 1, right)]
      BY <3>1, OtherArity DEF Shared
    <3> QED
      BY <1>4, <2>2, <3>1, SharedNotAcquired, OtherArity DEF UpdateTrimArgs, IntoCopy, Idle
  <2>3. ASSUME NEW i, NEW v, K_set_arg(j, i, v) PROVE KeepsArity(k)
    <3>1. args' = [args EXCEPT ![j] = [args[j] EXCEPT ![i] = v]] /\ refs[j] = 1
      BY <2>3 DEF K_set_arg
    <3>2. j # k
      BY <3>1
    <3> QED
      BY <3>1, <3>2, OtherArity
  <2>4. ASSUME NEW i, NEW v, K_replace_arg(j, i, v) PROVE KeepsArity(k)
    <3>1. CASE ~ Shared(j) /\ args' = [args EXCEPT ![j] = [args[j] EXCEPT ![i] = v]]
      BY <3>1, OtherArity DEF Shared
    <3> QED
      BY <1>4, <2>4, <3>1, SharedNotAcquired, OtherArity DEF K_replace_arg, IntoCopy, Idle
  <2>5. ASSUME NEW v, K_add_front_arg(j, v) PROVE KeepsArity(k)
    <3>1. CASE args' = [args EXCEPT ![j] = <<v>> \o args[j]] /\ refs[j] = 1
      <4>1. j # k
        BY <3>1
      <4> QED
        BY <3>1, <4>1, OtherArity
    <3> QED
      BY <1>3, <2>5, <3>1 DEF K_add_front_arg
  <2>6. ASSUME NEW pos \in 0..MAX_GARBAGE_ARG_LEN, NEW count \in 0..MAX_GARBAGE_ARG_LEN,
               NEW s \in ArgLists(MAX_GARBAGE_ARG_LEN), K_insert_elems(j, pos, count, s)
        PROVE  KeepsArity(k)
    BY <2>6, InsertKeepsArity
  <2> QED
    BY <1>7, <2>1, <2>2, <2>3, <2>4, <2>5, <2>6 DEF Edit
<1>8. ASSUME NEW j \in Node, K_make_permanent(j) \/ K_dispose(j) PROVE KeepsArity(k)
  <2>1. CASE j # k /\ args' = [args EXCEPT ![j] = <<>>]
    BY <2>1, OtherArity
  <2> QED
    BY <1>1, <1>8, <2>1 DEF K_make_permanent, K_dispose, Fresh
<1>9. ASSUME NEW r \in Root, Disown(r) \/ \E j \in Node : Own(r, j) PROVE KeepsArity(k)
  BY <1>1, <1>9 DEF Own, Disown
<1>10. CASE DecStep
  <2> DEFINE h == Head(work).k
  <2>1. CASE args' = [args EXCEPT ![h] = <<>>] /\ refs[h] = 1
    <3>1. h # k
      BY <2>1
    <3> QED
      BY <2>1, <3>1, OtherArity
  <2> QED
    BY <1>1, <1>10, <2>1 DEF DecStep, Dies
<1>11. CASE AuxStep
  BY <1>1, <1>3, <1>11 DEF AuxStep
<1>12. CASE UNCHANGED vars
  BY <1>1, <1>12 DEF vars
<1> QED
  BY <1>6, <1>7, <1>8, <1>9, <1>10, <1>11, <1>12 DEF Next, Cascade, Stopped

\* What grows or shrinks a shared term works on a copy.
THEOREM ArityKept == Spec => SharedKeepsArity
<1>1. IInv /\ [Next]_vars => [\A k \in Node : refs[k] > 1 => Len(args'[k]) = Len(args[k])]_vars
  BY ArityStep DEF KeepsArity
<1> QED
  BY <1>1, Inductive, PTL DEF Spec, SharedKeepsArity

-----------------------------------------------------------------------------
(* Cascades end.                                                           *)

LiveNodes == {k \in Node : Live(k)}

\* The terms of Weight are counts.
LEMMA WeightCounts ==
  ASSUME NEW a, NEW S, S = {e \in Node \X (1..MAX_GARBAGE_ARG_LEN) : e[2] \in DOMAIN a[e[1]]},
         NEW L \in SUBSET Node
  PROVE  /\ IsFiniteSet(S) /\ Cardinality(S) \in Nat
         /\ IsFiniteSet(L) /\ Cardinality(L) \in Nat
<1>1. IsFiniteSet(Node) /\ IsFiniteSet(1..MAX_GARBAGE_ARG_LEN)
  BY HeapAssumption, FS_Interval DEF HeapAssumption
<1>2. IsFiniteSet(Node \X (1..MAX_GARBAGE_ARG_LEN))
  BY <1>1, FS_Product
<1>3. IsFiniteSet(S) /\ IsFiniteSet(L)
  BY <1>1, <1>2, FS_Subset
<1> QED
  BY <1>3, FS_CardinalityType

\* What a step of a cascade leaves live: all that was, except the nodes F it
\* starts to reclaim.
LEMMA LiveAfter ==
  ASSUME IInv, NEW F \in SUBSET Node,
         garbage_k' \in Seq(Node), work' \in Seq(Pending), mallocd' = mallocd,
         \A x \in Node : Occ(garbage_k', x) + Occ(work', AuxOf(x))
                           = Occ(garbage_k, x) + Occ(work, AuxOf(x)) + IF x \in F THEN 1 ELSE 0
  PROVE  LiveNodes' = LiveNodes \ F
<1>1. ASSUME NEW x \in Node PROVE Live(x)' <=> Live(x) /\ x \notin F
  <2> DEFINE g == Occ(garbage_k, x)
             g2 == Occ(garbage_k', x)
             w == Occ(work, AuxOf(x))
             w2 == Occ(work', AuxOf(x))
             c == IF x \in F THEN 1 ELSE 0
  <2>1. /\ g \in Nat /\ (g = 0 <=> x \notin Range(garbage_k))
        /\ w \in Nat /\ (w = 0 <=> AuxOf(x) \notin Range(work))
    BY OccNat DEF IInv, TypeOK
  <2>2. /\ g2 \in Nat /\ (g2 = 0 <=> x \notin Range(garbage_k'))
        /\ w2 \in Nat /\ (w2 = 0 <=> AuxOf(x) \notin Range(work'))
    BY OccNat
  <2>3. g2 + w2 = g + w + c /\ c \in Nat /\ (x \notin F <=> c = 0)
    OBVIOUS
  <2>4. /\ Live(x) <=> x \in mallocd /\ g = 0 /\ w = 0
        /\ Live(x)' <=> x \in mallocd /\ g2 = 0 /\ w2 = 0
    BY <2>1, <2>2 DEF Live, Dead
  <2> HIDE DEF g, g2, w, w2, c
  <2>5. (g2 = 0 /\ w2 = 0) <=> (g = 0 /\ w = 0 /\ c = 0)
    BY <2>1, <2>2, <2>3
  <2> QED
    BY <2>3, <2>4, <2>5
<1> QED
  BY <1>1 DEF LiveNodes

\* The slots of the other nodes, and those of k.
LEMMA EmptiedSlots ==
  ASSUME IInv, NEW k \in Node, args' = [args EXCEPT ![k] = <<>>]
  PROVE  Cardinality(Slots) = Cardinality(Slots') + Len(args[k])
<1> DEFINE n == Len(args[k])
           I == 1..n
           M == {e \in Slots : e[1] = k}
           f == [i \in I |-> <<k, i>>]
<1>1. args \in [Node -> Seq(Node)] /\ args[k] \in Seq(Node) /\ n \in Nat /\ DOMAIN args[k] = I
      /\ n <= MAX_GARBAGE_ARG_LEN
  BY Window, LenProperties DEF IInv, TypeOK
<1>2. \A e \in M : e[2] \in I /\ e = <<k, e[2]>>
  BY <1>1 DEF Slots
<1>3. \A i \in I : <<k, i>> \in M
  BY <1>1, HeapAssumption DEF Slots, HeapAssumption
<1>4. f \in Bijection(I, M)
  BY <1>2, <1>3 DEF Bijection, Injection, Surjection, IsInjective
<1>5. IsFiniteSet(I) /\ Cardinality(I) = n
  <2>1. n \in Nat
    BY <1>1
  <2> HIDE DEF n
  <2>2. IsFiniteSet(1..n) /\ Cardinality(1..n) = IF 1 > n THEN 0 ELSE n - 1 + 1
    BY <2>1, FS_Interval
  <2>3. Cardinality(1..n) = n
    BY <2>1, <2>2
  <2> QED
    BY <2>2, <2>3
<1>6. Cardinality(M) = Cardinality(I)
  <2> HIDE DEF M, I, f
  <2> QED
    BY <1>4, <1>5, FS_Bijection DEF ExistsBijection
<1>7. IsFiniteSet(Slots) /\ Cardinality(Slots) \in Nat /\ IsFiniteSet(Slots') /\ Cardinality(Slots') \in Nat
  BY WeightCounts DEF Slots
<1>8. Slots' = Slots \ M
  <2>1. \A x \in Node : DOMAIN args'[x] = IF x = k THEN {} ELSE DOMAIN args[x]
    BY <1>1
  <2> QED
    BY <1>1, <2>1 DEF Slots
<1>9. Cardinality(Slots \ M) = Cardinality(Slots) - Cardinality(Slots \cap M)
  <2> HIDE DEF M
  <2> QED
    BY <1>7, FS_Difference
<1>10. Slots \cap M = M
  OBVIOUS
<1> HIDE DEF M, I, n
<1>11. Cardinality(Slots) = Cardinality(Slots') + n
  <2>1. Cardinality(M) = n
    BY <1>5, <1>6
  <2>2. Cardinality(Slots') = Cardinality(Slots) - n
    BY <1>8, <1>9, <1>10, <2>1
  <2>3. n \in Nat
    BY <1>1
  <2> DEFINE a == Cardinality(Slots)
             b == Cardinality(Slots')
  <2>4. a \in Nat /\ b \in Nat /\ b = a - n
    BY <1>7, <2>2
  <2> HIDE DEF a, b
  <2>5. a = b + n
    BY <2>3, <2>4
  <2> QED
    BY <2>5 DEF a, b
<1> QED
  BY <1>11 DEF n

\* Dec of a node that keeps other references.
LEMMA DecKeptShrinks ==
  ASSUME IInv, DecStep, ~ Dies(Head(work).k)
  PROVE  Weight' < Weight
<1>1. /\ work # <<>> /\ Head(work).op = "Dec" /\ work' = Tail(work)
      /\ UNCHANGED <<args, garbage_k, mallocd>>
  BY DEF DecStep
<1>2. /\ work \in Seq(Pending) /\ garbage_k \in Seq(Node) /\ work' \in Seq(Pending)
      /\ \A x : Occ(work, AuxOf(x)) = Occ(work', AuxOf(x))
  BY <1>1, WorkSplit DEF IInv, TypeOK
<1>3. Len(work) \in Nat /\ Len(work') = Len(work) - 1
  BY <1>1, <1>2
<1>4. LiveNodes' = LiveNodes
  <2> DEFINE none == {}
  <2>1. none \in SUBSET Node
    OBVIOUS
  <2>2. ASSUME NEW x \in Node
        PROVE  Occ(garbage_k', x) + Occ(work', AuxOf(x))
                 = Occ(garbage_k, x) + Occ(work, AuxOf(x)) + IF x \in none THEN 1 ELSE 0
    <3>1. Occ(garbage_k', x) = Occ(garbage_k, x) /\ Occ(work', AuxOf(x)) = Occ(work, AuxOf(x))
      BY <1>1, <1>2
    <3>2. Occ(garbage_k, x) \in Nat /\ Occ(work, AuxOf(x)) \in Nat
      BY <1>2, OccNat
    <3> QED
      BY <3>1, <3>2
  <2>3. LiveNodes' = LiveNodes \ none
    <3> HIDE DEF none
    <3> QED
      BY <1>1, <1>2, <2>1, <2>2, LiveAfter
  <2> QED
    BY <2>3
<1>5. Slots' = Slots
  BY <1>1 DEF Slots
<1>6. Cardinality(Slots) \in Nat /\ Cardinality(LiveNodes) \in Nat
  BY WeightCounts DEF Slots, LiveNodes
<1>7. Weight = 2 * Cardinality(Slots) + Cardinality(LiveNodes) + Len(work)
      /\ Weight' = 2 * Cardinality(Slots') + Cardinality(LiveNodes') + Len(work')
  BY DEF Weight, LiveNodes
<1> QED
  BY <1>3, <1>4, <1>5, <1>6, <1>7

\* Dec of the last reference: one Dec for every slot it empties, and one node
\* that is no longer live.
LEMMA DecLastShrinks ==
  ASSUME IInv, DecStep, Dies(Head(work).k)
  PROVE  Weight' < Weight
<1> DEFINE k == Head(work).k
           d == Append(DecEach(args[k]), AuxOf(k))
           t == Tail(work)
           n == Len(args[k])
<1>1. /\ work # <<>> /\ Head(work).op = "Dec" /\ work' = d \o t
      /\ args' = [args EXCEPT ![k] = <<>>] /\ garbage_k' = garbage_k /\ mallocd' = mallocd
  BY DEF DecStep, Release
<1>2. /\ k \in Node /\ Live(k) /\ work \in Seq(Pending) /\ t \in Seq(Pending) /\ garbage_k \in Seq(Node)
      /\ args[k] \in Seq(Node) /\ n \in Nat
      /\ \A x : Occ(work, AuxOf(x)) = Occ(t, AuxOf(x))
  BY <1>1, WorkSplit, PendingLive, Window DEF IInv, TypeOK
<1>3. Len(t) \in Nat /\ Len(work) = Len(t) + 1
  BY <1>1, <1>2
<1>4. d \in Seq(Pending) /\ \A x : Occ(d, AuxOf(x)) = IF x = k THEN 1 ELSE 0
  BY <1>2, DisposeWork
<1>5. Len(d) = n + 1
  <2>1. DecEach(args[k]) \in Seq(Pending)
    BY <1>2, OccDecEach
  <2>2. DOMAIN DecEach(args[k]) = 1..n
    BY <1>2, LenProperties DEF DecEach
  <2>3. Len(DecEach(args[k])) = n
    BY <1>2, <2>1, <2>2, LenProperties
  <2> QED
    BY <2>1, <2>3
<1>6. Cardinality(Slots) = Cardinality(Slots') + n
  BY <1>1, <1>2, EmptiedSlots
<1> HIDE DEF k, d, t, n
<1>7. /\ work' \in Seq(Pending) /\ Len(work') = Len(work) + n
      /\ \A x : Occ(work', AuxOf(x)) = Occ(d, AuxOf(x)) + Occ(t, AuxOf(x))
  <2>1. d \o t \in Seq(Pending) /\ Len(d \o t) = Len(d) + Len(t)
    BY <1>2, <1>4, ConcatProperties
  <2>2. \A y : Occ(d \o t, y) = Occ(d, y) + Occ(t, y)
    BY <1>2, <1>4, OccConcat
  <2> QED
    BY <1>1, <1>2, <1>3, <1>5, <2>1, <2>2
<1>8. LiveNodes' = LiveNodes \ {k}
  <2> DEFINE one == {k}
  <2>1. one \in SUBSET Node
    BY <1>2
  <2>2. ASSUME NEW x \in Node
        PROVE  Occ(garbage_k', x) + Occ(work', AuxOf(x))
                 = Occ(garbage_k, x) + Occ(work, AuxOf(x)) + IF x \in one THEN 1 ELSE 0
    <3>1. /\ Occ(garbage_k', x) = Occ(garbage_k, x)
          /\ Occ(work', AuxOf(x)) = (IF x \in one THEN 1 ELSE 0) + Occ(t, AuxOf(x))
          /\ Occ(work, AuxOf(x)) = Occ(t, AuxOf(x))
      BY <1>1, <1>2, <1>4, <1>7
    <3>2. Occ(garbage_k, x) \in Nat /\ Occ(t, AuxOf(x)) \in Nat
      BY <1>2, OccNat
    <3> QED
      BY <3>1, <3>2
  <2> HIDE DEF one
  <2>3. LiveNodes' = LiveNodes \ one
    BY <1>1, <1>2, <1>7, <2>1, <2>2, LiveAfter
  <2> QED
    BY <2>3 DEF one
<1>9. /\ Cardinality(Slots') \in Nat
      /\ IsFiniteSet(LiveNodes) /\ Cardinality(LiveNodes) \in Nat
  BY WeightCounts DEF Slots, LiveNodes
<1>10. Cardinality(LiveNodes') = Cardinality(LiveNodes) - 1
  <2>1. k \in LiveNodes
    BY <1>2 DEF LiveNodes
  <2> QED
    BY <1>8, <1>9, <2>1, FS_RemoveElement
<1>11. Weight = 2 * Cardinality(Slots) + Cardinality(LiveNodes) + Len(work)
       /\ Weight' = 2 * Cardinality(Slots') + Cardinality(LiveNodes') + Len(work')
  BY DEF Weight, LiveNodes
<1> QED
  BY <1>2, <1>3, <1>6, <1>7, <1>9, <1>10, <1>11

\* dispose_k_itself moves the node to the free list, or stops the program.
LEMMA AuxShrinks ==
  ASSUME IInv, AuxStep
  PROVE  Weight' < Weight \/ panicked' # "no"
<1> DEFINE k == Head(work).k
<1>1. work # <<>> /\ Head(work).op = "dispose_k_aux"
  BY DEF AuxStep
<1>2. CASE Stop("free_args")
  BY <1>2 DEF Stop
<1>3. CASE /\ garbage_k' = Append(garbage_k, k) /\ work' = Tail(work)
           /\ UNCHANGED <<args, mallocd>>
  <2>1. /\ k \in Node /\ work \in Seq(Pending) /\ work' \in Seq(Pending) /\ garbage_k \in Seq(Node)
        /\ \A x : Occ(work, AuxOf(x)) = Occ(work', AuxOf(x)) + (IF x = k THEN 1 ELSE 0)
    BY <1>1, <1>3, WorkSplit DEF IInv, TypeOK
  <2>2. Len(work) \in Nat /\ Len(work') = Len(work) - 1
    BY <1>1, <1>3, <2>1
  <2> HIDE DEF k
  <2>3. garbage_k' \in Seq(Node)
    BY <1>3, <2>1
  <2>4. \A x : Occ(garbage_k', x) = Occ(garbage_k, x) + IF x = k THEN 1 ELSE 0
    <3>1. \A x : Occ(Append(garbage_k, k), x) = Occ(garbage_k, x) + IF x = k THEN 1 ELSE 0
      BY <2>1, OccAppend
    <3> QED
      BY <1>3, <3>1
  <2>5. LiveNodes' = LiveNodes
    <3> DEFINE none == {}
    <3>1. none \in SUBSET Node
      OBVIOUS
    <3>2. ASSUME NEW x \in Node
          PROVE  Occ(garbage_k', x) + Occ(work', AuxOf(x))
                   = Occ(garbage_k, x) + Occ(work, AuxOf(x)) + IF x \in none THEN 1 ELSE 0
      <4> DEFINE c == IF x = k THEN 1 ELSE 0
                 g == Occ(garbage_k, x)
                 w == Occ(work', AuxOf(x))
      <4>1. /\ Occ(garbage_k', x) = g + c /\ Occ(work, AuxOf(x)) = w + c
            /\ c \in Nat /\ g \in Nat /\ w \in Nat
        BY <2>1, <2>4, OccNat
      <4> HIDE DEF c, g, w
      <4>2. (g + c) + w = g + (w + c) + 0
        BY <4>1
      <4> QED
        BY <4>1, <4>2 DEF g, w
    <3>3. LiveNodes' = LiveNodes \ none
      <4> HIDE DEF none
      <4> QED
        BY <1>3, <2>1, <2>3, <3>1, <3>2, LiveAfter
    <3> QED
      BY <3>3
  <2>6. Slots' = Slots
    BY <1>3 DEF Slots
  <2>7. Cardinality(Slots) \in Nat /\ Cardinality(LiveNodes) \in Nat
    BY WeightCounts DEF Slots, LiveNodes
  <2>8. Weight = 2 * Cardinality(Slots) + Cardinality(LiveNodes) + Len(work)
        /\ Weight' = 2 * Cardinality(Slots') + Cardinality(LiveNodes') + Len(work')
    BY DEF Weight, LiveNodes
  <2> QED
    BY <2>2, <2>5, <2>6, <2>7, <2>8
<1> QED
  BY <1>2, <1>3 DEF AuxStep

\* While a cascade runs, nothing else does: all other calls wait for it.
LEMMA OnlyCascade == ASSUME Next, work # <<>> PROVE Cascade \/ UNCHANGED vars
<1>1. ~ Idle
  BY DEF Idle
<1>2. ASSUME NEW k \in Node PROVE ~ Edit(k)
  <2>1. \A left : ~ K_without_first_n_arg(k, left)
    BY <1>1 DEF K_without_first_n_arg
  <2>2. \A left, right : ~ UpdateTrimArgs(k, left, right)
    BY <1>1 DEF UpdateTrimArgs
  <2>3. \A i, v : ~ K_set_arg(k, i, v) /\ ~ K_replace_arg(k, i, v)
    BY <1>1 DEF K_set_arg, K_replace_arg
  <2>4. \A v : ~ K_add_front_arg(k, v)
    BY <1>1 DEF K_add_front_arg
  <2>5. ASSUME NEW pos, NEW count, NEW s PROVE ~ K_insert_elems(k, pos, count, s)
    <3>1. K_insert_elems(k, pos, count, s) => Idle
      BY ZenonT(60) DEF K_insert_elems
    <3> QED
      BY <1>1, <3>1
  <2> QED
    BY <2>1, <2>2, <2>3, <2>4, <2>5 DEF Edit
<1>3. /\ \A s : ~ K_new(s)
      /\ \A k : ~ K_make_permanent(k) /\ ~ K_dispose(k)
      /\ \A r : ~ Disown(r) /\ \A k : ~ Own(r, k)
  BY <1>1 DEF K_new, K_make_permanent, K_dispose, Own, Disown
<1>4. CASE Stopped
  BY <1>4 DEF Stopped
<1> QED
  BY <1>2, <1>3, <1>4 DEF Next

\* Every step of a cascade brings its end nearer.
THEOREM CascadesShrink == Spec => CascadeShrinks
<1>1. IInv /\ [Next]_vars => [work # <<>> => Weight' < Weight \/ panicked' # "no"]_vars
  <2> SUFFICES ASSUME IInv, Next, work # <<>>, ~ UNCHANGED vars
               PROVE  Weight' < Weight \/ panicked' # "no"
    OBVIOUS
  <2>1. DecStep \/ AuxStep
    BY OnlyCascade DEF Cascade
  <2> QED
    BY <2>1, DecKeptShrinks, DecLastShrinks, AuxShrinks
<1> QED
  BY <1>1, Inductive, PTL DEF Spec, CascadeShrinks

-----------------------------------------------------------------------------
(* Leaks: reachability is the smallest set closed under arguments.         *)

\* The sets a search from S goes through.
Expand(Q) == Q \cup UNION {Range(args[k]) : k \in Q}
Stages(g, S, n) == g = [i \in 0..n |-> IF i = 0 THEN S ELSE Expand(g[i-1])]

LEMMA StagesExist ==
  ASSUME NEW S, NEW n \in Nat
  PROVE  \E g : Stages(g, S, n)
<1> DEFINE Bad == {m \in Nat : ~ \E g : Stages(g, S, m)}
<1> SUFFICES ASSUME Bad # {} PROVE FALSE
  OBVIOUS
<1>1. PICK m \in Bad : \A y \in Bad : m <= y
  <2> HIDE DEF Bad
  <2>1. Bad \subseteq Nat
    BY DEF Bad
  <2> QED
    BY <2>1, LeastNatural
<1>2. CASE m = 0
  <2>1. Stages([i \in 0..0 |-> S], S, 0)
    BY DEF Stages
  <2> QED
    BY <1>2, <2>1
<1>3. CASE m # 0
  <2>1. m - 1 \in Nat /\ m - 1 \notin Bad
    BY <1>1, <1>3
  <2>2. PICK g : Stages(g, S, m - 1)
    BY <2>1
  <2> DEFINE h == [i \in 0..m |-> IF i = m THEN Expand(g[m-1]) ELSE g[i]]
  <2>3. ASSUME NEW i \in 0..m PROVE h[i] = IF i = 0 THEN S ELSE Expand(h[i-1])
    <3>1. CASE i = m
      <4>1. h[i-1] = g[m-1] /\ h[i] = Expand(g[m-1])
        BY <1>3, <3>1
      <4> QED
        BY <1>3, <3>1, <4>1
    <3>2. CASE i # m
      <4>1. i \in 0..(m-1) /\ h[i] = g[i] /\ (i # 0 => h[i-1] = g[i-1])
        BY <3>2
      <4> QED
        BY <2>2, <4>1 DEF Stages
    <3> QED
      BY <3>1, <3>2
  <2>4. Stages(h, S, m)
    <3>1. h = [i \in 0..m |-> h[i]]
      OBVIOUS
    <3> HIDE DEF h
    <3> QED
      BY <2>3, <3>1 DEF Stages
  <2> QED
    BY <2>4
<1> QED
  BY <1>2, <1>3

LEMMA ReachIsStage ==
  ASSUME NEW S, Cardinality(Node) \in Nat
  PROVE  \E g : Stages(g, S, Cardinality(Node)) /\ Reach(S) = g[Cardinality(Node)]
<1>1. \E g : Stages(g, S, Cardinality(Node))
  BY StagesExist
<1>2. Reach(S) = (CHOOSE g : Stages(g, S, Cardinality(Node)))[Cardinality(Node)]
  BY DEF Reach, Stages, Expand
<1> QED
  BY <1>1, <1>2

LEMMA StageSteps ==
  ASSUME NEW g, NEW S, NEW n \in Nat, Stages(g, S, n)
  PROVE  g[0] = S /\ \A i \in 0..(n-1) : g[i+1] = Expand(g[i])
<1>1. g[0] = S
  BY DEF Stages
<1>2. ASSUME NEW i \in 0..(n-1) PROVE g[i+1] = Expand(g[i])
  <2>1. i + 1 \in 0..n /\ i + 1 # 0 /\ (i + 1) - 1 = i
    OBVIOUS
  <2> QED
    BY <2>1 DEF Stages
<1> QED
  BY <1>1, <1>2

\* What is reached from S stays inside any closed set that contains S.
LEMMA ReachLeast ==
  ASSUME NEW S, NEW T, S \subseteq T, \A k \in T : Range(args[k]) \subseteq T,
         Cardinality(Node) \in Nat
  PROVE  Reach(S) \subseteq T
<1> DEFINE N == Cardinality(Node)
<1>0. N \in Nat
  OBVIOUS
<1>1. PICK g : Stages(g, S, N) /\ Reach(S) = g[N]
  BY ReachIsStage
<1>2. g[0] = S /\ \A i \in 0..(N-1) : g[i+1] = Expand(g[i])
  BY <1>1, StageSteps
<1> HIDE DEF N
<1> DEFINE P == {i \in Nat : i <= N => g[i] \subseteq T}
<1>3. 0 \in P
  BY <1>2
<1>4. ASSUME NEW i \in Nat, i \in P PROVE i + 1 \in P
  <2> SUFFICES ASSUME i + 1 <= N PROVE g[i+1] \subseteq T
    OBVIOUS
  <2>1. i \in 0..(N-1) /\ g[i] \subseteq T
    BY <1>0, <1>4
  <2>2. g[i+1] = Expand(g[i])
    BY <1>2, <2>1
  <2>3. Expand(g[i]) \subseteq T
    BY <2>1 DEF Expand
  <2> QED
    BY <2>2, <2>3
<1>5. Nat \subseteq P
  <2> HIDE DEF P
  <2> QED
    BY <1>3, <1>4, SetInduction
<1> QED
  BY <1>0, <1>1, <1>5

LEMMA ExpandGrows == ASSUME NEW Q PROVE Q \subseteq Expand(Q)
  BY DEF Expand

LEMMA ExpandTyped ==
  ASSUME NEW Q, Q \subseteq Node, args \in [Node -> Seq(Node)]
  PROVE  Expand(Q) \subseteq Node
<1>1. ASSUME NEW k \in Q PROVE Range(args[k]) \subseteq Node
  <2>1. args[k] \in Seq(Node)
    OBVIOUS
  <2> QED
    BY <2>1 DEF Range
<1> QED
  BY <1>1 DEF Expand

\* The set from which the search starts is reached, and whatever is an argument
\* of a node that is reached: N stages are enough, since one that changes
\* nothing is the last to change anything, and each of the others adds a node.
LEMMA ReachClosed ==
  ASSUME NEW S, S \subseteq Node, args \in [Node -> Seq(Node)]
  PROVE  /\ S \subseteq Reach(S) /\ Reach(S) \subseteq Node
         /\ \A k \in Reach(S) : Range(args[k]) \subseteq Reach(S)
<1> DEFINE N == Cardinality(Node)
<1>0. N \in Nat /\ IsFiniteSet(Node)
  BY FS_CardinalityType, HeapAssumption DEF HeapAssumption
<1>1. PICK g : Stages(g, S, N) /\ Reach(S) = g[N]
  BY <1>0, ReachIsStage
<1>2. g[0] = S /\ \A i \in 0..(N-1) : g[i+1] = Expand(g[i])
  BY <1>0, <1>1, StageSteps
<1> HIDE DEF N
<1> DEFINE P == {i \in Nat : i <= N => S \subseteq g[i] /\ g[i] \subseteq Node}
<1>3. \A i \in 0..N : S \subseteq g[i] /\ g[i] \subseteq Node
  <2>1. 0 \in P
    BY <1>2
  <2>2. ASSUME NEW i \in Nat, i \in P PROVE i + 1 \in P
    <3> SUFFICES ASSUME i + 1 <= N PROVE S \subseteq g[i+1] /\ g[i+1] \subseteq Node
      OBVIOUS
    <3>1. i \in 0..(N-1) /\ S \subseteq g[i] /\ g[i] \subseteq Node
      BY <1>0, <2>2
    <3>2. g[i+1] = Expand(g[i])
      BY <1>2, <3>1
    <3> QED
      BY <3>1, <3>2, ExpandGrows, ExpandTyped
  <2>3. Nat \subseteq P
    <3> HIDE DEF P
    <3> QED
      BY <2>1, <2>2, SetInduction
  <2> QED
    BY <1>0, <2>3
<1>4. ASSUME NEW i \in 0..(N-1), g[i+1] = g[i]
      PROVE  Expand(g[N]) = g[N]
  <2> DEFINE Q == {j \in Nat : j >= i /\ j <= N => g[j] = g[i]}
  <2>1. 0 \in Q
    OBVIOUS
  <2>2. ASSUME NEW j \in Nat, j \in Q PROVE j + 1 \in Q
    <3> SUFFICES ASSUME j + 1 >= i, j + 1 <= N PROVE g[j+1] = g[i]
      OBVIOUS
    <3>1. CASE j + 1 = i
      BY <3>1
    <3>2. CASE j >= i
      <4>1. g[j] = g[i] /\ j \in 0..(N-1)
        BY <1>0, <2>2, <3>2
      <4> QED
        BY <1>2, <1>4, <4>1
    <3> QED
      BY <1>0, <3>1, <3>2
  <2>3. Nat \subseteq Q
    <3> HIDE DEF Q
    <3> QED
      BY <2>1, <2>2, SetInduction
  <2>4. g[N] = g[i]
    BY <1>0, <2>3
  <2> QED
    BY <1>2, <1>4, <2>4
<1>5. ASSUME \A i \in 0..(N-1) : g[i+1] # g[i]
      PROVE  Expand(g[N]) = g[N]
  <2> DEFINE C == {j \in Nat : j <= N => Cardinality(g[j]) >= j /\ (S # {} => Cardinality(g[j]) > j)}
  <2>1. 0 \in C
    <3>1. Cardinality(S) \in Nat /\ (S # {} => Cardinality(S) # 0)
      BY <1>0, FS_Subset, FS_EmptySet, FS_CardinalityType
    <3> QED
      BY <1>2, <3>1
  <2>2. ASSUME NEW j \in Nat, j \in C PROVE j + 1 \in C
    <3> SUFFICES ASSUME j + 1 <= N PROVE Cardinality(g[j+1]) >= j + 1 /\ (S # {} => Cardinality(g[j+1]) > j + 1)
      OBVIOUS
    <3>1. j \in 0..(N-1) /\ j \in 0..N /\ j + 1 \in 0..N
      BY <1>0
    <3>2. g[j] \subseteq g[j+1] /\ g[j] # g[j+1] /\ g[j+1] \subseteq Node
      BY <1>2, <1>3, <1>5, <3>1, ExpandGrows
    <3>3. IsFiniteSet(g[j+1])
      BY <1>0, <3>2, FS_Subset
    <3>4. IsFiniteSet(g[j]) /\ Cardinality(g[j]) <= Cardinality(g[j+1]) /\ Cardinality(g[j]) # Cardinality(g[j+1])
      BY <3>2, <3>3, FS_Subset
    <3>5. Cardinality(g[j]) \in Nat /\ Cardinality(g[j+1]) \in Nat
      BY <3>3, <3>4, FS_CardinalityType
    <3>6. Cardinality(g[j]) >= j /\ (S # {} => Cardinality(g[j]) > j)
      BY <1>0, <2>2, <3>1
    <3> HIDE DEF C
    <3> QED
      BY <3>4, <3>5, <3>6
  <2>3. Nat \subseteq C
    <3> HIDE DEF C
    <3> QED
      BY <2>1, <2>2, SetInduction
  <2>4. Cardinality(g[N]) <= N /\ Cardinality(g[N]) \in Nat
    BY <1>0, <1>3, FS_Subset, FS_CardinalityType DEF N
  <2>6. g[N] = Node
    <3>1. Cardinality(g[N]) = N
      BY <1>0, <2>3, <2>4
    <3> QED
      BY <1>0, <1>3, <3>1, FS_Subset DEF N
  <2>7. Expand(Node) \subseteq Node /\ Node \subseteq Expand(Node)
    BY ExpandTyped, ExpandGrows
  <2> QED
    BY <2>6, <2>7
<1>6. Expand(g[N]) = g[N]
  BY <1>4, <1>5
<1>7. ASSUME NEW k \in g[N] PROVE Range(args[k]) \subseteq g[N]
  BY <1>6 DEF Expand
<1>8. S \subseteq g[N] /\ g[N] \subseteq Node
  BY <1>0, <1>3
<1> QED
  BY <1>1, <1>7, <1>8

\* A live node that nothing outside the heap accounts for sits in an argument
\* slot of a live node.
LEMMA HasParent ==
  ASSUME IInv, NEW x \in Node, Live(x), OwnersOf(root, x) = {},
         ~ (Occ(work, DecOf(x)) > 0), refs[x] # 0
  PROVE  \E p \in Node : Live(p) /\ x \in Range(args[p])
<1>1. args \in [Node -> Seq(Node)] /\ work \in Seq(Pending) /\ refs[x] \in Nat
  BY DEF IInv, TypeOK
<1>2. refs[x] = Cardinality(SlotsOf(args, x)) + Cardinality(OwnersOf(root, x)) + Occ(work, DecOf(x))
  BY DEF IInv, RefCountsExact, Holders
<1>3. Cardinality(OwnersOf(root, x)) = 0 /\ Occ(work, DecOf(x)) = 0
  <2>1. Occ(work, DecOf(x)) \in Nat
    BY <1>1, OccNat
  <2>2. Cardinality({}) = 0
    BY FS_EmptySet
  <2> QED
    BY <2>1, <2>2
<1>4. SlotsOf(args, x) # {}
  <2>1. Cardinality({}) = 0
    BY FS_EmptySet
  <2> QED
    BY <1>2, <1>3, <2>1
<1>5. PICK e \in Node \X (1..MAX_GARBAGE_ARG_LEN) : e[2] \in DOMAIN args[e[1]] /\ args[e[1]][e[2]] = x
  BY <1>4 DEF SlotsOf
<1> DEFINE p == e[1]
<1>6. p \in Node /\ x \in Range(args[p])
  BY <1>5 DEF Range
<1>7. Live(p)
  <2> SUFFICES ASSUME Dead(p) PROVE FALSE
    BY DEF Live
  <2>1. args[p] = <<>>
    BY <1>6, DeadIsolated
  <2> QED
    BY <1>6, <2>1 DEF Range
<1> QED
  BY <1>6, <1>7

\* The nodes below an argument of p are below p.
LEMMA BelowParent ==
  ASSUME args \in [Node -> Seq(Node)], NEW p \in Node, NEW x \in Range(args[p])
  PROVE  /\ Reach(Range(args[x])) \subseteq Reach(Range(args[p]))
         /\ x \in Reach(Range(args[p])) /\ Reach(Range(args[p])) \subseteq Node
<1>1. Range(args[p]) \subseteq Node
  <2>1. args[p] \in Seq(Node)
    OBVIOUS
  <2> QED
    BY <2>1 DEF Range
<1> DEFINE D == Reach(Range(args[p]))
<1>2. x \in D /\ D \subseteq Node /\ \A k \in D : Range(args[k]) \subseteq D
  BY <1>1, ReachClosed
<1>3. Cardinality(Node) \in Nat
  BY FS_CardinalityType, HeapAssumption DEF HeapAssumption
<1> HIDE DEF D
<1>4. Reach(Range(args[x])) \subseteq D
  BY <1>2, <1>3, ReachLeast
<1> QED
  BY <1>2, <1>4 DEF D

\* Otherwise, among the live nodes not accounted for, take one with the most
\* nodes below it; the node that has it as an argument has more below it, or
\* else the two are on a cycle.
LEMMA LeaksOnCycles == ASSUME IInv PROVE OnlyCyclesLeak
<1> DEFINE Start == {x \in Node : \/ OwnersOf(root, x) # {} \/ Occ(work, DecOf(x)) > 0
                                  \/ (Live(x) /\ refs[x] = 0)
                                  \/ OnCycle(x)}
           Lost == {x \in Node : Live(x) /\ x \notin Reach(Start)}
           Below(x) == Reach(Range(args[x]))
           N == Cardinality(Node)
           T == {N - Cardinality(Below(x)) : x \in Lost}
<1> SUFFICES ASSUME Lost # {} PROVE FALSE
  BY DEF OnlyCyclesLeak
<1>1. args \in [Node -> Seq(Node)] /\ IsFiniteSet(Node) /\ N \in Nat
  BY FS_CardinalityType, HeapAssumption DEF HeapAssumption, IInv, TypeOK
<1>2. ASSUME NEW x \in Node
      PROVE  Below(x) \subseteq Node /\ Cardinality(Below(x)) \in Nat /\ N - Cardinality(Below(x)) \in Nat
  <2>1. args[x] \in Seq(Node)
    BY <1>1
  <2>2. Range(args[x]) \subseteq Node
    BY <2>1 DEF Range
  <2>3. Below(x) \subseteq Node
    BY <1>1, <2>2, ReachClosed
  <2>4. Cardinality(Below(x)) \in Nat /\ Cardinality(Below(x)) <= N
    BY <1>1, <2>3, FS_Subset, FS_CardinalityType
  <2> QED
    BY <1>1, <2>3, <2>4
<1>3. /\ Start \subseteq Reach(Start)
      /\ \A k \in Reach(Start) : Range(args[k]) \subseteq Reach(Start)
  <2>1. Start \subseteq Node
    OBVIOUS
  <2> HIDE DEF Start
  <2> QED
    BY <1>1, <2>1, ReachClosed
<1>4. PICK m \in T : \A y \in T : m <= y
  <2>1. T \subseteq Nat /\ T # {}
    BY <1>2
  <2> HIDE DEF T
  <2> QED
    BY <2>1, LeastNatural
<1>5. PICK x \in Lost : m = N - Cardinality(Below(x))
  OBVIOUS
<1>6. x \in Node /\ Live(x) /\ x \notin Start
  BY <1>3
<1>7. PICK p \in Node : Live(p) /\ x \in Range(args[p])
  <2>1. OwnersOf(root, x) = {} /\ ~ (Occ(work, DecOf(x)) > 0) /\ refs[x] # 0
    BY <1>6
  <2> QED
    BY <1>6, <2>1, HasParent
<1>8. p \in Lost
  BY <1>3, <1>7
<1>9. N - Cardinality(Below(x)) <= N - Cardinality(Below(p))
  BY <1>4, <1>5, <1>8
<1>10. Cardinality(Below(p)) <= Cardinality(Below(x))
  <2>1. Cardinality(Below(p)) \in Nat /\ Cardinality(Below(x)) \in Nat
    BY <1>2, <1>6, <1>7
  <2> HIDE DEF N, Below
  <2> QED
    BY <1>1, <1>9, <2>1
<1>11. Below(x) \subseteq Below(p) /\ x \in Below(p) /\ Below(p) \subseteq Node
  BY <1>1, <1>7, BelowParent
<1>12. x \notin Below(x)
  BY <1>6 DEF OnCycle
<1>13. Cardinality(Below(x)) < Cardinality(Below(p))
  <2> HIDE DEF Below
  <2>1. IsFiniteSet(Below(p))
    BY <1>1, <1>11, FS_Subset
  <2>2. /\ Cardinality(Below(x)) <= Cardinality(Below(p))
        /\ Cardinality(Below(x)) = Cardinality(Below(p)) => Below(x) = Below(p)
        /\ IsFiniteSet(Below(x))
    BY <1>11, <2>1, FS_Subset
  <2>3. Cardinality(Below(x)) \in Nat /\ Cardinality(Below(p)) \in Nat
    BY <2>1, <2>2, FS_CardinalityType
  <2> QED
    BY <1>11, <1>12, <2>2, <2>3
<1> QED
  <2>1. Cardinality(Below(p)) \in Nat /\ Cardinality(Below(x)) \in Nat
    BY <1>2, <1>6, <1>7
  <2> HIDE DEF Below
  <2> QED
    BY <1>10, <1>13, <2>1

\* A live node that nothing accounts for is below a cycle of terms.
THEOREM OnlyCyclesLeakHolds == Spec => []OnlyCyclesLeak
<1>1. IInv => OnlyCyclesLeak
  BY LeaksOnCycles
<1> QED
  BY <1>1, Inductive, PTL

=============================================================================
