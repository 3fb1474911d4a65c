---------------------------- MODULE KHeapProofs ----------------------------
(***************************************************************************)
(* Proofs about KHeap, for every set of nodes and every setting: reference *)
(* counts are exact, a reclaimed node is reclaimed once and referenced by  *)
(* nothing, and argument windows stay inside their arrays.  At the end,    *)
(* lemmas for the programs that run on the heap.                           *)
(***************************************************************************)
EXTENDS KHeapLemmas

\* The inductive invariant.  Exact counts need a reclaimed node to be counted
\* nowhere (it is about to be handed out with refs = 0), and that needs exact
\* counts; slots are counted inside the array bounds.
IInv == TypeOK /\ WindowInBounds /\ RefCountsExact /\ ReclaimedOnce

-----------------------------------------------------------------------------
(* Consequences of the invariant.                                          *)

\* The arguments of a node are a sequence no longer than its array.
LEMMA Window ==
  ASSUME TypeOK, WindowInBounds, NEW k \in Node
  PROVE  /\ args[k] \in Seq(Node) /\ Len(args[k]) \in Nat
         /\ Len(args[k]) <= MAX_GARBAGE_ARG_LEN
         /\ pos_first[k] \in Nat
<1>1. args[k] \in Seq(Node) /\ pos_first[k] \in 0..MAX_GARBAGE_ARG_LEN
  BY DEF TypeOK
<1>2. Len(args[k]) \in Nat /\ pos_first[k] + Len(args[k]) <= MAX_GARBAGE_ARG_LEN
  BY <1>1, LenProperties DEF WindowInBounds
<1> QED
  BY <1>1, <1>2, HeapAssumption DEF HeapAssumption

\* A dead node is no node's argument and no variable owns it.
LEMMA DeadIsolated ==
  ASSUME IInv, NEW x \in Node, Dead(x), NEW k \in Node
  PROVE  /\ refs[x] = 0 /\ args[x] = <<>>
         /\ Occ(args[k], x) = 0
<1>1. refs[x] = 0 /\ args[x] = <<>>
  BY DEF IInv, ReclaimedOnce
<1>2. args \in [Node -> Seq(Node)] /\ root \in [Root -> Node \cup {NoNode}] /\ work \in Seq(Pending)
  BY DEF IInv, TypeOK
<1>3. Len(args[k]) <= MAX_GARBAGE_ARG_LEN
  BY Window DEF IInv
<1>4. Cardinality(SlotsOf(args, x)) \in Nat
  BY <1>2, <1>3, SlotsAt
<1>5. IsFiniteSet(OwnersOf(root, x))
  BY HeapAssumption, FS_Subset DEF HeapAssumption, OwnersOf
<1>6. Cardinality(OwnersOf(root, x)) \in Nat
  BY <1>5, FS_CardinalityType
<1>7. Occ(work, DecOf(x)) \in Nat
  BY <1>2, OccNat
<1>8. 0 = Cardinality(SlotsOf(args, x)) + Cardinality(OwnersOf(root, x)) + Occ(work, DecOf(x))
  BY <1>1 DEF IInv, RefCountsExact, Holders
<1>9. Cardinality(SlotsOf(args, x)) = 0
  BY <1>4, <1>6, <1>7, <1>8
<1> QED
  BY <1>1, <1>2, <1>3, <1>9, NoSlots

\* A dead node occurs in no list of live nodes.
LEMMA DeadNotListed ==
  ASSUME NEW s \in Seq(Node), \A y \in Range(s) : Live(y), NEW x, Dead(x)
  PROVE  Occ(s, x) = 0
  BY OccNat DEF Live

\* Between calls a node is on the free list at most once.
LEMMA PoolOnce ==
  ASSUME IInv, work = <<>>, NEW x \in Node
  PROVE  /\ Occ(garbage_k, x) = IF x \in Range(garbage_k) THEN 1 ELSE 0
         /\ x \in Range(garbage_k) => x \in mallocd
         /\ Occ(work, AuxOf(x)) = 0 /\ Occ(work, DecOf(x)) = 0
         /\ AuxOf(x) \notin Range(work)
<1>1. Occ(work, AuxOf(x)) = 0 /\ Occ(work, DecOf(x)) = 0 /\ AuxOf(x) \notin Range(work)
  BY OccEmpty DEF Range
<1>2. garbage_k \in Seq(Node)
  BY DEF IInv, TypeOK
<1>3. Occ(garbage_k, x) \in Nat /\ (Occ(garbage_k, x) = 0 <=> x \notin Range(garbage_k))
  BY <1>2, OccNat
<1>4. x \in Range(garbage_k) => Occ(garbage_k, x) + 0 = IF x \in mallocd THEN 1 ELSE 0
  BY <1>1 DEF IInv, ReclaimedOnce, Dead
<1> QED
  BY <1>1, <1>3, <1>4

\* Popping takes the last element off.
LEMMA PopSplit ==
  ASSUME NEW S, NEW g \in Seq(S), g # <<>>
  PROVE  Popped(g) \in Seq(S) /\ g = Append(Popped(g), g[Len(g)])
<1>1. PICK q \in Seq(S), e \in S : g = Append(q, e)
  BY SequenceEmptyOrAppend
<1>2. Len(q) \in Nat /\ Len(g) = Len(q) + 1 /\ g[Len(g)] = e /\ \A i \in 1..Len(q) : g[i] = q[i]
  BY <1>1, AppendProperties, LenProperties
<1>3. \A i \in 1..Len(q) : g[i] \in S
  BY <1>2, ElementOfSeq
<1>4. /\ SubSeq(g, 1, Len(q)) \in Seq(S)
      /\ Len(SubSeq(g, 1, Len(q))) = Len(q)
      /\ \A i \in 1..Len(q) : SubSeq(g, 1, Len(q))[i] = g[i]
  BY <1>2, <1>3, SubSeqProperties
<1>5. SubSeq(g, 1, Len(q)) = q
  BY <1>2, <1>4, SeqEqual
<1>6. Popped(g) = SubSeq(g, 1, Len(q))
  BY <1>2 DEF Popped
<1> QED
  BY <1>1, <1>2, <1>5, <1>6

\* What _k_acquire takes is on no free list and, if it came from the list, is
\* now off it.
LEMMA Acquire ==
  ASSUME NEW g \in Seq(Node), NEW m \in SUBSET Node, NEW n \in Node,
         CanAcquire(g, m, n),
         \A x \in Node : Occ(g, x) = IF x \in Range(g) THEN 1 ELSE 0,
         \A x \in Node : x \in Range(g) => x \in m
  PROVE  /\ Popped(g) \in Seq(Node)
         /\ n \in Range(g) \/ n \notin m
         /\ \A x \in Node : /\ Occ(Popped(g), x) = IF x = n THEN 0 ELSE Occ(g, x)
                            /\ x \in Range(Popped(g)) <=> x \in Range(g) /\ x # n
                            /\ Occ(Popped(g), x) = IF x \in Range(Popped(g)) THEN 1 ELSE 0
<1>1. CASE g = <<>>
  <2>1. Popped(g) = g /\ n \notin m /\ Range(g) = {}
    BY <1>1 DEF CanAcquire, Popped, Range
  <2> QED
    BY <1>1, <2>1, OccEmpty
<1>2. CASE g # <<>>
  <2>1. Popped(g) \in Seq(Node) /\ g = Append(Popped(g), n)
    BY <1>2, PopSplit DEF CanAcquire
  <2>2. n \in Range(g)
    <3>1. Len(g) \in 1..Len(g) /\ n = g[Len(g)] /\ DOMAIN g = 1..Len(g)
      BY <1>2, EmptySeq, LenProperties DEF CanAcquire
    <3> QED
      BY <3>1 DEF Range
  <2>3. ASSUME NEW x \in Node
        PROVE  /\ Occ(Popped(g), x) = IF x = n THEN 0 ELSE Occ(g, x)
               /\ x \in Range(Popped(g)) <=> x \in Range(g) /\ x # n
               /\ Occ(Popped(g), x) = IF x \in Range(Popped(g)) THEN 1 ELSE 0
    <3>1. Occ(g, x) = Occ(Popped(g), x) + IF x = n THEN 1 ELSE 0
      <4>1. Occ(Append(Popped(g), n), x) = Occ(Popped(g), x) + IF x = n THEN 1 ELSE 0
        BY <2>1, OccAppend
      <4> QED
        BY <2>1, <4>1, Zenon
    <3>2. Occ(Popped(g), x) \in Nat /\ (Occ(Popped(g), x) = 0 <=> x \notin Range(Popped(g)))
      BY <2>1, OccNat
    <3>3. Occ(g, x) = IF x \in Range(g) THEN 1 ELSE 0
      OBVIOUS
    <3> QED
      BY <2>2, <3>1, <3>2, <3>3
  <2> QED
    BY <2>1, <2>2, <2>3
<1> QED
  BY <1>1, <1>2

\* How the number of holders of x changes when the arguments of one node and
\* the calls left to do are written.
LEMMA HoldersAfterWrite ==
  ASSUME IInv, NEW k \in Node, NEW s \in Seq(Node), Len(s) <= MAX_GARBAGE_ARG_LEN,
         args' = [args EXCEPT ![k] = s], root' = root, work' \in Seq(Pending),
         NEW x \in Node
  PROVE  /\ Holders(x)' \in Nat /\ refs[x] \in Nat
         /\ Occ(args[k], x) \in Nat /\ Occ(s, x) \in Nat
         /\ Occ(work, DecOf(x)) \in Nat /\ Occ(work', DecOf(x)) \in Nat
         /\ Holders(x)' + Occ(args[k], x) + Occ(work, DecOf(x))
              = refs[x] + Occ(s, x) + Occ(work', DecOf(x))
<1> DEFINE a  == Cardinality(SlotsOf(args, x))
           a2 == Cardinality(SlotsOf(args', x))
           o  == Cardinality(OwnersOf(root, x))
           w  == Occ(work, DecOf(x))
           w2 == Occ(work', DecOf(x))
           u  == Occ(args[k], x)
           v  == Occ(s, x)
<1>1. /\ args \in [Node -> Seq(Node)] /\ root \in [Root -> Node \cup {NoNode}]
      /\ work \in Seq(Pending) /\ refs[x] \in Nat
  BY DEF IInv, TypeOK
<1>2. Len(args[k]) <= MAX_GARBAGE_ARG_LEN
  BY Window DEF IInv
<1>3. a \in Nat /\ a2 \in Nat /\ u \in Nat /\ v \in Nat /\ a2 + u = a + v
  BY <1>1, <1>2, SlotsWrite
<1>4. IsFiniteSet(OwnersOf(root, x))
  BY HeapAssumption, FS_Subset DEF HeapAssumption, OwnersOf
<1>5. o \in Nat
  BY <1>4, FS_CardinalityType
<1>6. w \in Nat /\ w2 \in Nat
  BY <1>1, OccNat
<1>7. refs[x] = a + o + w
  BY DEF IInv, RefCountsExact, Holders
<1>8. Holders(x)' = a2 + o + w2
  BY DEF Holders
<1> HIDE DEF a, a2, o, w, w2, u, v
<1>9. a2 + o + w2 \in Nat /\ (a2 + o + w2) + u + w = (a + o + w) + v + w2
  BY <1>3, <1>5, <1>6
<1>10. Holders(x)' \in Nat /\ Holders(x)' + u + w = refs[x] + v + w2
  BY <1>7, <1>8, <1>9
<1> QED
  BY <1>1, <1>3, <1>6, <1>10 DEF u, v, w, w2

\* A step that writes the arguments s of one node k keeps the invariant when
\* it accounts for the slots and the pending Decs, and reclaims once.
LEMMA WriteStep ==
  ASSUME IInv, NEW k \in Node, NEW s \in Seq(Node),
         args' = [args EXCEPT ![k] = s], root' = root, work' \in Seq(Pending),
         pos_first' \in [Node -> 0..MAX_GARBAGE_ARG_LEN],
         permanent' \in [Node -> BOOLEAN],
         garbage_k' \in Seq(Node), mallocd' \in SUBSET Node, panicked' \in Reasons,
         refs' \in [Node -> Int],
         pos_first'[k] + Len(s) <= MAX_GARBAGE_ARG_LEN,
         \A x \in Node \ {k} : pos_first'[x] = pos_first[x] \/ args[x] = <<>>,
         \A x \in Node : refs'[x] + Occ(args[k], x) + Occ(work, DecOf(x))
                           = refs[x] + Occ(s, x) + Occ(work', DecOf(x)),
         ReclaimedOnce'
  PROVE  IInv'
<1>1. args \in [Node -> Seq(Node)] /\ args' \in [Node -> Seq(Node)]
  BY DEF IInv, TypeOK
<1>2. Len(s) \in Nat /\ pos_first'[k] \in 0..MAX_GARBAGE_ARG_LEN /\ MAX_GARBAGE_ARG_LEN \in Nat
  BY LenProperties, HeapAssumption DEF HeapAssumption
<1>3. Len(s) <= MAX_GARBAGE_ARG_LEN
  BY <1>2
<1>4. ASSUME NEW x \in Node
      PROVE  refs'[x] = Holders(x)' /\ Holders(x)' \in Nat
  <2> DEFINE h == Holders(x)'
             u == Occ(args[k], x)
             v == Occ(s, x)
             w == Occ(work, DecOf(x))
             w2 == Occ(work', DecOf(x))
  <2>1. /\ h \in Nat /\ refs[x] \in Nat /\ u \in Nat /\ v \in Nat /\ w \in Nat /\ w2 \in Nat
        /\ h + u + w = refs[x] + v + w2
    BY <1>3, HoldersAfterWrite
  <2>2. refs'[x] \in Int /\ refs'[x] + u + w = refs[x] + v + w2
    OBVIOUS
  <2> HIDE DEF h, u, v, w, w2
  <2>3. refs'[x] = h
    BY <2>1, <2>2
  <2> QED
    BY <2>1, <2>3 DEF h
<1>5. refs' \in [Node -> Nat]
  BY <1>4
<1>6. TypeOK'
  BY <1>1, <1>5 DEF TypeOK, IInv
<1>7. RefCountsExact'
  BY <1>4 DEF RefCountsExact
<1>8. WindowInBounds'
  <2> SUFFICES ASSUME NEW x \in Node
               PROVE  pos_first'[x] + Len(args'[x]) <= MAX_GARBAGE_ARG_LEN
    BY DEF WindowInBounds
  <2>1. CASE x = k
    BY <1>1, <2>1
  <2>2. CASE x # k
    <3>1. args'[x] = args[x]
      BY <1>1, <2>2
    <3>2. pos_first[x] + Len(args[x]) <= MAX_GARBAGE_ARG_LEN
      BY DEF IInv, WindowInBounds
    <3>3. CASE pos_first'[x] = pos_first[x]
      BY <3>1, <3>2, <3>3
    <3>4. CASE args[x] = <<>>
      <4>1. Len(args'[x]) = 0 /\ pos_first'[x] \in 0..MAX_GARBAGE_ARG_LEN
        BY <3>1, <3>4
      <4> QED
        BY <4>1, <1>2
    <3> QED
      BY <2>2, <3>3, <3>4
  <2> QED
    BY <2>1, <2>2
<1> QED
  BY <1>6, <1>7, <1>8 DEF IInv

\* Between calls: acquiring the nodes N and leaving the nodes F to be
\* reclaimed keeps every reclaimed node reclaimed once.
LEMMA ReclaimStep ==
  ASSUME IInv, work = <<>>, NEW N \in SUBSET Node, NEW F \in SUBSET Node,
         garbage_k' \in Seq(Node), work' \in Seq(Pending),
         \A x \in F : x \in N \/ Live(x),
         \A x \in Node : Occ(work', AuxOf(x)) = IF x \in F THEN 1 ELSE 0,
         \A x \in Node : x \in mallocd' <=> x \in mallocd \/ x \in N,
         \A x \in Node : Occ(garbage_k', x) = IF x \in N THEN 0 ELSE Occ(garbage_k, x),
         \A x \in Node : (Dead(x) /\ x \notin N) \/ x \in F => refs'[x] = 0 /\ args'[x] = <<>>
  PROVE  ReclaimedOnce'
<1> SUFFICES ASSUME NEW x \in Node, Dead(x)'
             PROVE  /\ refs'[x] = 0 /\ args'[x] = <<>>
                    /\ Occ(garbage_k', x) + Occ(work', AuxOf(x)) = IF x \in mallocd' THEN 1 ELSE 0
  BY DEF ReclaimedOnce
<1>1. x \notin mallocd' \/ x \in Range(garbage_k') \/ AuxOf(x) \in Range(work')
  BY DEF Dead
<1>2. /\ Occ(garbage_k', x) = 0 <=> x \notin Range(garbage_k')
      /\ Occ(work', AuxOf(x)) = 0 <=> AuxOf(x) \notin Range(work')
  BY OccNat
<1>3. /\ Occ(garbage_k, x) = IF x \in Range(garbage_k) THEN 1 ELSE 0
      /\ x \in Range(garbage_k) => x \in mallocd
  BY PoolOnce
<1>4. CASE x \in F
  <2>1. x \in mallocd'
    BY <1>4 DEF Live, Dead
  <2>2. Occ(garbage_k', x) = 0
    BY <1>3, <1>4 DEF Live, Dead
  <2> QED
    BY <1>4, <2>1, <2>2
<1>5. CASE x \notin F
  <2>1. Occ(work', AuxOf(x)) = 0
    BY <1>5
  <2>2. x \notin N
    BY <1>1, <1>2, <2>1
  <2>3. Dead(x) /\ Occ(garbage_k', x) = Occ(garbage_k, x) /\ (x \in mallocd' <=> x \in mallocd)
    BY <1>1, <1>2, <1>3, <2>1, <2>2 DEF Dead
  <2>4. Occ(garbage_k', x) = IF x \in mallocd' THEN 1 ELSE 0
    BY <1>1, <1>2, <1>3, <2>1, <2>3
  <2> QED
    BY <2>1, <2>2, <2>3, <2>4
<1> QED
  BY <1>4, <1>5

\* Inc and Dec of every element of a sequence.
LEMMA BumpDrop ==
  ASSUME NEW r \in [Node -> Int], NEW s \in Seq(Node)
  PROVE  /\ Bump(r, s) \in [Node -> Int] /\ Drop(r, s) \in [Node -> Int]
         /\ \A x \in Node : /\ Occ(s, x) \in Nat
                            /\ Bump(r, s)[x] = r[x] + Occ(s, x)
                            /\ Drop(r, s)[x] = r[x] - Occ(s, x)
<1>1. \A x \in Node : Occ(s, x) \in Nat
  BY OccNat
<1> QED
  BY <1>1 DEF Bump, Drop

\* What _k_acquire returns between calls.
LEMMA AcquireStep ==
  ASSUME IInv, work = <<>>, NEW n \in Node, CanAcquire(garbage_k, mallocd, n)
  PROVE  /\ Dead(n) /\ refs[n] = 0 /\ args[n] = <<>>
         /\ Popped(garbage_k) \in Seq(Node) /\ mallocd \cup {n} \in SUBSET Node
         /\ \A x \in Node : Occ(Popped(garbage_k), x) = IF x = n THEN 0 ELSE Occ(garbage_k, x)
<1>1. garbage_k \in Seq(Node) /\ mallocd \in SUBSET Node
  BY DEF IInv, TypeOK
<1>2. \A x \in Node : /\ Occ(garbage_k, x) = IF x \in Range(garbage_k) THEN 1 ELSE 0
                      /\ x \in Range(garbage_k) => x \in mallocd
  BY PoolOnce
<1>3. /\ Popped(garbage_k) \in Seq(Node)
      /\ n \in Range(garbage_k) \/ n \notin mallocd
      /\ \A x \in Node : Occ(Popped(garbage_k), x) = IF x = n THEN 0 ELSE Occ(garbage_k, x)
  BY <1>1, <1>2, Acquire
<1>4. Dead(n)
  BY <1>3 DEF Dead
<1> QED
  BY <1>1, <1>3, <1>4, DeadIsolated

\* Filling an acquired node n with the arguments t.
LEMMA FillStep ==
  ASSUME IInv, work = <<>>, NEW n \in Node, CanAcquire(garbage_k, mallocd, n),
         NEW t \in Seq(Node), NEW p \in Nat, p + Len(t) <= MAX_GARBAGE_ARG_LEN,
         garbage_k' = Popped(garbage_k), mallocd' = mallocd \cup {n},
         args' = [args EXCEPT ![n] = t], pos_first' = [pos_first EXCEPT ![n] = p],
         permanent' = [permanent EXCEPT ![n] = FALSE],
         root' = root, panicked' = panicked, work' \in Seq(Pending),
         \A x \in Node : Occ(work', AuxOf(x)) = 0,
         \A x \in Node : Dead(x) => Occ(t, x) = 0 /\ Occ(work', DecOf(x)) = 0,
         refs' \in [Node -> Int], refs'[n] = 0,
         \A x \in Node \ {n} : refs'[x] = refs[x] + Occ(t, x) + Occ(work', DecOf(x))
  PROVE  IInv'
<1>1. /\ Dead(n) /\ refs[n] = 0 /\ args[n] = <<>>
      /\ Popped(garbage_k) \in Seq(Node) /\ mallocd \cup {n} \in SUBSET Node
      /\ \A x \in Node : Occ(Popped(garbage_k), x) = IF x = n THEN 0 ELSE Occ(garbage_k, x)
  BY AcquireStep
<1>2. TypeOK
  BY DEF IInv
<1>3. Len(t) \in Nat /\ MAX_GARBAGE_ARG_LEN \in Nat
  BY LenProperties, HeapAssumption DEF HeapAssumption
<1>4. /\ pos_first' \in [Node -> 0..MAX_GARBAGE_ARG_LEN] /\ permanent' \in [Node -> BOOLEAN]
      /\ panicked' \in Reasons /\ pos_first'[n] = p
      /\ \A x \in Node \ {n} : pos_first'[x] = pos_first[x]
  BY <1>2, <1>3 DEF TypeOK
<1>5. ASSUME NEW x \in Node
      PROVE  refs'[x] + Occ(args[n], x) + Occ(work, DecOf(x))
               = refs[x] + Occ(t, x) + Occ(work', DecOf(x))
  <2>1. Occ(args[n], x) = 0 /\ Occ(work, DecOf(x)) = 0
    BY <1>1, OccEmpty
  <2>2. refs'[x] = refs[x] + Occ(t, x) + Occ(work', DecOf(x))
    <3>1. CASE x = n
      BY <1>1, <3>1
    <3>2. CASE x # n
      BY <3>2
    <3> QED
      BY <3>1, <3>2
  <2>3. refs'[x] \in Int
    OBVIOUS
  <2> QED
    BY <2>1, <2>2, <2>3
<1>6. ReclaimedOnce'
  <2>1. ASSUME NEW x \in Node, Dead(x), x # n
        PROVE  refs'[x] = 0 /\ args'[x] = <<>>
    <3>1. refs[x] = 0 /\ args[x] = <<>> /\ Occ(t, x) = 0 /\ Occ(work', DecOf(x)) = 0
      BY <2>1, DeadIsolated
    <3>2. refs'[x] = 0
      BY <2>1, <3>1
    <3>3. args'[x] = args[x]
      BY <1>2, <2>1 DEF TypeOK
    <3> QED
      BY <3>1, <3>2, <3>3
  <2>2. garbage_k' \in Seq(Node) /\ {n} \in SUBSET Node /\ {} \in SUBSET Node
    BY <1>1
  <2>3. \A x \in Node : x \in mallocd' <=> x \in mallocd \/ x \in {n}
    OBVIOUS
  <2>4. \A x \in Node : Occ(garbage_k', x) = IF x \in {n} THEN 0 ELSE Occ(garbage_k, x)
    BY <1>1
  <2>5. \A x \in Node : Occ(work', AuxOf(x)) = IF x \in {} THEN 1 ELSE 0
    OBVIOUS
  <2>6. \A x \in Node : (Dead(x) /\ x \notin {n}) \/ x \in {} => refs'[x] = 0 /\ args'[x] = <<>>
    BY <2>1
  <2> QED
    BY <2>2, <2>3, <2>4, <2>5, <2>6, ReclaimStep
<1> QED
  BY <1>1, <1>4, <1>5, <1>6, WriteStep

\* Editing a live node k in place.
LEMMA EditStep ==
  ASSUME IInv, work = <<>>, NEW k \in Node, Live(k),
         NEW t \in Seq(Node), NEW p \in Nat, p + Len(t) <= MAX_GARBAGE_ARG_LEN,
         args' = [args EXCEPT ![k] = t], pos_first' = [pos_first EXCEPT ![k] = p],
         UNCHANGED <<permanent, garbage_k, mallocd, root, panicked>>,
         work' \in Seq(Pending), \A x \in Node : Occ(work', AuxOf(x)) = 0,
         refs' \in [Node -> Int],
         \A x \in Node : Dead(x) => refs'[x] = 0,
         \A x \in Node : refs'[x] + Occ(args[k], x) = refs[x] + Occ(t, x) + Occ(work', DecOf(x))
  PROVE  IInv'
<1>1. TypeOK
  BY DEF IInv
<1>2. Len(t) \in Nat /\ MAX_GARBAGE_ARG_LEN \in Nat
  BY LenProperties, HeapAssumption DEF HeapAssumption
<1>3. /\ pos_first' \in [Node -> 0..MAX_GARBAGE_ARG_LEN] /\ permanent' \in [Node -> BOOLEAN]
      /\ panicked' \in Reasons /\ garbage_k' \in Seq(Node) /\ mallocd' \in SUBSET Node
      /\ pos_first'[k] = p /\ \A x \in Node \ {k} : pos_first'[x] = pos_first[x]
  BY <1>1, <1>2 DEF TypeOK
<1>4. ASSUME NEW x \in Node
      PROVE  refs'[x] + Occ(args[k], x) + Occ(work, DecOf(x))
               = refs[x] + Occ(t, x) + Occ(work', DecOf(x))
  <2>1. Occ(work, DecOf(x)) = 0 /\ refs'[x] \in Int
    BY OccEmpty
  <2>2. Occ(args[k], x) \in Nat
    BY <1>1, OccNat DEF TypeOK
  <2>3. refs'[x] + Occ(args[k], x) = refs[x] + Occ(t, x) + Occ(work', DecOf(x))
    OBVIOUS
  <2>4. refs'[x] + Occ(args[k], x) + 0 = refs'[x] + Occ(args[k], x)
    BY <2>1, <2>2
  <2> QED
    BY <2>1, <2>3, <2>4, Zenon
<1>5. ReclaimedOnce'
  <2>1. ASSUME NEW x \in Node, Dead(x)
        PROVE  refs'[x] = 0 /\ args'[x] = <<>>
    <3>1. x # k /\ args[x] = <<>>
      BY <2>1, DeadIsolated DEF Live
    <3> QED
      BY <1>1, <2>1, <3>1 DEF TypeOK
  <2> DEFINE none == {}
  <2>2. \A x \in Node : x \in mallocd' <=> x \in mallocd \/ x \in none
    OBVIOUS
  <2>3. \A x \in Node : Occ(garbage_k', x) = IF x \in none THEN 0 ELSE Occ(garbage_k, x)
    OBVIOUS
  <2>4. \A x \in Node : Occ(work', AuxOf(x)) = IF x \in none THEN 1 ELSE 0
    OBVIOUS
  <2>5. none \in SUBSET Node /\ \A x \in none : x \in none \/ Live(x)
    OBVIOUS
  <2>6. \A x \in Node : (Dead(x) /\ x \notin none) \/ x \in none => refs'[x] = 0 /\ args'[x] = <<>>
    BY <2>1
  <2> HIDE DEF none
  <2> QED
    BY <1>3, <2>2, <2>3, <2>4, <2>5, <2>6, ReclaimStep
<1>6. root' = root
  OBVIOUS
<1> QED
  BY <1>2, <1>3, <1>4, <1>5, <1>6, WriteStep

-----------------------------------------------------------------------------
(* One lemma for each operation.                                           *)

\* A step that changes nothing of the heap keeps the invariant.
LEMMA Unchanged ==
  ASSUME IInv, panicked' \in Reasons,
         UNCHANGED <<refs, args, pos_first, permanent, garbage_k, mallocd, root, work>>
  PROVE  IInv'
  BY DEF IInv, TypeOK, WindowInBounds, RefCountsExact, Holders, ReclaimedOnce, Dead

\* Stopping the program keeps the invariant.
LEMMA StopInv == ASSUME IInv, NEW why \in Reasons, Stop(why) PROVE IInv'
  BY Unchanged DEF Stop

\* A stretch of a sequence is a sequence with no more occurrences.
LEMMA Stretch ==
  ASSUME NEW s \in Seq(Node), NEW p \in 0..Len(s), NEW q \in p..Len(s)
  PROVE  /\ SubSeq(s, p+1, q) \in Seq(Node) /\ Len(SubSeq(s, p+1, q)) = q - p
         /\ \A x : Occ(s, x) = 0 => Occ(SubSeq(s, p+1, q), x) = 0
<1>1. SubSeq(s, p+1, q) \in Seq(Node) /\ Len(SubSeq(s, p+1, q)) = q - p
  BY OccSplit
<1>2. ASSUME NEW x, Occ(s, x) = 0 PROVE Occ(SubSeq(s, p+1, q), x) = 0
  <2> DEFINE a == SubSeq(s, 1, p)
             b == SubSeq(s, p+1, q)
             c == SubSeq(s, q+1, Len(s))
  <2>1. a \in Seq(Node) /\ b \in Seq(Node) /\ c \in Seq(Node) /\ Occ(s, x) = Occ(a, x) + Occ(b, x) + Occ(c, x)
    BY OccSplit
  <2> HIDE DEF a, b, c
  <2>2. Occ(a, x) \in Nat /\ Occ(b, x) \in Nat /\ Occ(c, x) \in Nat
    BY <2>1, OccNat
  <2>3. Occ(b, x) = 0
    BY <1>2, <2>1, <2>2
  <2> QED
    BY <2>3 DEF b
<1> QED
  BY <1>1, <1>2

\* k_new and its relatives.
LEMMA NewInv ==
  ASSUME IInv, NEW s \in ArgLists(MAX_GARBAGE_ARG_LEN + 1), K_new(s)
  PROVE  IInv'
<1>1. s \in Seq(Node)
  BY HeapAssumption DEF HeapAssumption, ArgLists
<1>2. work = <<>> /\ panicked = "no" /\ \A x \in Range(s) : Live(x)
  BY DEF K_new, Idle
<1>3. CASE Stop("args length") \/ Stop("outstanding") \/ Stop("assert")
  BY <1>3, StopInv DEF Reasons
<1>4. CASE /\ Fits(Len(s))
           /\ \E n \in Node :
                /\ CanAcquire(garbage_k, mallocd, n)
                /\ garbage_k' = Popped(garbage_k)
                /\ mallocd'   = mallocd \cup {n}
                /\ refs'      = [Bump(refs, s) EXCEPT ![n] = 0]
                /\ args'      = [args EXCEPT ![n] = s]
                /\ pos_first' = [pos_first EXCEPT ![n] = POS_FIRST]
                /\ permanent' = [permanent EXCEPT ![n] = FALSE]
                /\ UNCHANGED <<root, work, panicked>>
  <2> PICK n \in Node :
        /\ CanAcquire(garbage_k, mallocd, n)
        /\ garbage_k' = Popped(garbage_k)
        /\ mallocd'   = mallocd \cup {n}
        /\ refs'      = [Bump(refs, s) EXCEPT ![n] = 0]
        /\ args'      = [args EXCEPT ![n] = s]
        /\ pos_first' = [pos_first EXCEPT ![n] = POS_FIRST]
        /\ permanent' = [permanent EXCEPT ![n] = FALSE]
        /\ UNCHANGED <<root, work, panicked>>
    BY <1>4
  <2>1. POS_FIRST \in Nat /\ POS_FIRST + Len(s) <= MAX_GARBAGE_ARG_LEN
    BY <1>4, HeapAssumption DEF HeapAssumption, Fits
  <2>2. refs \in [Node -> Int]
    BY DEF IInv, TypeOK
  <2>3. /\ Bump(refs, s) \in [Node -> Int]
        /\ \A x \in Node : Occ(s, x) \in Nat /\ Bump(refs, s)[x] = refs[x] + Occ(s, x)
    BY <1>1, <2>2, BumpDrop
  <2>4. work' = <<>> /\ work' \in Seq(Pending)
    BY <1>2
  <2>5. \A x \in Node : Occ(work', AuxOf(x)) = 0 /\ Occ(work', DecOf(x)) = 0
    BY <2>4, OccEmpty
  <2>6. refs' \in [Node -> Int] /\ refs'[n] = 0
    BY <2>3
  <2>7. ASSUME NEW x \in Node \ {n}
        PROVE  refs'[x] = refs[x] + Occ(s, x) + Occ(work', DecOf(x))
    <3>1. refs'[x] = refs[x] + Occ(s, x) /\ refs[x] \in Int /\ Occ(s, x) \in Nat
      BY <2>2, <2>3
    <3>2. Occ(work', DecOf(x)) = 0
      BY <2>5
    <3> QED
      BY <3>1, <3>2
  <2>8. \A x \in Node : Dead(x) => Occ(s, x) = 0 /\ Occ(work', DecOf(x)) = 0
    BY <1>1, <1>2, <2>5, DeadNotListed
  <2>9. root' = root /\ panicked' = panicked
    OBVIOUS
  <2> QED
    BY <1>1, <1>2, <2>1, <2>4, <2>5, <2>6, <2>7, <2>8, <2>9, FillStep
<1> QED
  BY <1>3, <1>4 DEF K_new

\* k_make_permanent.
LEMMA PermanentInv == ASSUME IInv, NEW k \in Node, K_make_permanent(k) PROVE IInv'
  BY DEF IInv, TypeOK, WindowInBounds, RefCountsExact, Holders, ReclaimedOnce, Dead, K_make_permanent

\* The copy n that keeps arguments left+1 .. right of k.
CopiedStretch(n, k, left, right) ==
  LET kept == SubSeq(args[k], left + 1, right) IN
  /\ CanAcquire(garbage_k, mallocd, n)
  /\ garbage_k' = Popped(garbage_k)
  /\ mallocd'   = mallocd \cup {n}
  /\ refs'      = [Bump(refs, kept) EXCEPT ![n] = 0]
  /\ IntoCopy(n, kept, POS_FIRST + left)
  /\ UNCHANGED <<root, work, panicked>>

\* k_without_first_n_arg, and updateTrimArgs of a shared node.
LEMMA StretchStep ==
  ASSUME IInv, work = <<>>, NEW k \in Node, NEW left \in Nat, NEW right \in Nat,
         left <= right, right <= Len(args[k]), Fits(Len(args[k])),
         NEW n \in Node, CopiedStretch(n, k, left, right)
  PROVE  IInv'
<1> DEFINE kept == SubSeq(args[k], left + 1, right)
<1>1. args[k] \in Seq(Node) /\ Len(args[k]) \in Nat /\ TypeOK /\ refs \in [Node -> Int]
  BY Window DEF IInv, TypeOK
<1>2. /\ kept \in Seq(Node) /\ Len(kept) = right - left
      /\ \A x : Occ(args[k], x) = 0 => Occ(kept, x) = 0
  <2>1. left \in 0..Len(args[k]) /\ right \in left..Len(args[k])
    BY <1>1
  <2> QED
    BY <1>1, <2>1, Stretch
<1> HIDE DEF kept
<1>3. POS_FIRST + left \in Nat /\ (POS_FIRST + left) + Len(kept) <= MAX_GARBAGE_ARG_LEN
  <2> DEFINE l == Len(args[k])
             m == Len(kept)
  <2>1. /\ POS_FIRST \in Nat /\ MAX_GARBAGE_ARG_LEN \in Nat
        /\ POS_FIRST + l <= MAX_GARBAGE_ARG_LEN
        /\ l \in Nat /\ m = right - left /\ right <= l
    BY <1>1, <1>2, HeapAssumption DEF HeapAssumption, Fits
  <2> HIDE DEF l, m
  <2>2. (POS_FIRST + left) + m <= MAX_GARBAGE_ARG_LEN
    BY <2>1
  <2> QED
    BY <2>1, <2>2 DEF m
<1>4. /\ CanAcquire(garbage_k, mallocd, n) /\ garbage_k' = Popped(garbage_k)
      /\ mallocd' = mallocd \cup {n} /\ refs' = [Bump(refs, kept) EXCEPT ![n] = 0]
      /\ args' = [args EXCEPT ![n] = kept]
      /\ pos_first' = [pos_first EXCEPT ![n] = POS_FIRST + left]
      /\ permanent' = [permanent EXCEPT ![n] = FALSE]
      /\ root' = root /\ work' = work /\ panicked' = panicked
  BY DEF CopiedStretch, IntoCopy, kept
<1>5. /\ Bump(refs, kept) \in [Node -> Int]
      /\ \A x \in Node : Occ(kept, x) \in Nat /\ Bump(refs, kept)[x] = refs[x] + Occ(kept, x)
  BY <1>1, <1>2, BumpDrop
<1>6. work' \in Seq(Pending) /\ \A x \in Node : Occ(work', AuxOf(x)) = 0 /\ Occ(work', DecOf(x)) = 0
  BY <1>4, OccEmpty
<1>7. refs' \in [Node -> Int] /\ refs'[n] = 0
  BY <1>4, <1>5
<1>8. ASSUME NEW x \in Node \ {n}
      PROVE  refs'[x] = refs[x] + Occ(kept, x) + Occ(work', DecOf(x))
  <2>1. refs'[x] = refs[x] + Occ(kept, x) /\ refs[x] \in Int /\ Occ(kept, x) \in Nat
    BY <1>1, <1>4, <1>5
  <2>2. Occ(work', DecOf(x)) = 0
    BY <1>6
  <2> QED
    BY <2>1, <2>2
<1>9. \A x \in Node : Dead(x) => Occ(kept, x) = 0 /\ Occ(work', DecOf(x)) = 0
  BY <1>2, <1>6, DeadIsolated
<1> QED
  BY <1>2, <1>3, <1>4, <1>6, <1>7, <1>8, <1>9, FillStep, ZenonT(40)

\* k_without_first_n_arg.
LEMMA WithoutFirstInv ==
  ASSUME IInv, NEW k \in Node, NEW left \in 0..MAX_GARBAGE_ARG_LEN,
         K_without_first_n_arg(k, left)
  PROVE  IInv'
<1>1. work = <<>> /\ left <= Len(args[k]) /\ left \in Nat /\ Len(args[k]) \in Nat
  BY Window, HeapAssumption DEF K_without_first_n_arg, Idle, IInv, HeapAssumption
<1>2. CASE CopyStops(k, 1)
  BY <1>2, StopInv DEF CopyStops, Reasons
<1>3. CASE Fits(Len(args[k])) /\ \E n \in Node : CopiedStretch(n, k, left, Len(args[k]))
  <2> PICK n \in Node : CopiedStretch(n, k, left, Len(args[k]))
    BY <1>3
  <2> DEFINE right == Len(args[k])
  <2>1. right \in Nat /\ left <= right /\ right <= Len(args[k]) /\ CopiedStretch(n, k, left, right)
    BY <1>1
  <2> HIDE DEF right
  <2> QED
    BY <1>1, <1>3, <2>1, StretchStep
<1> QED
  BY <1>2, <1>3 DEF K_without_first_n_arg, CopiedStretch

Trimmed(k, left, right) ==
  /\ args' = [args EXCEPT ![k] = SubSeq(args[k], left + 1, right)]
  /\ pos_first' = [pos_first EXCEPT ![k] = @ + left]
  /\ work' = DecEach(SubSeq(args[k], 1, left) \o SubSeq(args[k], right + 1, Len(args[k])))
  /\ UNCHANGED <<refs, permanent, garbage_k, mallocd, root, panicked>>

\* updateTrimArgs of an unshared node.
LEMMA TrimStep ==
  ASSUME IInv, work = <<>>, NEW k \in Node, Live(k), NEW left \in Nat, NEW right \in Nat,
         left <= right, right <= Len(args[k]),
         Trimmed(k, left, right)
  PROVE  IInv'
<1> DEFINE old  == args[k]
           head == SubSeq(old, 1, left)
           kept == SubSeq(old, left + 1, right)
           tail == SubSeq(old, right + 1, Len(old))
           p    == pos_first[k]
<1>1. /\ old \in Seq(Node) /\ Len(old) \in Nat /\ p \in Nat /\ refs \in [Node -> Nat]
      /\ pos_first \in [Node -> 0..MAX_GARBAGE_ARG_LEN] /\ refs' = refs
      /\ p + Len(old) <= MAX_GARBAGE_ARG_LEN /\ MAX_GARBAGE_ARG_LEN \in Nat
  BY Window, HeapAssumption DEF IInv, TypeOK, WindowInBounds, HeapAssumption, Trimmed
<1>2. left \in 0..Len(old) /\ right \in left..Len(old)
  BY <1>1
<1>3. /\ head \in Seq(Node) /\ kept \in Seq(Node) /\ tail \in Seq(Node)
      /\ Len(kept) = right - left
      /\ \A x : Occ(old, x) = Occ(head, x) + Occ(kept, x) + Occ(tail, x)
  <2> HIDE DEF old, p
  <2> QED
    BY <1>1, <1>2, OccSplit, SMTT(30)
<1>4. args' = [args EXCEPT ![k] = kept] /\ work' = DecEach(head \o tail)
  BY DEF Trimmed
<1>5. pos_first' = [pos_first EXCEPT ![k] = p + left]
  BY DEF Trimmed
<1> HIDE DEF head, kept, tail, old
<1>6. p + left \in Nat /\ (p + left) + Len(kept) <= MAX_GARBAGE_ARG_LEN
  <2> DEFINE l == Len(old)
             m == Len(kept)
  <2>1. /\ l \in Nat /\ m = right - left /\ right <= l /\ p \in Nat
        /\ p + l <= MAX_GARBAGE_ARG_LEN /\ MAX_GARBAGE_ARG_LEN \in Nat
    BY <1>1, <1>3 DEF old
  <2> HIDE DEF l, m, p
  <2>2. p + left \in Nat /\ (p + left) + m <= MAX_GARBAGE_ARG_LEN
    BY <2>1
  <2> QED
    BY <2>2 DEF m
<1> HIDE DEF p
<1>7. head \o tail \in Seq(Node)
  BY <1>3
<1>8. work' \in Seq(Pending) /\ \A x \in Node : Occ(work', AuxOf(x)) = 0
  BY <1>4, <1>7, OccDecEach
<1>9. ASSUME NEW x \in Node
      PROVE  refs'[x] + Occ(args[k], x) = refs[x] + Occ(kept, x) + Occ(work', DecOf(x))
  <2> DEFINE a == Occ(head, x)
             b == Occ(kept, x)
             c == Occ(tail, x)
             o == Occ(args[k], x)
             w == Occ(work', DecOf(x))
             r == refs[x]
             r2 == refs'[x]
  <2>1. a \in Nat /\ b \in Nat /\ c \in Nat /\ r \in Nat /\ r2 = r
    BY <1>1, <1>3, OccNat
  <2>2. o = a + b + c
    BY <1>3 DEF old
  <2>3. w = a + c
    <3>1. Occ(DecEach(head \o tail), DecOf(x)) = Occ(head \o tail, x)
      BY <1>7, OccDecEach
    <3>2. Occ(head \o tail, x) = Occ(head, x) + Occ(tail, x)
      BY <1>3, OccConcat
    <3> QED
      BY <1>4, <3>1, <3>2
  <2> HIDE DEF a, b, c, o, w, r, r2
  <2>4. r2 + o = r + b + w
    BY <2>1, <2>2, <2>3
  <2> QED
    BY <2>4 DEF b, o, w, r, r2
<1>10. refs' \in [Node -> Int] /\ \A x \in Node : Dead(x) => refs'[x] = 0
  BY <1>1, DeadIsolated
<1>11. UNCHANGED <<permanent, garbage_k, mallocd, root, panicked>>
  BY DEF Trimmed
<1> DEFINE q == p + left
<1>12. q \in Nat /\ q + Len(kept) <= MAX_GARBAGE_ARG_LEN /\ pos_first' = [pos_first EXCEPT ![k] = q]
  BY <1>5, <1>6
<1> HIDE DEF q
<1> QED
  BY <1>3, <1>4, <1>8, <1>9, <1>10, <1>11, <1>12, EditStep

\* updateTrimArgs.
LEMMA TrimInv ==
  ASSUME IInv, NEW k \in Node, NEW left \in 0..MAX_GARBAGE_ARG_LEN,
         NEW right \in 0..MAX_GARBAGE_ARG_LEN, UpdateTrimArgs(k, left, right)
  PROVE  IInv'
<1>1. /\ work = <<>> /\ Live(k) /\ left <= right /\ right <= Len(args[k])
      /\ left \in Nat /\ right \in Nat
  BY HeapAssumption DEF UpdateTrimArgs, Idle, HeapAssumption
<1>2. CASE CopyStops(k, 1)
  BY <1>2, StopInv DEF CopyStops, Reasons
<1>3. CASE Fits(Len(args[k])) /\ \E n \in Node : CopiedStretch(n, k, left, right)
  BY <1>1, <1>3, StretchStep
<1>4. CASE Trimmed(k, left, right)
  BY <1>1, <1>4, TrimStep
<1> QED
  BY <1>2, <1>3, <1>4 DEF UpdateTrimArgs, CopiedStretch, Trimmed

\* One pending Dec.
LEMMA OneDec ==
  ASSUME NEW y \in Node
  PROVE  /\ <<DecOf(y)>> \in Seq(Pending)
         /\ \A x : /\ Occ(<<DecOf(y)>>, DecOf(x)) = IF x = y THEN 1 ELSE 0
                   /\ Occ(<<DecOf(y)>>, AuxOf(x)) = 0
  BY OccOne, PendingDistinct

\* An argument of a node is live.
LEMMA ArgLive ==
  ASSUME IInv, NEW k \in Node, NEW i \in DOMAIN args[k]
  PROVE  args[k][i] \in Node /\ Live(args[k][i]) /\ i \in 1..Len(args[k])
<1>1. args[k] \in Seq(Node)
  BY DEF IInv, TypeOK
<1>2. i \in 1..Len(args[k]) /\ args[k][i] \in Node /\ args[k][i] \in Range(args[k])
  BY <1>1, LenProperties, ElementOfSeq DEF Range
<1>3. Occ(args[k], args[k][i]) # 0
  BY <1>1, <1>2, OccNat
<1> QED
  BY <1>2, <1>3, DeadIsolated DEF Live

Overwritten(k, i, v) ==
  /\ args' = [args EXCEPT ![k] = [args[k] EXCEPT ![i] = v]]
  /\ refs' = [refs EXCEPT ![v] = @ + 1]
  /\ work' = <<DecOf(args[k][i])>>
  /\ UNCHANGED <<pos_first, permanent, garbage_k, mallocd, root, panicked>>

\* Overwriting argument i of k in place by v, as k_set_arg and an unshared
\* k_replace_arg do.
LEMMA OverwriteStep ==
  ASSUME IInv, work = <<>>, NEW k \in Node, NEW v \in Node, Live(k), Live(v),
         NEW i \in DOMAIN args[k], Overwritten(k, i, v)
  PROVE  IInv'
<1> DEFINE t == [args[k] EXCEPT ![i] = v]
<1>1. args[k][i] \in Node /\ Live(args[k][i]) /\ i \in 1..Len(args[k])
  BY ArgLive
<1>2. /\ args[k] \in Seq(Node) /\ pos_first[k] \in Nat /\ refs \in [Node -> Nat]
      /\ pos_first \in [Node -> 0..MAX_GARBAGE_ARG_LEN]
  BY Window DEF IInv, TypeOK
<1>3. t \in Seq(Node) /\ Len(t) = Len(args[k])
  BY <1>1, <1>2, ExceptSeq
<1>4. pos_first[k] + Len(t) <= MAX_GARBAGE_ARG_LEN
  BY <1>3 DEF IInv, WindowInBounds
<1>5. work' \in Seq(Pending) /\ \A x \in Node : Occ(work', AuxOf(x)) = 0
  BY <1>1, OneDec DEF Overwritten
<1>6. refs' \in [Node -> Int] /\ \A x \in Node : Dead(x) => refs'[x] = 0
  BY <1>2, DeadIsolated, SMTT(30) DEF Live, Overwritten
<1>7. ASSUME NEW x \in Node
      PROVE  refs'[x] + Occ(args[k], x) = refs[x] + Occ(t, x) + Occ(work', DecOf(x))
  <2>1. Occ(t, x) + (IF x = args[k][i] THEN 1 ELSE 0) = Occ(args[k], x) + (IF x = v THEN 1 ELSE 0)
    <3> DEFINE q == args[k]
    <3>1. q \in Seq(Node) /\ i \in 1..Len(q)
      BY <1>1, <1>2
    <3> HIDE DEF q
    <3>2. Occ([q EXCEPT ![i] = v], x) + (IF x = q[i] THEN 1 ELSE 0)
            = Occ(q, x) + (IF x = v THEN 1 ELSE 0)
      BY <3>1, OccExcept
    <3> QED
      BY <3>2 DEF q
  <2>2. Occ(work', DecOf(x)) = IF x = args[k][i] THEN 1 ELSE 0
    BY <1>1, OneDec DEF Overwritten
  <2>3. refs'[x] = refs[x] + IF x = v THEN 1 ELSE 0
    BY <1>2, SMTT(30) DEF Overwritten
  <2>4. Occ(t, x) \in Nat /\ Occ(args[k], x) \in Nat /\ refs[x] \in Nat
    BY <1>2, <1>3, OccNat
  <2> DEFINE a == Occ(t, x)
             b == Occ(args[k], x)
             c == Occ(work', DecOf(x))
             d == IF x = v THEN 1 ELSE 0
             r == refs[x]
             r2 == refs'[x]
  <2>5. a + c = b + d /\ a \in Nat /\ b \in Nat /\ c \in Nat /\ d \in Nat /\ r \in Nat /\ r2 = r + d
    BY <2>1, <2>2, <2>3, <2>4
  <2> HIDE DEF a, b, c, d, r, r2
  <2>6. r2 + b = r + a + c
    BY <2>5
  <2> QED
    BY <2>6 DEF a, b, c, r, r2
<1>8. /\ args' = [args EXCEPT ![k] = t] /\ pos_first' = [pos_first EXCEPT ![k] = pos_first[k]]
      /\ UNCHANGED <<permanent, garbage_k, mallocd, root, panicked>>
  BY <1>2 DEF Overwritten
<1> HIDE DEF t
<1> QED
  BY <1>2, <1>3, <1>4, <1>5, <1>6, <1>7, <1>8, EditStep

\* k_set_arg.
LEMMA SetArgInv ==
  ASSUME IInv, NEW k \in Node, NEW i \in 1..MAX_GARBAGE_ARG_LEN, NEW v \in Node, K_set_arg(k, i, v)
  PROVE  IInv'
<1>1. work = <<>> /\ Live(k) /\ Live(v) /\ i \in DOMAIN args[k]
  BY DEF K_set_arg, Idle
<1>2. Overwritten(k, i, v)
  BY DEF K_set_arg, Overwritten
<1> QED
  BY <1>1, <1>2, OverwriteStep

\* k_add_front_arg.
LEMMA AddFrontInv ==
  ASSUME IInv, NEW k \in Node, NEW v \in Node, K_add_front_arg(k, v)
  PROVE  IInv'
<1> DEFINE t == <<v>> \o args[k]
<1>1. work = <<>> /\ Live(k) /\ Live(v)
  BY DEF K_add_front_arg, Idle
<1>2. CASE Stop("no room")
  BY <1>2, StopInv DEF Reasons
<1>3. CASE /\ pos_first[k] > 0
           /\ pos_first' = [pos_first EXCEPT ![k] = @ - 1]
           /\ args'      = [args EXCEPT ![k] = <<v>> \o @]
           /\ refs'      = [refs EXCEPT ![v] = @ + 1]
           /\ UNCHANGED <<permanent, garbage_k, mallocd, root, work, panicked>>
  <2>1. /\ args[k] \in Seq(Node) /\ pos_first[k] \in Nat /\ refs \in [Node -> Nat]
        /\ args \in [Node -> Seq(Node)]
        /\ pos_first \in [Node -> 0..MAX_GARBAGE_ARG_LEN] /\ Len(args[k]) \in Nat
    BY Window DEF IInv, TypeOK
  <2>2. <<v>> \in Seq(Node) /\ t \in Seq(Node) /\ Len(t) = 1 + Len(args[k])
    BY <2>1
  <2>3. pos_first[k] + Len(args[k]) <= MAX_GARBAGE_ARG_LEN
    BY DEF IInv, WindowInBounds
  <2>4. pos_first[k] - 1 \in Nat /\ (pos_first[k] - 1) + Len(t) <= MAX_GARBAGE_ARG_LEN
    <3> DEFINE p == pos_first[k]
               l == Len(args[k])
               m == Len(t)
    <3>1. /\ p \in Nat /\ p > 0 /\ l \in Nat /\ m = 1 + l
          /\ p + l <= MAX_GARBAGE_ARG_LEN /\ MAX_GARBAGE_ARG_LEN \in Nat
      BY <1>3, <2>1, <2>2, <2>3, HeapAssumption DEF HeapAssumption
    <3> HIDE DEF p, l, m
    <3>2. p - 1 \in Nat /\ (p - 1) + m <= MAX_GARBAGE_ARG_LEN
      BY <3>1
    <3> QED
      BY <3>2 DEF p, m
  <2>5. work' = <<>> /\ work' \in Seq(Pending)
    BY <1>1, <1>3
  <2>6. \A x \in Node : Occ(work', AuxOf(x)) = 0 /\ Occ(work', DecOf(x)) = 0
    BY <2>5, OccEmpty
  <2>7. refs' \in [Node -> Int] /\ \A x \in Node : Dead(x) => refs'[x] = 0
    BY <1>1, <1>3, <2>1, DeadIsolated DEF Live
  <2>8. ASSUME NEW x \in Node
        PROVE  refs'[x] + Occ(args[k], x) = refs[x] + Occ(t, x) + Occ(work', DecOf(x))
    <3> DEFINE a == Occ(t, x)
               b == Occ(args[k], x)
               d == Occ(<<v>>, x)
    <3>1. a = d + b
      BY <2>1, <2>2, OccConcat
    <3>2. d = IF x = v THEN 1 ELSE 0
      BY OccOne
    <3>3. a \in Nat /\ b \in Nat /\ d \in Nat /\ refs[x] \in Nat
      BY <2>1, <2>2, OccNat
    <3>4. refs'[x] = refs[x] + d
      BY <1>3, <2>1, <3>2
    <3> HIDE DEF a, b, d
    <3>5. refs'[x] + b = refs[x] + a + 0
      BY <3>1, <3>3, <3>4
    <3> QED
      BY <2>6, <3>5 DEF a, b
  <2> HIDE DEF t
  <2>9. /\ args' = [args EXCEPT ![k] = t] /\ pos_first' = [pos_first EXCEPT ![k] = pos_first[k] - 1]
        /\ UNCHANGED <<permanent, garbage_k, mallocd, root, panicked>>
    BY <1>3 DEF t
  <2> QED
    BY <1>1, <2>2, <2>4, <2>5, <2>6, <2>7, <2>8, <2>9, EditStep
<1> QED
  BY <1>2, <1>3 DEF K_add_front_arg

\* Between calls: a step that neither acquires nor reclaims a node.
LEMMA ReclaimKept ==
  ASSUME IInv, work = <<>>, work' \in Seq(Pending), UNCHANGED <<garbage_k, mallocd>>,
         \A x \in Node : Occ(work', AuxOf(x)) = 0,
         \A x \in Node : Dead(x) => refs'[x] = 0 /\ args'[x] = <<>>
  PROVE  ReclaimedOnce'
<1> DEFINE none == {}
<1>1. \A x \in Node : x \in mallocd' <=> x \in mallocd \/ x \in none
  OBVIOUS
<1>2. \A x \in Node : Occ(garbage_k', x) = IF x \in none THEN 0 ELSE Occ(garbage_k, x)
  OBVIOUS
<1>3. \A x \in Node : Occ(work', AuxOf(x)) = IF x \in none THEN 1 ELSE 0
  OBVIOUS
<1>4. none \in SUBSET Node /\ \A x \in none : x \in none \/ Live(x)
  OBVIOUS
<1>5. \A x \in Node : (Dead(x) /\ x \notin none) \/ x \in none => refs'[x] = 0 /\ args'[x] = <<>>
  OBVIOUS
<1>6. garbage_k' \in Seq(Node)
  BY DEF IInv, TypeOK
<1> HIDE DEF none
<1> QED
  BY <1>1, <1>2, <1>3, <1>4, <1>5, <1>6, ReclaimStep

\* How the owners of x change when one owning variable is written.
LEMMA OwnersAfterWrite ==
  ASSUME root \in [Root -> Node \cup {NoNode}], root' \in [Root -> Node \cup {NoNode}],
         NEW r \in Root, \A z \in Root \ {r} : root'[z] = root[z], NEW x
  PROVE  LET o  == Cardinality(OwnersOf(root, x))
             o2 == Cardinality(OwnersOf(root', x))
         IN  /\ o \in Nat /\ o2 \in Nat
             /\ o2 + (IF x = root[r] THEN 1 ELSE 0) = o + (IF x = root'[r] THEN 1 ELSE 0)
  BY OwnersWrite

\* Writing an owning C variable.
LEMMA RootStep ==
  ASSUME IInv, work = <<>>, NEW r \in Root, NEW v \in Node \cup {NoNode},
         root' = [root EXCEPT ![r] = v],
         UNCHANGED <<args, pos_first, permanent, garbage_k, mallocd, panicked>>,
         work' \in Seq(Pending), \A x \in Node : Occ(work', AuxOf(x)) = 0,
         refs' \in [Node -> Int],
         \A x \in Node : Dead(x) => refs'[x] = 0,
         \A x \in Node : refs'[x] + (IF x = root[r] THEN 1 ELSE 0)
                           = refs[x] + (IF x = v THEN 1 ELSE 0) + Occ(work', DecOf(x))
  PROVE  IInv'
<1>1. TypeOK /\ root \in [Root -> Node \cup {NoNode}] /\ args \in [Node -> Seq(Node)]
  BY DEF IInv, TypeOK
<1>2. ASSUME NEW x \in Node
      PROVE  refs'[x] = Holders(x)' /\ Holders(x)' \in Nat
  <2> DEFINE a  == Cardinality(SlotsOf(args, x))
             o  == Cardinality(OwnersOf(root, x))
             o2 == Cardinality(OwnersOf(root', x))
             w  == Occ(work', DecOf(x))
             c  == IF x = root[r] THEN 1 ELSE 0
             d  == IF x = v THEN 1 ELSE 0
             q  == refs[x]
             q2 == refs'[x]
             h  == Holders(x)'
  <2>1. Len(args[x]) <= MAX_GARBAGE_ARG_LEN
    BY Window DEF IInv
  <2>2. a \in Nat
    BY <1>1, <2>1, SlotsAt
  <2>3. o \in Nat /\ o2 \in Nat /\ o2 + c = o + d
    <3>1. /\ root' \in [Root -> Node \cup {NoNode}] /\ root'[r] = v
          /\ \A z \in Root \ {r} : root'[z] = root[z]
      BY <1>1
    <3>2. o \in Nat /\ o2 \in Nat /\ o2 + c = o + (IF x = root'[r] THEN 1 ELSE 0)
      BY <1>1, <3>1, OwnersAfterWrite
    <3> HIDE DEF o, o2, c
    <3> QED
      BY <3>1, <3>2
  <2>4. w \in Nat /\ c \in Nat /\ d \in Nat
    BY OccNat
  <2>5. q = a + o
    <3> DEFINE w0 == Occ(work, DecOf(x))
    <3>1. q = a + o + w0
      BY DEF IInv, RefCountsExact, Holders
    <3>2. w0 = 0
      BY OccEmpty
    <3> HIDE DEF q, a, o, w0
    <3> QED
      BY <2>2, <2>3, <3>1, <3>2
  <2>6. h = a + o2 + w
    BY DEF Holders
  <2>7. q2 + c = q + d + w /\ q2 \in Int
    OBVIOUS
  <2> HIDE DEF a, o, o2, w, c, d, q, q2, h
  <2>8. q2 = h /\ h \in Nat
    BY <2>2, <2>3, <2>4, <2>5, <2>6, <2>7
  <2> QED
    BY <2>8 DEF q2, h
<1>3. refs' \in [Node -> Nat] /\ root' \in [Root -> Node \cup {NoNode}]
  BY <1>1, <1>2
<1>4. TypeOK' /\ RefCountsExact' /\ WindowInBounds'
  BY <1>1, <1>2, <1>3 DEF TypeOK, RefCountsExact, WindowInBounds, IInv
<1>5. ReclaimedOnce'
  <2>1. \A x \in Node : Dead(x) => refs'[x] = 0 /\ args'[x] = <<>>
    BY DeadIsolated
  <2> QED
    BY <2>1, ReclaimKept
<1> QED
  BY <1>4, <1>5 DEF IInv

\* An owned node is live.
LEMMA OwnedLive ==
  ASSUME IInv, NEW r \in Root, root[r] # NoNode
  PROVE  root[r] \in Node /\ Live(root[r])
<1> DEFINE x == root[r]
           a == Cardinality(SlotsOf(args, x))
           o == Cardinality(OwnersOf(root, x))
           w == Occ(work, DecOf(x))
<1>1. x \in Node /\ args \in [Node -> Seq(Node)] /\ work \in Seq(Pending)
  BY DEF IInv, TypeOK
<1>2. Len(args[x]) <= MAX_GARBAGE_ARG_LEN
  BY <1>1, Window DEF IInv
<1>3. a \in Nat /\ w \in Nat
  BY <1>1, <1>2, SlotsAt, OccNat
<1>4. IsFiniteSet(OwnersOf(root, x)) /\ r \in OwnersOf(root, x)
  BY HeapAssumption, FS_Subset DEF HeapAssumption, OwnersOf
<1>5. o \in Nat /\ o # 0
  BY <1>4, FS_CardinalityType, FS_EmptySet
<1>6. refs[x] = a + o + w
  BY <1>1 DEF IInv, RefCountsExact, Holders
<1> HIDE DEF a, o, w
<1>7. refs[x] # 0
  BY <1>3, <1>5, <1>6
<1> QED
  BY <1>1, <1>7, DeadIsolated DEF Live

\* Inc for a new owner, and Dec for the value it replaces.
LEMMA OwnInv == ASSUME IInv, NEW r \in Root, NEW k \in Node, Own(r, k) PROVE IInv'
<1>1. /\ work = <<>> /\ Live(k) /\ root' = [root EXCEPT ![r] = k]
      /\ UNCHANGED <<args, pos_first, permanent, garbage_k, mallocd, panicked>>
  BY DEF Own, Idle
<1>2. refs \in [Node -> Nat] /\ refs' = [refs EXCEPT ![k] = @ + 1]
  BY DEF Own, IInv, TypeOK
<1>3. refs' \in [Node -> Int] /\ \A x \in Node : Dead(x) => refs'[x] = 0
  BY <1>1, <1>2, DeadIsolated DEF Live
<1>4. /\ work' \in Seq(Pending)
      /\ \A x \in Node : /\ Occ(work', AuxOf(x)) = 0
                         /\ Occ(work', DecOf(x)) = IF x = root[r] THEN 1 ELSE 0
  <2>1. CASE root[r] = NoNode
    <3>1. work' = <<>> /\ NoNode \notin Node
      BY <2>1, HeapAssumption DEF Own, HeapAssumption
    <3> QED
      BY <2>1, <3>1, OccEmpty
  <2>2. CASE root[r] # NoNode
    <3>1. work' = <<DecOf(root[r])>> /\ root[r] \in Node
      BY <2>2, OwnedLive DEF Own
    <3> QED
      BY <3>1, OneDec
  <2> QED
    BY <2>1, <2>2
<1>5. ASSUME NEW x \in Node
      PROVE  refs'[x] + (IF x = root[r] THEN 1 ELSE 0)
               = refs[x] + (IF x = k THEN 1 ELSE 0) + Occ(work', DecOf(x))
  <2>1. refs'[x] = refs[x] + (IF x = k THEN 1 ELSE 0) /\ refs[x] \in Nat
    BY <1>2
  <2>2. Occ(work', DecOf(x)) = IF x = root[r] THEN 1 ELSE 0
    BY <1>4
  <2> QED
    BY <2>1, <2>2
<1>6. k \in Node \cup {NoNode}
  OBVIOUS
<1> QED
  BY <1>1, <1>3, <1>4, <1>5, <1>6, RootStep, ZenonT(40)

\* Dec for an owner that goes away.
LEMMA DisownInv == ASSUME IInv, NEW r \in Root, Disown(r) PROVE IInv'
<1>1. /\ work = <<>> /\ root[r] # NoNode /\ root' = [root EXCEPT ![r] = NoNode]
      /\ UNCHANGED <<args, pos_first, permanent, garbage_k, mallocd, panicked>>
  BY DEF Disown, Idle
<1>2. refs \in [Node -> Nat] /\ refs' = refs
  BY DEF Disown, IInv, TypeOK
<1>3. refs' \in [Node -> Int] /\ \A x \in Node : Dead(x) => refs'[x] = 0
  BY <1>2, DeadIsolated
<1>4. work' = <<DecOf(root[r])>> /\ root[r] \in Node
  BY <1>1, OwnedLive DEF Disown
<1>5. /\ work' \in Seq(Pending)
      /\ \A x \in Node : /\ Occ(work', AuxOf(x)) = 0
                         /\ Occ(work', DecOf(x)) = IF x = root[r] THEN 1 ELSE 0
  BY <1>4, OneDec
<1>6. ASSUME NEW x \in Node
      PROVE  refs'[x] + (IF x = root[r] THEN 1 ELSE 0)
               = refs[x] + (IF x = NoNode THEN 1 ELSE 0) + Occ(work', DecOf(x))
  <2>1. refs'[x] = refs[x] /\ refs[x] \in Nat /\ x # NoNode
    BY <1>2, HeapAssumption DEF HeapAssumption
  <2>2. Occ(work', DecOf(x)) = IF x = root[r] THEN 1 ELSE 0
    BY <1>5
  <2> QED
    BY <2>1, <2>2
<1> QED
  BY <1>1, <1>3, <1>5, <1>6, RootStep, ZenonT(40)


\* What dispose_k leaves to do for a node k that held the arguments s.
LEMMA DisposeWork ==
  ASSUME NEW k \in Node, NEW s \in Seq(Node)
  PROVE  LET w == Append(DecEach(s), AuxOf(k)) IN
         /\ w \in Seq(Pending)
         /\ \A x : /\ Occ(w, DecOf(x)) = Occ(s, x)
                   /\ Occ(w, AuxOf(x)) = IF x = k THEN 1 ELSE 0
<1> DEFINE d == DecEach(s)
<1>1. d \in Seq(Pending) /\ AuxOf(k) \in Pending
  BY OccDecEach, PendingDistinct
<1>2. ASSUME NEW x
      PROVE  /\ Occ(Append(d, AuxOf(k)), DecOf(x)) = Occ(s, x)
             /\ Occ(Append(d, AuxOf(k)), AuxOf(x)) = IF x = k THEN 1 ELSE 0
  <2>1. /\ Occ(d, DecOf(x)) = Occ(s, x) /\ Occ(s, x) \in Nat
        /\ Occ(d, AuxOf(x)) = 0
    BY OccDecEach, OccNat
  <2> HIDE DEF d
  <2>2. Occ(Append(d, AuxOf(k)), DecOf(x)) = Occ(d, DecOf(x)) + IF DecOf(x) = AuxOf(k) THEN 1 ELSE 0
    BY <1>1, OccAppend
  <2>3. Occ(Append(d, AuxOf(k)), AuxOf(x)) = Occ(d, AuxOf(x)) + IF AuxOf(x) = AuxOf(k) THEN 1 ELSE 0
    BY <1>1, OccAppend
  <2>4. DecOf(x) # AuxOf(k) /\ (AuxOf(x) = AuxOf(k) <=> x = k)
    BY PendingDistinct
  <2> QED
    BY <2>1, <2>2, <2>3, <2>4
<1>3. Append(d, AuxOf(k)) \in Seq(Pending)
  BY <1>1
<1> QED
  BY <1>2, <1>3

\* k_dispose.
LEMMA DisposeInv == ASSUME IInv, NEW k \in Node, K_dispose(k) PROVE IInv'
<1> DEFINE none == <<>>
<1>1. /\ work = <<>> /\ Live(k) /\ refs[k] = 0 /\ args' = [args EXCEPT ![k] = none]
      /\ work' = Append(DecEach(args[k]), AuxOf(k))
      /\ UNCHANGED <<refs, pos_first, permanent, garbage_k, mallocd, root, panicked>>
  BY DEF K_dispose, Idle, Fresh, Release
<1>2. /\ TypeOK /\ args \in [Node -> Seq(Node)] /\ args[k] \in Seq(Node) /\ refs \in [Node -> Int]
      /\ garbage_k' \in Seq(Node) /\ mallocd' \in SUBSET Node /\ panicked' \in Reasons
      /\ pos_first' \in [Node -> 0..MAX_GARBAGE_ARG_LEN] /\ permanent' \in [Node -> BOOLEAN]
      /\ refs' \in [Node -> Int]
  BY <1>1 DEF IInv, TypeOK
<1>3. /\ work' \in Seq(Pending)
      /\ \A x \in Node : /\ Occ(work', DecOf(x)) = Occ(args[k], x)
                         /\ Occ(work', AuxOf(x)) = IF x = k THEN 1 ELSE 0
  BY <1>1, <1>2, DisposeWork
<1>4. none \in Seq(Node) /\ Len(none) = 0 /\ \A x : Occ(none, x) = 0
  BY OccEmpty
<1>5. pos_first'[k] + Len(none) <= MAX_GARBAGE_ARG_LEN
  BY <1>2, <1>4, HeapAssumption DEF HeapAssumption
<1>6. \A x \in Node \ {k} : pos_first'[x] = pos_first[x] \/ args[x] = <<>>
  BY <1>1
<1>7. ASSUME NEW x \in Node
      PROVE  refs'[x] + Occ(args[k], x) + Occ(work, DecOf(x))
               = refs[x] + Occ(none, x) + Occ(work', DecOf(x))
  <2>1. /\ Occ(work, DecOf(x)) = 0 /\ Occ(none, x) = 0
        /\ Occ(work', DecOf(x)) = Occ(args[k], x) /\ refs'[x] = refs[x]
    BY <1>1, <1>3, <1>4, OccEmpty
  <2>2. Occ(args[k], x) \in Nat /\ refs[x] \in Int
    BY <1>2, OccNat
  <2> QED
    BY <2>1, <2>2
<1>8. ReclaimedOnce'
  <2> DEFINE nobody == {}
             one == {k}
  <2>1. /\ \A x \in one : x \in nobody \/ Live(x)
        /\ \A x \in Node : Occ(work', AuxOf(x)) = IF x \in one THEN 1 ELSE 0
        /\ \A x \in Node : x \in mallocd' <=> x \in mallocd \/ x \in nobody
        /\ \A x \in Node : Occ(garbage_k', x) = IF x \in nobody THEN 0 ELSE Occ(garbage_k, x)
        /\ nobody \in SUBSET Node /\ one \in SUBSET Node
    BY <1>1, <1>3
  <2>2. ASSUME NEW x \in Node, (Dead(x) /\ x \notin nobody) \/ x \in one
        PROVE  refs'[x] = 0 /\ args'[x] = <<>>
    <3>1. CASE x = k
      BY <1>1, <1>2, <3>1
    <3>2. CASE x # k
      <4>1. refs[x] = 0 /\ args[x] = <<>>
        BY <2>2, <3>2, DeadIsolated
      <4> QED
        BY <1>1, <1>2, <3>2, <4>1
    <3> QED
      BY <3>1, <3>2
  <2> HIDE DEF nobody, one
  <2> QED
    BY <1>1, <1>2, <1>3, <2>1, <2>2, ReclaimStep
<1> HIDE DEF none
<1> QED
  BY <1>1, <1>2, <1>3, <1>4, <1>5, <1>6, <1>7, <1>8, WriteStep

-----------------------------------------------------------------------------
(* The cascade.                                                            *)

\* The call at the head of the work left, and what remains behind it.
LEMMA WorkSplit ==
  ASSUME IInv, work # <<>>
  PROVE  LET k == Head(work).k IN
         /\ k \in Node /\ Tail(work) \in Seq(Pending)
         /\ Head(work).op = "Dec" =>
              \A x : /\ Occ(work, DecOf(x)) = Occ(Tail(work), DecOf(x)) + IF x = k THEN 1 ELSE 0
                     /\ Occ(work, AuxOf(x)) = Occ(Tail(work), AuxOf(x))
         /\ Head(work).op = "dispose_k_aux" =>
              \A x : /\ Occ(work, DecOf(x)) = Occ(Tail(work), DecOf(x))
                     /\ Occ(work, AuxOf(x)) = Occ(Tail(work), AuxOf(x)) + IF x = k THEN 1 ELSE 0
<1> DEFINE h == Head(work)
           k == h.k
           t == Tail(work)
<1>1. work \in Seq(Pending) /\ h \in Pending /\ t \in Seq(Pending)
  BY HeadTailProperties DEF IInv, TypeOK
<1>2. k \in Node /\ (h.op = "Dec" => h = DecOf(k)) /\ (h.op = "dispose_k_aux" => h = AuxOf(k))
  BY <1>1 DEF Pending, DecOf, AuxOf
<1>3. ASSUME NEW y PROVE Occ(work, y) = Occ(t, y) + (IF y = h THEN 1 ELSE 0) /\ Occ(t, y) \in Nat
  BY <1>1, OccTail, OccNat
<1> HIDE DEF h, t
<1>4. ASSUME NEW x, h.op = "Dec"
      PROVE  /\ Occ(work, DecOf(x)) = Occ(t, DecOf(x)) + IF x = k THEN 1 ELSE 0
             /\ Occ(work, AuxOf(x)) = Occ(t, AuxOf(x))
  <2>1. (DecOf(x) = h <=> x = k) /\ AuxOf(x) # h
    BY <1>2, <1>4, PendingDistinct
  <2> QED
    BY <1>3, <2>1
<1>5. ASSUME NEW x, h.op = "dispose_k_aux"
      PROVE  /\ Occ(work, DecOf(x)) = Occ(t, DecOf(x))
             /\ Occ(work, AuxOf(x)) = Occ(t, AuxOf(x)) + IF x = k THEN 1 ELSE 0
  <2>1. (AuxOf(x) = h <=> x = k) /\ DecOf(x) # h
    BY <1>2, <1>5, PendingDistinct
  <2> QED
    BY <1>3, <2>1
<1> QED
  BY <1>1, <1>2, <1>4, <1>5 DEF h, t

\* Reclamation during a cascade, when every count of what is reclaimed stays
\* or grows by the nodes F that were live.
LEMMA CascadeReclaim ==
  ASSUME IInv, NEW F \in SUBSET Node, \A x \in F : Live(x),
         garbage_k' \in Seq(Node), work' \in Seq(Pending), mallocd' = mallocd,
         \A x \in Node : Occ(garbage_k', x) + Occ(work', AuxOf(x))
                           = Occ(garbage_k, x) + Occ(work, AuxOf(x)) + IF x \in F THEN 1 ELSE 0,
         \A x \in Node : Dead(x) \/ x \in F => refs'[x] = 0 /\ args'[x] = <<>>
  PROVE  ReclaimedOnce'
<1> SUFFICES ASSUME NEW x \in Node, Dead(x)'
             PROVE  /\ refs'[x] = 0 /\ args'[x] = <<>>
                    /\ Occ(garbage_k', x) + Occ(work', AuxOf(x)) = IF x \in mallocd' THEN 1 ELSE 0
  BY DEF ReclaimedOnce
<1> DEFINE g == Occ(garbage_k, x)
           g2 == Occ(garbage_k', x)
           w == Occ(work, AuxOf(x))
           w2 == Occ(work', AuxOf(x))
           c == IF x \in F THEN 1 ELSE 0
<1>1. /\ g \in Nat /\ (g = 0 <=> x \notin Range(garbage_k))
      /\ w \in Nat /\ (w = 0 <=> AuxOf(x) \notin Range(work))
  BY OccNat DEF IInv, TypeOK
<1>2. /\ g2 \in Nat /\ (g2 = 0 <=> x \notin Range(garbage_k'))
      /\ w2 \in Nat /\ (w2 = 0 <=> AuxOf(x) \notin Range(work'))
  BY OccNat
<1>3. g2 + w2 = g + w + c /\ c \in Nat /\ (x \in F <=> c = 1) /\ (x \notin F <=> c = 0)
  OBVIOUS
<1>4. x \notin mallocd \/ g2 # 0 \/ w2 # 0
  BY <1>2 DEF Dead
<1> HIDE DEF g, g2, w, w2, c
<1>5. CASE x \in F
  <2>1. x \in mallocd /\ g = 0 /\ w = 0
    BY <1>1, <1>5 DEF Live, Dead
  <2>2. g2 + w2 = 1
    BY <1>1, <1>3, <1>5, <2>1
  <2> QED
    BY <1>5, <2>1, <2>2 DEF g2, w2
<1>6. CASE x \notin F
  <2>1. g2 + w2 = g + w
    BY <1>1, <1>3, <1>6
  <2>2. Dead(x)
    <3>1. CASE x \notin mallocd
      BY <3>1 DEF Dead
    <3>2. CASE g2 # 0 \/ w2 # 0
      <4>1. g # 0 \/ w # 0
        BY <1>1, <1>2, <2>1, <3>2
      <4> QED
        BY <1>1, <4>1 DEF Dead
    <3> QED
      BY <1>4, <3>1, <3>2
  <2>3. g + w = IF x \in mallocd THEN 1 ELSE 0
    BY <2>2 DEF IInv, ReclaimedOnce, g, w
  <2> QED
    BY <1>6, <2>1, <2>2, <2>3 DEF g2, w2
<1> QED
  BY <1>5, <1>6


\* What a pending Dec is about: a live node with a reference to give up.
LEMMA PendingLive ==
  ASSUME IInv, work # <<>>, Head(work).op = "Dec"
  PROVE  refs[Head(work).k] \in Nat /\ refs[Head(work).k] # 0 /\ Live(Head(work).k)
<1> DEFINE k == Head(work).k
           a == Cardinality(SlotsOf(args, k))
           o == Cardinality(OwnersOf(root, k))
           w == Occ(work, DecOf(k))
<1>1. k \in Node
  BY WorkSplit
<1> HIDE DEF k
<1>2. /\ Occ(Tail(work), DecOf(k)) \in Nat
      /\ w = Occ(Tail(work), DecOf(k)) + 1
  <2>1. Tail(work) \in Seq(Pending)
    BY WorkSplit
  <2>2. w = Occ(Tail(work), DecOf(k)) + IF k = Head(work).k THEN 1 ELSE 0
    BY WorkSplit
  <2> QED
    BY <2>1, <2>2, OccNat DEF k
<1>3. args \in [Node -> Seq(Node)] /\ refs[k] \in Nat /\ Len(args[k]) <= MAX_GARBAGE_ARG_LEN
  BY <1>1, Window DEF IInv, TypeOK
<1>4. a \in Nat
  BY <1>1, <1>3, SlotsAt
<1>5. IsFiniteSet(OwnersOf(root, k))
  BY HeapAssumption, FS_Subset DEF HeapAssumption, OwnersOf
<1>6. o \in Nat
  BY <1>5, FS_CardinalityType
<1>7. refs[k] = a + o + w
  BY <1>1 DEF IInv, RefCountsExact, Holders
<1> HIDE DEF a, o, w
<1>8. refs[k] # 0
  BY <1>2, <1>4, <1>6, <1>7
<1> QED
  BY <1>1, <1>3, <1>8, DeadIsolated DEF Live, k

\* Dec of a node that keeps other references.
LEMMA DecKeptInv ==
  ASSUME IInv, DecStep, ~ Dies(Head(work).k)
  PROVE  IInv'
<1> DEFINE k == Head(work).k
           t == args[k]
<1>1. /\ work # <<>> /\ Head(work).op = "Dec" /\ work' = Tail(work)
      /\ refs' = [refs EXCEPT ![k] = @ - 1]
      /\ UNCHANGED <<args, pos_first, permanent, garbage_k, mallocd, root, panicked>>
  BY DEF DecStep
<1>2. k \in Node /\ refs[k] # 0 /\ Live(k) /\ work' \in Seq(Pending)
  BY <1>1, WorkSplit, PendingLive
<1>3. \A x : /\ Occ(work, DecOf(x)) = Occ(work', DecOf(x)) + (IF x = k THEN 1 ELSE 0)
             /\ Occ(work, AuxOf(x)) = Occ(work', AuxOf(x))
  BY <1>1, WorkSplit
<1> HIDE DEF k
<1>4. /\ TypeOK /\ args \in [Node -> Seq(Node)] /\ t \in Seq(Node) /\ refs \in [Node -> Nat]
      /\ garbage_k' \in Seq(Node) /\ mallocd' \in SUBSET Node /\ panicked' \in Reasons
      /\ pos_first' \in [Node -> 0..MAX_GARBAGE_ARG_LEN] /\ permanent' \in [Node -> BOOLEAN]
      /\ refs' \in [Node -> Int]
  BY <1>1, <1>2, SMTT(30) DEF IInv, TypeOK
<1>5. args' = [args EXCEPT ![k] = t] /\ root' = root
  BY <1>1, <1>4
<1>6. /\ pos_first'[k] + Len(t) <= MAX_GARBAGE_ARG_LEN
      /\ \A x \in Node \ {k} : pos_first'[x] = pos_first[x] \/ args[x] = <<>>
  BY <1>1, <1>2 DEF IInv, WindowInBounds
<1>7. ASSUME NEW x \in Node
      PROVE  refs'[x] + Occ(args[k], x) + Occ(work, DecOf(x))
               = refs[x] + Occ(t, x) + Occ(work', DecOf(x))
  <2> DEFINE w  == Occ(work, DecOf(x))
             w2 == Occ(work', DecOf(x))
             u  == Occ(args[k], x)
             c  == IF x = k THEN 1 ELSE 0
             r  == refs[x]
             r2 == refs'[x]
  <2>1. w2 \in Nat /\ u \in Nat /\ c \in Nat /\ r \in Nat
    BY <1>2, <1>4, OccNat
  <2>2. w = w2 + c /\ r2 = r - c /\ u = Occ(t, x)
    BY <1>1, <1>3, <1>4
  <2> HIDE DEF w, w2, u, c, r, r2
  <2>3. r2 + u + w = r + u + w2
    BY <2>1, <2>2
  <2> QED
    BY <2>2, <2>3, Zenon DEF w, w2, u, r, r2
<1>8. ReclaimedOnce'
  <2> DEFINE none == {}
  <2>1. none \in SUBSET Node /\ \A x \in none : Live(x)
    OBVIOUS
  <2>2. ASSUME NEW x \in Node
        PROVE  Occ(garbage_k', x) + Occ(work', AuxOf(x))
                 = Occ(garbage_k, x) + Occ(work, AuxOf(x)) + IF x \in none THEN 1 ELSE 0
    <3>1. Occ(garbage_k', x) = Occ(garbage_k, x) /\ Occ(work', AuxOf(x)) = Occ(work, AuxOf(x))
      BY <1>1, <1>3
    <3>2. Occ(garbage_k, x) \in Nat /\ Occ(work, AuxOf(x)) \in Nat
      BY OccNat DEF IInv, TypeOK
    <3> QED
      BY <3>1, <3>2
  <2>3. ASSUME NEW x \in Node, Dead(x) \/ x \in none
        PROVE  refs'[x] = 0 /\ args'[x] = <<>>
    <3>1. x # k /\ refs[x] = 0 /\ args[x] = <<>>
      BY <1>2, <2>3, DeadIsolated DEF Live
    <3> QED
      BY <1>1, <1>4, <3>1
  <2>4. mallocd' = mallocd
    BY <1>1
  <2> HIDE DEF none
  <2> QED
    BY <1>2, <1>4, <2>1, <2>2, <2>3, <2>4, CascadeReclaim
<1> HIDE DEF t
<1> QED
  BY <1>2, <1>4, <1>5, <1>6, <1>7, <1>8, WriteStep

\* Dec of the last reference: dispose_k.
LEMMA DecLastInv ==
  ASSUME IInv, DecStep, Dies(Head(work).k)
  PROVE  IInv'
<1> DEFINE k == Head(work).k
           d == Append(DecEach(args[k]), AuxOf(k))
           t == Tail(work)
           none == <<>>
<1>1. /\ work # <<>> /\ Head(work).op = "Dec" /\ work' = d \o t
      /\ refs' = [refs EXCEPT ![k] = @ - 1] /\ args' = [args EXCEPT ![k] = none]
      /\ UNCHANGED <<pos_first, permanent, garbage_k, mallocd, root, panicked>>
  BY DEF DecStep, Release
<1>2. k \in Node /\ refs[k] = 1 /\ Live(k) /\ t \in Seq(Pending)
  <2>1. k \in Node /\ t \in Seq(Pending)
    BY <1>1, WorkSplit
  <2>2. refs[k] = 1 /\ Live(k)
    BY <1>1, PendingLive DEF Dies
  <2> HIDE DEF d, t
  <2> QED
    BY <2>1, <2>2
<1>3. \A x : /\ Occ(work, DecOf(x)) = Occ(t, DecOf(x)) + (IF x = k THEN 1 ELSE 0)
             /\ Occ(work, AuxOf(x)) = Occ(t, AuxOf(x))
  BY <1>1, WorkSplit
<1> HIDE DEF k
<1>4. /\ TypeOK /\ args \in [Node -> Seq(Node)] /\ args[k] \in Seq(Node) /\ refs \in [Node -> Nat]
      /\ garbage_k' \in Seq(Node) /\ mallocd' \in SUBSET Node /\ panicked' \in Reasons
      /\ pos_first' \in [Node -> 0..MAX_GARBAGE_ARG_LEN] /\ permanent' \in [Node -> BOOLEAN]
      /\ refs' \in [Node -> Int]
  BY <1>1, <1>2 DEF IInv, TypeOK
<1>5. /\ d \in Seq(Pending)
      /\ \A x : /\ Occ(d, DecOf(x)) = Occ(args[k], x)
                /\ Occ(d, AuxOf(x)) = IF x = k THEN 1 ELSE 0
  BY <1>2, <1>4, DisposeWork
<1> HIDE DEF d, t
<1>6. work' \in Seq(Pending)
  BY <1>1, <1>2, <1>5
<1>7. \A x : /\ Occ(work', DecOf(x)) = Occ(d, DecOf(x)) + Occ(t, DecOf(x))
             /\ Occ(work', AuxOf(x)) = Occ(d, AuxOf(x)) + Occ(t, AuxOf(x))
  <2>1. \A y : Occ(d \o t, y) = Occ(d, y) + Occ(t, y)
    BY <1>2, <1>5, OccConcat
  <2> QED
    BY <1>1, <2>1
<1>8. none \in Seq(Node) /\ Len(none) = 0 /\ \A x : Occ(none, x) = 0
  BY OccEmpty
<1>9. /\ pos_first'[k] + Len(none) <= MAX_GARBAGE_ARG_LEN
      /\ \A x \in Node \ {k} : pos_first'[x] = pos_first[x] \/ args[x] = <<>>
  BY <1>1, <1>2, <1>4, <1>8, HeapAssumption DEF HeapAssumption
<1>10. ASSUME NEW x \in Node
       PROVE  refs'[x] + Occ(args[k], x) + Occ(work, DecOf(x))
                = refs[x] + Occ(none, x) + Occ(work', DecOf(x))
  <2> DEFINE w  == Occ(work, DecOf(x))
             w2 == Occ(work', DecOf(x))
             u  == Occ(args[k], x)
             v  == Occ(t, DecOf(x))
             c  == IF x = k THEN 1 ELSE 0
             z  == Occ(none, x)
             r  == refs[x]
             r2 == refs'[x]
  <2>1. v \in Nat /\ u \in Nat /\ c \in Nat /\ r \in Nat /\ z = 0
    BY <1>2, <1>4, <1>8, OccNat
  <2>2. w = v + c /\ r2 = r - c /\ w2 = u + v
    BY <1>1, <1>3, <1>4, <1>5, <1>7
  <2> HIDE DEF w, w2, u, v, c, z, r, r2
  <2>3. r2 + u + w = r + z + w2
    BY <2>1, <2>2
  <2> QED
    BY <2>3 DEF w, w2, u, z, r, r2
<1>11. ReclaimedOnce'
  <2> DEFINE one == {k}
  <2>1. one \in SUBSET Node /\ \A x \in one : Live(x)
    BY <1>2
  <2>2. ASSUME NEW x \in Node
        PROVE  Occ(garbage_k', x) + Occ(work', AuxOf(x))
                 = Occ(garbage_k, x) + Occ(work, AuxOf(x)) + IF x \in one THEN 1 ELSE 0
    <3>1. /\ Occ(garbage_k', x) = Occ(garbage_k, x)
          /\ Occ(work', AuxOf(x)) = (IF x \in one THEN 1 ELSE 0) + Occ(t, AuxOf(x))
          /\ Occ(work, AuxOf(x)) = Occ(t, AuxOf(x))
      BY <1>1, <1>3, <1>5, <1>7
    <3>2. Occ(garbage_k, x) \in Nat /\ Occ(t, AuxOf(x)) \in Nat
      BY <1>2, <1>4, OccNat DEF TypeOK
    <3> QED
      BY <3>1, <3>2
  <2>3. ASSUME NEW x \in Node, Dead(x) \/ x \in one
        PROVE  refs'[x] = 0 /\ args'[x] = <<>>
    <3>1. CASE x = k
      BY <1>1, <1>2, <1>4, <3>1
    <3>2. CASE x # k
      <4>1. refs[x] = 0 /\ args[x] = <<>>
        BY <2>3, <3>2, DeadIsolated
      <4> QED
        BY <1>1, <1>4, <3>2, <4>1
    <3> QED
      BY <3>1, <3>2
  <2>4. mallocd' = mallocd
    BY <1>1
  <2> HIDE DEF one
  <2> QED
    BY <1>4, <1>6, <2>1, <2>2, <2>3, <2>4, CascadeReclaim
<1>12. args' = [args EXCEPT ![k] = none] /\ root' = root
  BY <1>1
<1> HIDE DEF none
<1> QED
  BY <1>2, <1>4, <1>6, <1>8, <1>9, <1>10, <1>11, <1>12, WriteStep

\* dispose_k_itself.
LEMMA AuxInv == ASSUME IInv, AuxStep PROVE IInv'
<1> DEFINE k == Head(work).k
           t == args[k]
<1>1. work # <<>> /\ Head(work).op = "dispose_k_aux"
  BY DEF AuxStep
<1>2. CASE Stop("free_args")
  BY <1>2, StopInv DEF Reasons
<1>3. CASE /\ garbage_k' = Append(garbage_k, k) /\ work' = Tail(work)
           /\ UNCHANGED <<refs, args, pos_first, permanent, mallocd, root, panicked>>
  <2>1. k \in Node /\ work' \in Seq(Pending)
    BY <1>1, <1>3, WorkSplit
  <2>2. \A x : /\ Occ(work, DecOf(x)) = Occ(work', DecOf(x))
               /\ Occ(work, AuxOf(x)) = Occ(work', AuxOf(x)) + (IF x = k THEN 1 ELSE 0)
    BY <1>1, <1>3, WorkSplit
  <2> HIDE DEF k
  <2>3. /\ TypeOK /\ args \in [Node -> Seq(Node)] /\ t \in Seq(Node) /\ refs \in [Node -> Nat]
        /\ garbage_k \in Seq(Node) /\ mallocd' \in SUBSET Node /\ panicked' \in Reasons
        /\ pos_first' \in [Node -> 0..MAX_GARBAGE_ARG_LEN] /\ permanent' \in [Node -> BOOLEAN]
        /\ refs' \in [Node -> Int]
    BY <1>3, <2>1 DEF IInv, TypeOK
  <2>4. garbage_k' \in Seq(Node)
    BY <1>3, <2>1, <2>3
  <2>5. \A x : Occ(garbage_k', x) = Occ(garbage_k, x) + IF x = k THEN 1 ELSE 0
    <3>1. \A x : Occ(Append(garbage_k, k), x) = Occ(garbage_k, x) + IF x = k THEN 1 ELSE 0
      BY <2>1, <2>3, OccAppend
    <3> QED
      BY <1>3, <3>1
  <2>6. args' = [args EXCEPT ![k] = t] /\ root' = root
    BY <1>3, <2>3
  <2>7. /\ pos_first'[k] + Len(t) <= MAX_GARBAGE_ARG_LEN
        /\ \A x \in Node \ {k} : pos_first'[x] = pos_first[x] \/ args[x] = <<>>
    BY <1>3, <2>1 DEF IInv, WindowInBounds
  <2>8. ASSUME NEW x \in Node
        PROVE  refs'[x] + Occ(args[k], x) + Occ(work, DecOf(x))
                 = refs[x] + Occ(t, x) + Occ(work', DecOf(x))
    BY <1>3, <2>2
  <2>9. ReclaimedOnce'
    <3> DEFINE none == {}
    <3>1. none \in SUBSET Node /\ \A x \in none : Live(x)
      OBVIOUS
    <3>2. ASSUME NEW x \in Node
          PROVE  Occ(garbage_k', x) + Occ(work', AuxOf(x))
                   = Occ(garbage_k, x) + Occ(work, AuxOf(x)) + IF x \in none THEN 1 ELSE 0
      <4> DEFINE c == IF x = k THEN 1 ELSE 0
                 g == Occ(garbage_k, x)
                 w == Occ(work', AuxOf(x))
      <4>1. /\ Occ(garbage_k', x) = g + c /\ Occ(work, AuxOf(x)) = w + c
            /\ c \in Nat /\ g \in Nat /\ w \in Nat
        BY <2>1, <2>2, <2>3, <2>5, OccNat
      <4> HIDE DEF c, g, w
      <4>2. (g + c) + w = g + (w + c) + 0
        BY <4>1
      <4> QED
        BY <4>1, <4>2 DEF g, w
    <3>3. ASSUME NEW x \in Node, Dead(x) \/ x \in none
          PROVE  refs'[x] = 0 /\ args'[x] = <<>>
      BY <1>3, <3>3, DeadIsolated
    <3>4. mallocd' = mallocd
      BY <1>3
    <3> HIDE DEF none
    <3> QED
      BY <2>1, <2>4, <3>1, <3>2, <3>3, <3>4, CascadeReclaim
  <2> HIDE DEF t
  <2> QED
    BY <2>1, <2>3, <2>4, <2>6, <2>7, <2>8, <2>9, WriteStep
<1> QED
  BY <1>2, <1>3 DEF AuxStep



-----------------------------------------------------------------------------
(* k_replace_arg of a shared node, and k_insert_elems.                     *)

\* The effect of overwriting one argument on the occurrences of each node.
LEMMA OverwriteOcc ==
  ASSUME IInv, NEW k \in Node, NEW i \in DOMAIN args[k], NEW v \in Node
  PROVE  LET t == [args[k] EXCEPT ![i] = v] IN
         /\ t \in Seq(Node) /\ Len(t) = Len(args[k])
         /\ \A x \in Node :
              /\ Occ(t, x) \in Nat /\ Occ(args[k], x) \in Nat
              /\ Occ(t, x) + (IF x = args[k][i] THEN 1 ELSE 0)
                   = Occ(args[k], x) + (IF x = v THEN 1 ELSE 0)
<1> DEFINE q == args[k]
           t == [q EXCEPT ![i] = v]
<1>1. q \in Seq(Node) /\ i \in 1..Len(q)
  BY ArgLive DEF IInv, TypeOK
<1> HIDE DEF q
<1>2. t \in Seq(Node) /\ Len(t) = Len(q)
  BY <1>1, ExceptSeq
<1>3. \A x \in Node : Occ(t, x) + (IF x = q[i] THEN 1 ELSE 0) = Occ(q, x) + (IF x = v THEN 1 ELSE 0)
  BY <1>1, OccExcept
<1> HIDE DEF t
<1>4. \A x \in Node : Occ(t, x) \in Nat /\ Occ(q, x) \in Nat
  BY <1>1, <1>2, OccNat
<1> QED
  BY <1>2, <1>3, <1>4, Zenon DEF q, t

ReplacedInCopy(n, k, i, v) ==
  /\ CanAcquire(garbage_k, mallocd, n)
  /\ garbage_k' = Popped(garbage_k)
  /\ mallocd'   = mallocd \cup {n}
  /\ refs'      = [Bump(Bump(refs, args[k]), <<v>>) EXCEPT ![n] = 0]
  /\ IntoCopy(n, [args[k] EXCEPT ![i] = v], POS_FIRST)
  /\ work' = <<DecOf(args[k][i])>>
  /\ UNCHANGED <<root, panicked>>

\* k_replace_arg of a shared node.
LEMMA ReplaceCopyStep ==
  ASSUME IInv, work = <<>>, NEW k \in Node, NEW v \in Node, Live(v),
         NEW i \in DOMAIN args[k], Fits(Len(args[k])),
         NEW n \in Node, ReplacedInCopy(n, k, i, v)
  PROVE  IInv'
<1> DEFINE t == [args[k] EXCEPT ![i] = v]
           b == Bump(Bump(refs, args[k]), <<v>>)
<1>1. /\ args[k] \in Seq(Node) /\ refs \in [Node -> Int]
      /\ <<v>> \in Seq(Node)
  BY DEF IInv, TypeOK
<1> DEFINE y == args[k][i]
<1>2. /\ CanAcquire(garbage_k, mallocd, n) /\ garbage_k' = Popped(garbage_k)
      /\ mallocd' = mallocd \cup {n} /\ args' = [args EXCEPT ![n] = t]
      /\ pos_first' = [pos_first EXCEPT ![n] = POS_FIRST]
      /\ permanent' = [permanent EXCEPT ![n] = FALSE]
      /\ root' = root /\ panicked' = panicked
  BY DEF ReplacedInCopy, IntoCopy
<1>3. refs' = [b EXCEPT ![n] = 0] /\ work' = <<DecOf(y)>>
  BY DEF ReplacedInCopy
<1>4. /\ t \in Seq(Node) /\ Len(t) = Len(args[k])
      /\ \A x \in Node :
           /\ Occ(t, x) \in Nat /\ Occ(args[k], x) \in Nat
           /\ Occ(t, x) + (IF x = y THEN 1 ELSE 0)
                = Occ(args[k], x) + (IF x = v THEN 1 ELSE 0)
  BY OverwriteOcc, SMTT(30)
<1> HIDE DEF t
<1>5. POS_FIRST \in Nat /\ POS_FIRST + Len(t) <= MAX_GARBAGE_ARG_LEN
  BY <1>4, HeapAssumption DEF HeapAssumption, Fits
<1>6. y \in Node /\ Live(y)
  BY ArgLive
<1> HIDE DEF y
<1>7. /\ work' \in Seq(Pending)
      /\ \A x \in Node : /\ Occ(work', AuxOf(x)) = 0
                         /\ Occ(work', DecOf(x)) = IF x = y THEN 1 ELSE 0
  BY <1>3, <1>6, OneDec
<1>8. /\ b \in [Node -> Int]
      /\ \A x \in Node : b[x] = (refs[x] + Occ(args[k], x)) + Occ(<<v>>, x)
  <2> DEFINE c == Bump(refs, args[k])
  <2>1. c \in [Node -> Int] /\ \A x \in Node : c[x] = refs[x] + Occ(args[k], x)
    BY <1>1, BumpDrop
  <2> HIDE DEF c
  <2>2. /\ Bump(c, <<v>>) \in [Node -> Int]
        /\ \A x \in Node : Bump(c, <<v>>)[x] = c[x] + Occ(<<v>>, x)
    BY <1>1, <2>1, BumpDrop
  <2> QED
    BY <2>1, <2>2 DEF c
<1> HIDE DEF b
<1>9. refs' \in [Node -> Int] /\ refs'[n] = 0
  BY <1>3, <1>8
<1>10. ASSUME NEW x \in Node \ {n}
       PROVE  refs'[x] = refs[x] + Occ(t, x) + Occ(work', DecOf(x))
  <2> DEFINE r  == refs[x]
             r2 == refs'[x]
             o  == Occ(args[k], x)
             u  == Occ(t, x)
             c  == Occ(work', DecOf(x))
             d  == Occ(<<v>>, x)
  <2>1. r2 = (r + o) + d /\ r \in Int
    BY <1>1, <1>3, <1>8
  <2>2. u + c = o + d /\ u \in Nat /\ o \in Nat /\ c \in Nat /\ d \in Nat
    <3>1. d = IF x = v THEN 1 ELSE 0
      BY OccOne
    <3>2. c = IF x = y THEN 1 ELSE 0
      BY <1>7
    <3> HIDE DEF c, d
    <3>3. u + (IF x = y THEN 1 ELSE 0) = o + (IF x = v THEN 1 ELSE 0) /\ u \in Nat /\ o \in Nat
      BY <1>4
    <3> HIDE DEF u, o
    <3> QED
      BY <3>1, <3>2, <3>3
  <2> HIDE DEF r, r2, o, u, c, d
  <2>3. r2 = r + u + c
    BY <2>1, <2>2
  <2> QED
    BY <2>3 DEF r, r2, u, c
<1>11. ASSUME NEW x \in Node, Dead(x)
       PROVE  Occ(t, x) = 0 /\ Occ(work', DecOf(x)) = 0
  <2>1. Occ(args[k], x) = 0 /\ x # v /\ x # y
    BY <1>6, <1>11, DeadIsolated DEF Live
  <2> QED
    BY <1>4, <1>7, <2>1
<1> QED
  BY <1>2, <1>4, <1>5, <1>7, <1>9, <1>10, <1>11, FillStep

\* k_replace_arg.
LEMMA ReplaceInv ==
  ASSUME IInv, NEW k \in Node, NEW i \in 1..MAX_GARBAGE_ARG_LEN, NEW v \in Node,
         K_replace_arg(k, i, v)
  PROVE  IInv'
<1>1. work = <<>> /\ Live(k) /\ Live(v) /\ i \in DOMAIN args[k]
  BY DEF K_replace_arg, Idle
<1>2. CASE CopyStops(k, 1)
  BY <1>2, StopInv DEF CopyStops, Reasons
<1>3. CASE Fits(Len(args[k])) /\ \E n \in Node : ReplacedInCopy(n, k, i, v)
  BY <1>1, <1>3, ReplaceCopyStep
<1>4. CASE Overwritten(k, i, v)
  BY <1>1, <1>4, OverwriteStep
<1> QED
  BY <1>2, <1>3, <1>4 DEF K_replace_arg, ReplacedInCopy, Overwritten

Inserted(k, pos, count, s) ==
  SubSeq(args[k], 1, pos) \o s \o SubSeq(args[k], pos + count + 1, Len(args[k]))

\* The arguments k_insert_elems leaves, and what Incs and Decs they need: with
\* the references of one copy of the old arguments in hand, dropping those
\* overwritten and adding those inserted.
LEMMA InsertedArgs ==
  ASSUME IInv, NEW k \in Node, NEW pos \in Nat, NEW count \in Nat,
         pos + count <= Len(args[k]), NEW s \in Seq(Node), \A x \in Range(s) : Live(x),
         NEW b \in [Node -> Int]
  PROVE  LET new  == Inserted(k, pos, count, s)
             over == SubSeq(args[k], pos + 1, pos + count)
             d    == Bump(Drop(Bump(b, args[k]), over), s)
         IN  /\ new \in Seq(Node) /\ d \in [Node -> Int]
             /\ \A x \in Node : /\ Occ(new, x) \in Nat /\ d[x] = b[x] + Occ(new, x)
                                /\ Dead(x) => Occ(new, x) = 0
<1> DEFINE old  == args[k]
           head == SubSeq(old, 1, pos)
           q    == pos + count
           over == SubSeq(old, pos + 1, q)
           tail == SubSeq(old, q + 1, Len(old))
           new  == (head \o s) \o tail
           b1   == Bump(b, old)
           b2   == Drop(b1, over)
           d    == Bump(b2, s)
<1>1. old \in Seq(Node) /\ Len(old) \in Nat
  BY Window DEF IInv
<1>2. pos \in 0..Len(old) /\ q \in pos..Len(old)
  BY <1>1
<1> HIDE DEF old, q
<1>3. /\ head \in Seq(Node) /\ over \in Seq(Node) /\ tail \in Seq(Node)
      /\ \A x : Occ(old, x) = Occ(head, x) + Occ(over, x) + Occ(tail, x)
  BY <1>1, <1>2, OccSplit
<1> HIDE DEF head, over, tail
<1>4. b1 \in [Node -> Int] /\ \A x \in Node : b1[x] = b[x] + Occ(old, x)
  BY <1>1, BumpDrop
<1> HIDE DEF b1
<1>5. b2 \in [Node -> Int] /\ \A x \in Node : b2[x] = b1[x] - Occ(over, x)
  BY <1>3, <1>4, BumpDrop
<1> HIDE DEF b2
<1>6. d \in [Node -> Int] /\ \A x \in Node : d[x] = b2[x] + Occ(s, x)
  BY <1>5, BumpDrop
<1> HIDE DEF d
<1>7. head \o s \in Seq(Node) /\ new \in Seq(Node)
  BY <1>3
<1>8. \A x : Occ(new, x) = Occ(head, x) + Occ(s, x) + Occ(tail, x)
  <2>1. \A x : Occ(head \o s, x) = Occ(head, x) + Occ(s, x)
    BY <1>3, OccConcat
  <2>2. \A x : Occ((head \o s) \o tail, x) = Occ(head \o s, x) + Occ(tail, x)
    BY <1>3, <1>7, OccConcat, ZenonT(40)
  <2> QED
    BY <2>1, <2>2
<1> HIDE DEF new
<1>9. ASSUME NEW x \in Node
      PROVE  Occ(new, x) \in Nat /\ d[x] = b[x] + Occ(new, x) /\ (Dead(x) => Occ(new, x) = 0)
  <2> DEFINE n == Occ(new, x)
             o == Occ(old, x)
             h == Occ(head, x)
             v == Occ(over, x)
             t == Occ(tail, x)
             e == Occ(s, x)
             y == d[x]
             z == b[x]
  <2>1. /\ n \in Nat /\ o \in Nat /\ h \in Nat /\ v \in Nat /\ t \in Nat /\ e \in Nat /\ z \in Int
        /\ n = h + e + t /\ o = h + v + t
    BY <1>1, <1>3, <1>7, <1>8, OccNat
  <2>2. y = ((z + o) - v) + e
    BY <1>4, <1>5, <1>6
  <2>3. Dead(x) => o = 0 /\ e = 0
    BY DeadIsolated, DeadNotListed DEF old
  <2> HIDE DEF n, o, h, v, t, e, y, z
  <2>4. n \in Nat /\ y = z + n /\ (Dead(x) => n = 0)
    BY <2>1, <2>2, <2>3
  <2> QED
    BY <2>4 DEF n, y, z
<1> QED
  BY <1>6, <1>7, <1>9 DEF new, d, b2, b1, head, over, tail, q, old, Inserted

InsertedInPlace(f, k, pos, count, s) ==
  LET old  == args[k]
      over == SubSeq(old, pos + 1, pos + count)
  IN /\ CanAcquire(garbage_k, mallocd, f)
     /\ garbage_k' = Popped(garbage_k)
     /\ mallocd'   = mallocd \cup {f}
     /\ refs'      = [Bump(Drop(Bump(refs, old), over), s) EXCEPT ![f] = 0]
     /\ args'      = [args EXCEPT ![k] = Inserted(k, pos, count, s)]
     /\ pos_first' = [pos_first EXCEPT ![f] = POS_FIRST]
     /\ permanent' = [permanent EXCEPT ![f] = FALSE]
     /\ work'      = Append(DecEach(old), AuxOf(f))
     /\ UNCHANGED <<root, panicked>>

\* k_insert_elems in place.
LEMMA InsertStep ==
  ASSUME IInv, work = <<>>, NEW k \in Node, Live(k), NEW pos \in Nat, NEW count \in Nat,
         pos + count <= Len(args[k]), NEW s \in Seq(Node), \A x \in Range(s) : Live(x),
         pos_first[k] + Len(Inserted(k, pos, count, s)) <= MAX_GARBAGE_ARG_LEN,
         NEW f \in Node, InsertedInPlace(f, k, pos, count, s)
  PROVE  IInv'
<1> DEFINE old == args[k]
           new == Inserted(k, pos, count, s)
           d   == Bump(Drop(Bump(refs, old), SubSeq(old, pos + 1, pos + count)), s)
<1>1. /\ CanAcquire(garbage_k, mallocd, f) /\ garbage_k' = Popped(garbage_k)
      /\ mallocd' = mallocd \cup {f} /\ args' = [args EXCEPT ![k] = new]
      /\ pos_first' = [pos_first EXCEPT ![f] = POS_FIRST]
      /\ permanent' = [permanent EXCEPT ![f] = FALSE]
      /\ root' = root /\ panicked' = panicked
  BY DEF InsertedInPlace
<1>2. refs' = [d EXCEPT ![f] = 0] /\ work' = Append(DecEach(old), AuxOf(f))
  BY DEF InsertedInPlace
<1>3. old \in Seq(Node) /\ refs \in [Node -> Int] /\ TypeOK /\ args \in [Node -> Seq(Node)]
  <2>1. refs \in [Node -> Nat] /\ TypeOK /\ args \in [Node -> Seq(Node)]
    BY DEF IInv, TypeOK
  <2> QED
    BY <2>1
<1>4. /\ new \in Seq(Node) /\ d \in [Node -> Int]
      /\ \A x \in Node : /\ Occ(new, x) \in Nat /\ d[x] = refs[x] + Occ(new, x)
                         /\ Dead(x) => Occ(new, x) = 0
  BY <1>3, InsertedArgs, ZenonT(40)
<1>5. pos_first[k] + Len(new) <= MAX_GARBAGE_ARG_LEN
  OBVIOUS
<1> HIDE DEF new, d
<1>6. /\ Dead(f) /\ refs[f] = 0 /\ args[f] = <<>> /\ f # k
      /\ Popped(garbage_k) \in Seq(Node) /\ mallocd \cup {f} \in SUBSET Node
      /\ \A x \in Node : Occ(Popped(garbage_k), x) = IF x = f THEN 0 ELSE Occ(garbage_k, x)
  BY <1>1, AcquireStep DEF Live
<1>7. /\ work' \in Seq(Pending)
      /\ \A x \in Node : /\ Occ(work', DecOf(x)) = Occ(old, x)
                         /\ Occ(work', AuxOf(x)) = IF x = f THEN 1 ELSE 0
  BY <1>2, <1>3, DisposeWork
<1>8. /\ pos_first' \in [Node -> 0..MAX_GARBAGE_ARG_LEN] /\ permanent' \in [Node -> BOOLEAN]
      /\ panicked' \in Reasons /\ garbage_k' \in Seq(Node) /\ mallocd' \in SUBSET Node
      /\ \A x \in Node \ {k} : pos_first'[x] = pos_first[x] \/ args[x] = <<>>
      /\ pos_first'[k] + Len(new) <= MAX_GARBAGE_ARG_LEN
  BY <1>1, <1>3, <1>5, <1>6, HeapAssumption DEF TypeOK, HeapAssumption
<1>9. refs' \in [Node -> Int] /\ \A x \in Node : refs'[x] = refs[x] + Occ(new, x)
  <2>1. refs' \in [Node -> Int] /\ refs'[f] = 0 /\ \A x \in Node \ {f} : refs'[x] = d[x]
    BY <1>2, <1>4
  <2>2. Occ(new, f) = 0 /\ refs[f] + 0 = 0
    BY <1>4, <1>6
  <2> QED
    BY <1>4, <1>6, <2>1, <2>2
<1>10. ASSUME NEW x \in Node
       PROVE  refs'[x] + Occ(old, x) + Occ(work, DecOf(x))
                = refs[x] + Occ(new, x) + Occ(work', DecOf(x))
  <2> DEFINE r  == refs[x]
             r2 == refs'[x]
             n  == Occ(new, x)
             o  == Occ(old, x)
             w  == Occ(work, DecOf(x))
             w2 == Occ(work', DecOf(x))
  <2>1. r2 = r + n /\ r \in Int /\ n \in Nat /\ o \in Nat /\ w2 = o /\ w = 0
    BY <1>3, <1>4, <1>7, <1>9, OccNat, OccEmpty
  <2> HIDE DEF r, r2, n, o, w, w2
  <2>2. r2 + o + w = r + n + w2
    BY <2>1
  <2> QED
    BY <2>2 DEF r, r2, n, o, w, w2
<1>11. ReclaimedOnce'
  <2> DEFINE one == {f}
  <2>1. /\ one \in SUBSET Node
        /\ \A x \in one : x \in one \/ Live(x)
        /\ \A x \in Node : Occ(work', AuxOf(x)) = IF x \in one THEN 1 ELSE 0
        /\ \A x \in Node : x \in mallocd' <=> x \in mallocd \/ x \in one
        /\ \A x \in Node : Occ(garbage_k', x) = IF x \in one THEN 0 ELSE Occ(garbage_k, x)
    BY <1>1, <1>6, <1>7
  <2>2. ASSUME NEW x \in Node, (Dead(x) /\ x \notin one) \/ x \in one
        PROVE  refs'[x] = 0 /\ args'[x] = <<>>
    <3>1. Dead(x)
      BY <1>6, <2>2
    <3>2. refs[x] = 0 /\ args[x] = <<>> /\ x # k
      BY <3>1, DeadIsolated DEF Live
    <3>3. refs'[x] = 0
      BY <1>4, <1>9, <3>1, <3>2
    <3> QED
      BY <1>1, <1>3, <3>2, <3>3
  <2> HIDE DEF one
  <2> QED
    BY <1>7, <1>8, <2>1, <2>2, ReclaimStep
<1> QED
  BY <1>1, <1>4, <1>7, <1>8, <1>9, <1>10, <1>11, WriteStep, ZenonT(40)

InsertedInCopy(f, n, k, pos, count, s) ==
  LET old  == args[k]
      over == SubSeq(old, pos + 1, pos + count)
  IN /\ CanAcquire(garbage_k, mallocd, f)
     /\ CanAcquire(Popped(garbage_k), mallocd \cup {f}, n)
     /\ garbage_k' = Popped(Popped(garbage_k))
     /\ mallocd'   = mallocd \cup {f, n}
     /\ refs'      = [Bump(Drop(Bump(Bump(refs, old), old), over), s) EXCEPT ![f] = 0, ![n] = 0]
     /\ args'      = [args EXCEPT ![n] = Inserted(k, pos, count, s)]
     /\ pos_first' = [pos_first EXCEPT ![f] = POS_FIRST, ![n] = POS_FIRST]
     /\ permanent' = [permanent EXCEPT ![f] = FALSE, ![n] = FALSE]
     /\ work'      = Append(DecEach(old), AuxOf(f))
     /\ UNCHANGED <<root, panicked>>

\* What a second _k_acquire returns.
LEMMA AcquireTwice ==
  ASSUME IInv, work = <<>>, NEW f \in Node, CanAcquire(garbage_k, mallocd, f),
         NEW n \in Node, CanAcquire(Popped(garbage_k), mallocd \cup {f}, n)
  PROVE  /\ Dead(f) /\ Dead(n) /\ f # n
         /\ Popped(Popped(garbage_k)) \in Seq(Node)
         /\ \A x \in Node : Occ(Popped(Popped(garbage_k)), x)
                              = IF x \in {f, n} THEN 0 ELSE Occ(garbage_k, x)
<1> DEFINE g == Popped(garbage_k)
           m == mallocd \cup {f}
<1>1. garbage_k \in Seq(Node) /\ mallocd \in SUBSET Node
  BY DEF IInv, TypeOK
<1>2. \A x \in Node : /\ Occ(garbage_k, x) = IF x \in Range(garbage_k) THEN 1 ELSE 0
                      /\ x \in Range(garbage_k) => x \in mallocd
  BY PoolOnce
<1>3. /\ g \in Seq(Node)
      /\ f \in Range(garbage_k) \/ f \notin mallocd
      /\ \A x \in Node : /\ Occ(g, x) = IF x = f THEN 0 ELSE Occ(garbage_k, x)
                         /\ x \in Range(g) <=> x \in Range(garbage_k) /\ x # f
                         /\ Occ(g, x) = IF x \in Range(g) THEN 1 ELSE 0
  BY <1>1, <1>2, Acquire
<1> HIDE DEF g
<1>4. m \in SUBSET Node /\ \A x \in Node : x \in Range(g) => x \in m
  BY <1>1, <1>2, <1>3
<1>5. CanAcquire(g, m, n)
  BY DEF g
<1> HIDE DEF m
<1>6. /\ Popped(g) \in Seq(Node)
      /\ n \in Range(g) \/ n \notin m
      /\ \A x \in Node : Occ(Popped(g), x) = IF x = n THEN 0 ELSE Occ(g, x)
  BY <1>3, <1>4, <1>5, Acquire
<1>7. Dead(f) /\ Dead(n) /\ f # n
  BY <1>3, <1>6 DEF m, Dead
<1>8. \A x \in Node : Occ(Popped(g), x) = IF x \in {f, n} THEN 0 ELSE Occ(garbage_k, x)
  BY <1>3, <1>6
<1> QED
  BY <1>6, <1>7, <1>8 DEF g

\* k_insert_elems into a copy.
LEMMA InsertCopyStep ==
  ASSUME IInv, work = <<>>, NEW k \in Node, Live(k), NEW pos \in Nat, NEW count \in Nat,
         pos + count <= Len(args[k]), NEW s \in Seq(Node), \A x \in Range(s) : Live(x),
         Fits(Len(Inserted(k, pos, count, s))),
         NEW f \in Node, NEW n \in Node, InsertedInCopy(f, n, k, pos, count, s)
  PROVE  IInv'
<1> DEFINE old == args[k]
           new == Inserted(k, pos, count, s)
           b   == Bump(refs, old)
           d   == Bump(Drop(Bump(b, old), SubSeq(old, pos + 1, pos + count)), s)
<1>1. /\ CanAcquire(garbage_k, mallocd, f) /\ CanAcquire(Popped(garbage_k), mallocd \cup {f}, n)
      /\ garbage_k' = Popped(Popped(garbage_k))
      /\ mallocd' = mallocd \cup {f, n} /\ args' = [args EXCEPT ![n] = new]
      /\ pos_first' = [pos_first EXCEPT ![f] = POS_FIRST, ![n] = POS_FIRST]
      /\ permanent' = [permanent EXCEPT ![f] = FALSE, ![n] = FALSE]
      /\ root' = root /\ panicked' = panicked
  BY DEF InsertedInCopy
<1>2. refs' = [d EXCEPT ![f] = 0, ![n] = 0] /\ work' = Append(DecEach(old), AuxOf(f))
  BY DEF InsertedInCopy
<1>3. old \in Seq(Node) /\ refs \in [Node -> Int] /\ TypeOK /\ args \in [Node -> Seq(Node)]
  <2>1. refs \in [Node -> Nat] /\ TypeOK /\ args \in [Node -> Seq(Node)]
    BY DEF IInv, TypeOK
  <2> QED
    BY <2>1
<1>4. b \in [Node -> Int] /\ \A x \in Node : b[x] = refs[x] + Occ(old, x) /\ Occ(old, x) \in Nat
  BY <1>3, BumpDrop
<1> HIDE DEF b
<1>5. /\ new \in Seq(Node) /\ d \in [Node -> Int]
      /\ \A x \in Node : /\ Occ(new, x) \in Nat /\ d[x] = b[x] + Occ(new, x)
                         /\ Dead(x) => Occ(new, x) = 0
  BY <1>4, InsertedArgs, ZenonT(40)
<1>6. POS_FIRST + Len(new) <= MAX_GARBAGE_ARG_LEN
  BY DEF Fits
<1> HIDE DEF new, d
<1>7. /\ Dead(f) /\ Dead(n) /\ f # n
      /\ Popped(Popped(garbage_k)) \in Seq(Node)
      /\ \A x \in Node : Occ(Popped(Popped(garbage_k)), x)
                           = IF x \in {f, n} THEN 0 ELSE Occ(garbage_k, x)
  BY <1>1, AcquireTwice
<1>8. \A x \in Node : Dead(x) => refs[x] = 0 /\ args[x] = <<>> /\ Occ(old, x) = 0 /\ x # k
  BY DeadIsolated DEF Live
<1>9. /\ work' \in Seq(Pending)
      /\ \A x \in Node : /\ Occ(work', DecOf(x)) = Occ(old, x)
                         /\ Occ(work', AuxOf(x)) = IF x = f THEN 1 ELSE 0
  BY <1>2, <1>3, DisposeWork, SMTT(30)
<1>10. /\ pos_first' \in [Node -> 0..MAX_GARBAGE_ARG_LEN] /\ permanent' \in [Node -> BOOLEAN]
       /\ panicked' \in Reasons /\ garbage_k' \in Seq(Node) /\ mallocd' \in SUBSET Node
       /\ \A x \in Node \ {n} : pos_first'[x] = pos_first[x] \/ args[x] = <<>>
       /\ pos_first'[n] + Len(new) <= MAX_GARBAGE_ARG_LEN
  <2>1. /\ POS_FIRST \in 0..MAX_GARBAGE_ARG_LEN /\ pos_first \in [Node -> 0..MAX_GARBAGE_ARG_LEN]
        /\ permanent \in [Node -> BOOLEAN] /\ panicked \in Reasons /\ mallocd \in SUBSET Node
    BY <1>3, HeapAssumption DEF HeapAssumption, TypeOK
  <2>2. pos_first'[n] = POS_FIRST /\ \A x \in Node \ {f, n} : pos_first'[x] = pos_first[x]
    BY <1>1, <2>1
  <2> QED
    BY <1>1, <1>6, <1>7, <1>8, <2>1, <2>2
<1>11. refs' \in [Node -> Int] /\ \A x \in Node : refs'[x] = refs[x] + Occ(old, x) + Occ(new, x)
  <2>1. /\ refs' \in [Node -> Int] /\ refs'[f] = 0 /\ refs'[n] = 0
        /\ \A x \in Node \ {f, n} : refs'[x] = d[x]
    BY <1>2, <1>5, SMTT(30)
  <2>2. /\ Occ(new, f) = 0 /\ Occ(old, f) = 0 /\ refs[f] = 0
        /\ Occ(new, n) = 0 /\ Occ(old, n) = 0 /\ refs[n] = 0
    BY <1>5, <1>7, <1>8
  <2>3. ASSUME NEW x \in Node
        PROVE  refs'[x] = refs[x] + Occ(old, x) + Occ(new, x)
    <3> DEFINE r  == refs[x]
               r2 == refs'[x]
               o  == Occ(old, x)
               u  == Occ(new, x)
    <3>1. CASE x \in {f, n}
      <4>1. r2 = 0 /\ r = 0 /\ o = 0 /\ u = 0
        BY <2>1, <2>2, <3>1
      <4> HIDE DEF r, r2, o, u
      <4>2. r2 = r + o + u
        BY <4>1
      <4> QED
        BY <4>2 DEF r, r2, o, u
    <3>2. CASE x \notin {f, n}
      <4>1. r2 = (r + o) + u
        BY <1>4, <1>5, <2>1, <3>2
      <4> QED
        BY <4>1
    <3> QED
      BY <3>1, <3>2
  <2> QED
    BY <2>1, <2>3
<1>12. ASSUME NEW x \in Node
       PROVE  refs'[x] + Occ(args[n], x) + Occ(work, DecOf(x))
                = refs[x] + Occ(new, x) + Occ(work', DecOf(x))
  <2> DEFINE r  == refs[x]
             r2 == refs'[x]
             u  == Occ(new, x)
             o  == Occ(old, x)
             e  == Occ(args[n], x)
             w  == Occ(work, DecOf(x))
             w2 == Occ(work', DecOf(x))
  <2>1. e = 0 /\ w = 0
    BY <1>7, <1>8, OccEmpty
  <2>2. r2 = r + o + u /\ r \in Int /\ u \in Nat /\ o \in Nat /\ w2 = o
    BY <1>3, <1>4, <1>5, <1>9, <1>11
  <2> HIDE DEF r, r2, u, o, e, w, w2
  <2>3. r2 + e + w = r + u + w2
    BY <2>1, <2>2
  <2> QED
    BY <2>3 DEF r, r2, u, e, w, w2
<1>13. ReclaimedOnce'
  <2> DEFINE one == {f}
             two == {f, n}
  <2>1. /\ one \in SUBSET Node /\ two \in SUBSET Node
        /\ \A x \in one : x \in two \/ Live(x)
        /\ \A x \in Node : Occ(work', AuxOf(x)) = IF x \in one THEN 1 ELSE 0
        /\ \A x \in Node : x \in mallocd' <=> x \in mallocd \/ x \in two
        /\ \A x \in Node : Occ(garbage_k', x) = IF x \in two THEN 0 ELSE Occ(garbage_k, x)
    BY <1>1, <1>7, <1>9
  <2>2. ASSUME NEW x \in Node, (Dead(x) /\ x \notin two) \/ x \in one
        PROVE  refs'[x] = 0 /\ args'[x] = <<>>
    <3>1. Dead(x) /\ x # n
      BY <1>7, <2>2
    <3>2. refs[x] = 0 /\ args[x] = <<>> /\ Occ(old, x) = 0 /\ Occ(new, x) = 0
      BY <1>5, <1>8, <3>1
    <3>3. refs'[x] = 0
      BY <1>11, <3>2
    <3> QED
      BY <1>1, <1>3, <3>1, <3>2, <3>3
  <2> HIDE DEF one, two
  <2> QED
    BY <1>9, <1>10, <2>1, <2>2, ReclaimStep
<1>14. args' = [args EXCEPT ![n] = new] /\ root' = root
  BY <1>1
<1>15. refs' \in [Node -> Int] /\ new \in Seq(Node) /\ work' \in Seq(Pending)
  BY <1>5, <1>9, <1>11
<1> QED
  BY <1>10, <1>12, <1>13, <1>14, <1>15, WriteStep

\* k_insert_elems.
LEMMA InsertInv ==
  ASSUME IInv, NEW k \in Node, NEW pos \in 0..MAX_GARBAGE_ARG_LEN,
         NEW count \in 0..MAX_GARBAGE_ARG_LEN, NEW s \in ArgLists(MAX_GARBAGE_ARG_LEN),
         K_insert_elems(k, pos, count, s)
  PROVE  IInv'
<1> DEFINE new == Inserted(k, pos, count, s)
<1>1. /\ work = <<>> /\ Live(k) /\ pos + count <= Len(args[k])
      /\ \A x \in Range(s) : Live(x)
  BY DEF K_insert_elems, Idle
<1>2. pos \in Nat /\ count \in Nat /\ s \in Seq(Node)
  BY HeapAssumption DEF HeapAssumption, ArgLists
<1>3. CASE CopyStops(k, 1) \/ CopyStops(k, 2) \/ Stop("no room")
  BY <1>3, StopInv DEF CopyStops, Reasons
<1>4. CASE /\ pos_first[k] + Len(new) <= MAX_GARBAGE_ARG_LEN
           /\ \E f \in Node : InsertedInPlace(f, k, pos, count, s)
  BY <1>1, <1>2, <1>4, InsertStep
<1>5. CASE /\ Fits(Len(new))
           /\ \E f, n \in Node : InsertedInCopy(f, n, k, pos, count, s)
  BY <1>1, <1>2, <1>5, InsertCopyStep
<1> QED
  BY <1>3, <1>4, <1>5 DEF K_insert_elems, Inserted, InsertedInPlace, InsertedInCopy

-----------------------------------------------------------------------------
(* The invariant holds in every behaviour.                                 *)

\* The heap is empty when the program starts.
LEMMA InitInv == ASSUME Init PROVE IInv
<1>1. /\ refs = [k \in Node |-> 0] /\ args = [k \in Node |-> <<>>]
      /\ pos_first = [k \in Node |-> POS_FIRST] /\ permanent = [k \in Node |-> FALSE]
      /\ garbage_k = <<>> /\ mallocd = {} /\ root = [r \in Root |-> NoNode]
      /\ work = <<>> /\ panicked = "no"
  BY DEF Init
<1>2. POS_FIRST \in 0..MAX_GARBAGE_ARG_LEN /\ MAX_GARBAGE_ARG_LEN \in Nat
  BY HeapAssumption DEF HeapAssumption
<1>3. TypeOK
  BY <1>1, <1>2 DEF TypeOK, Reasons
<1>4. WindowInBounds
  BY <1>1, <1>2 DEF WindowInBounds
<1>5. RefCountsExact
  <2> SUFFICES ASSUME NEW k \in Node PROVE refs[k] = Holders(k)
    BY DEF RefCountsExact
  <2>1. SlotsOf(args, k) = {}
    <3>1. \A e \in Node \X (1..MAX_GARBAGE_ARG_LEN) : DOMAIN args[e[1]] = {}
      BY <1>1
    <3> QED
      BY <3>1 DEF SlotsOf
  <2>2. OwnersOf(root, k) = {}
    BY <1>1, HeapAssumption DEF OwnersOf, HeapAssumption
  <2>3. Cardinality({}) = 0
    BY FS_EmptySet
  <2>4. Occ(work, DecOf(k)) = 0
    BY <1>1, OccEmpty
  <2>5. Holders(k) = Cardinality({}) + Cardinality({}) + Occ(work, DecOf(k))
    BY <2>1, <2>2, Zenon DEF Holders
  <2>6. refs[k] = 0
    BY <1>1
  <2> QED
    BY <2>3, <2>4, <2>5, <2>6
<1>6. ReclaimedOnce
  <2>1. ASSUME NEW k \in Node PROVE Occ(garbage_k, k) = 0 /\ Occ(work, AuxOf(k)) = 0
    BY <1>1, OccEmpty
  <2> QED
    BY <1>1, <2>1 DEF ReclaimedOnce
<1> QED
  BY <1>3, <1>4, <1>5, <1>6 DEF IInv

\* Every step keeps the invariant.
LEMMA NextInv == ASSUME IInv, [Next]_vars PROVE IInv'
<1>1. ASSUME NEW s \in ArgLists(MAX_GARBAGE_ARG_LEN + 1), K_new(s) PROVE IInv'
  BY <1>1, NewInv
<1>2. ASSUME NEW k \in Node, K_make_permanent(k) PROVE IInv'
  BY <1>2, PermanentInv
<1>3. ASSUME NEW k \in Node, K_dispose(k) PROVE IInv'
  BY <1>3, DisposeInv
<1>4. ASSUME NEW k \in Node, Edit(k) PROVE IInv'
  <2>1. ASSUME NEW left \in 0..MAX_GARBAGE_ARG_LEN, K_without_first_n_arg(k, left) PROVE IInv'
    BY <2>1, WithoutFirstInv
  <2>2. ASSUME NEW left \in 0..MAX_GARBAGE_ARG_LEN, NEW right \in 0..MAX_GARBAGE_ARG_LEN,
               UpdateTrimArgs(k, left, right)
        PROVE  IInv'
    BY <2>2, TrimInv
  <2>3. ASSUME NEW i \in 1..MAX_GARBAGE_ARG_LEN, NEW v \in Node, K_set_arg(k, i, v) PROVE IInv'
    BY <2>3, SetArgInv
  <2>4. ASSUME NEW i \in 1..MAX_GARBAGE_ARG_LEN, NEW v \in Node, K_replace_arg(k, i, v) PROVE IInv'
    BY <2>4, ReplaceInv
  <2>5. ASSUME NEW v \in Node, K_add_front_arg(k, v) PROVE IInv'
    BY <2>5, AddFrontInv
  <2>6. ASSUME NEW pos \in 0..MAX_GARBAGE_ARG_LEN, NEW count \in 0..MAX_GARBAGE_ARG_LEN,
               NEW s \in ArgLists(MAX_GARBAGE_ARG_LEN), K_insert_elems(k, pos, count, s)
        PROVE  IInv'
    BY <2>6, InsertInv
  <2> QED
    BY <1>4, <2>1, <2>2, <2>3, <2>4, <2>5, <2>6 DEF Edit
<1>5. ASSUME NEW r \in Root, NEW k \in Node, Own(r, k) PROVE IInv'
  BY <1>5, OwnInv
<1>6. ASSUME NEW r \in Root, Disown(r) PROVE IInv'
  BY <1>6, DisownInv
<1>7. CASE DecStep
  BY <1>7, DecKeptInv, DecLastInv
<1>8. CASE AuxStep
  BY <1>8, AuxInv
<1>9. CASE UNCHANGED vars
  BY <1>9, Unchanged DEF vars, IInv, TypeOK
<1> QED
  BY <1>1, <1>2, <1>3, <1>4, <1>5, <1>6, <1>7, <1>8, <1>9 DEF Next, Cascade, Stopped

\* The inductive invariant holds in every reachable state.
THEOREM Inductive == Spec => []IInv
<1>1. Init => IInv
  BY InitInv
<1>2. IInv /\ [Next]_vars => IInv'
  BY NextInv
<1> QED
  BY <1>1, <1>2, PTL DEF Spec

\* Every variable keeps its type; in particular no reference count goes below
\* zero.
THEOREM TypeCorrect == Spec => []TypeOK
<1>1. IInv => TypeOK
  BY DEF IInv
<1> QED
  BY <1>1, Inductive, PTL

\* K.refs is exact, whatever edits, copies, cascades and panics happened.
THEOREM CountsAreExact == Spec => []RefCountsExact
<1>1. IInv => RefCountsExact
  BY DEF IInv
<1> QED
  BY <1>1, Inductive, PTL

\* A reclaimed node is referenced by nothing and on the free list once.
THEOREM NodesReclaimedOnce == Spec => []ReclaimedOnce
<1>1. IInv => ReclaimedOnce
  BY DEF IInv
<1> QED
  BY <1>1, Inductive, PTL

\* No argument is ever written outside the array of its node.
THEOREM WindowsInBounds == Spec => []WindowInBounds
<1>1. IInv => WindowInBounds
  BY DEF IInv
<1> QED
  BY <1>1, Inductive, PTL

\* The assertions on reference counts in Dec and dispose_k_itself never fail.
THEOREM CascadeAssertionsHold == Spec => []CascadeAssertions
<1>1. ASSUME IInv, work # <<>>, Head(work).op = "Dec"
      PROVE  refs[Head(work).k] >= 1 /\ Live(Head(work).k)
  <2> DEFINE r == refs[Head(work).k]
  <2>1. r \in Nat /\ r # 0 /\ Live(Head(work).k)
    BY <1>1, PendingLive
  <2> HIDE DEF r
  <2>2. r >= 1
    BY <2>1
  <2> QED
    BY <2>1, <2>2 DEF r
<1>2. ASSUME IInv, work # <<>>, Head(work).op # "Dec"
      PROVE  refs[Head(work).k] = 0
  <2> DEFINE h == Head(work)
  <2>1. work \in Seq(Pending) /\ h \in Pending /\ h \in Range(work)
    <3>1. work \in Seq(Pending) /\ work # <<>>
      BY <1>2 DEF IInv, TypeOK
    <3>2. h = work[1] /\ 1 \in DOMAIN work /\ h \in Pending
      BY <3>1, HeadTailProperties, LenProperties, EmptySeq
    <3> QED
      BY <3>1, <3>2 DEF Range
  <2> HIDE DEF h
  <2>2. h.k \in Node /\ h = AuxOf(h.k)
    BY <1>2, <2>1 DEF Pending, AuxOf, h
  <2>3. Dead(h.k)
    BY <2>1, <2>2 DEF Dead
  <2> QED
    BY <1>2, <2>2, <2>3, DeadIsolated DEF h
<1>3. IInv => CascadeAssertions
  BY <1>1, <1>2 DEF CascadeAssertions
<1> QED
  BY <1>3, Inductive, PTL

-----------------------------------------------------------------------------
(* For the programs that run on the heap: the calls they make, one of the  *)
(* functions of k.c with the arguments they pass, are steps of KHeap.      *)

\* A list is one of those KHeap calls are made with unless it is too long.
LEMMA ShortList ==
  ASSUME NEW s \in Seq(Node), NEW m \in Nat, Len(s) <= m
  PROVE  s \in ArgLists(m)
<1>1. s \in [1..Len(s) -> Node] /\ Len(s) \in 0..m
  BY LenProperties
<1> QED
  BY <1>1 DEF ArgLists

\* k_new of a list of any length is a call of the heap: one that is too long is
\* refused whatever it holds.
LEMMA NewIsCall ==
  ASSUME NEW s \in Seq(Node), K_new(s)
  PROVE  Next
<1> DEFINE m == MAX_GARBAGE_ARG_LEN + 1
<1>1. m \in Nat /\ MAX_GARBAGE_ARG_LEN \in Nat
  BY HeapAssumption DEF HeapAssumption
<1>2. Len(s) \in Nat
  BY LenProperties
<1>3. CASE Len(s) <= m
  <2>1. s \in ArgLists(m)
    BY <1>1, <1>3, ShortList
  <2> QED
    BY <2>1 DEF Next
<1>4. CASE ~ Len(s) <= m
  <2> DEFINE t == SubSeq(s, 1, m)
  <2>1. t \in Seq(Node) /\ Len(t) = m /\ \A i \in 1..m : t[i] = s[i]
    BY <1>1, <1>2, <1>4, SubSeqProperties
  <2>2. t \in ArgLists(m)
    <3> HIDE DEF t, m
    <3>1. Len(t) <= m
      BY <1>1, <2>1
    <3> QED
      BY <1>1, <2>1, <3>1, ShortList
  <2>3. Range(t) \subseteq Range(s)
    BY <1>1, <1>2, <1>4, <2>1 DEF Range
  <2>4. Stop("args length")
    <3>1. ~ Len(s) <= MAX_GARBAGE_ARG_LEN
      BY <1>1, <1>2, <1>4
    <3>2. ~ Fits(Len(s))
      BY <1>1, <1>2, <1>4, HeapAssumption DEF Fits, HeapAssumption
    <3> QED
      BY <3>1, <3>2 DEF K_new
  <2>5. Len(t) > MAX_GARBAGE_ARG_LEN
    BY <1>1, <2>1
  <2>6. K_new(t)
    BY <2>3, <2>4, <2>5 DEF K_new
  <2> QED
    BY <2>2, <2>6 DEF Next
<1> QED
  BY <1>3, <1>4

\* An edit of a node is a call.
LEMMA EditIsCall ==
  ASSUME NEW k \in Node, Edit(k)
  PROVE  Next
  BY DEF Next

\* A change of ownership is a call of the heap.
LEMMA OwnIsCall ==
  ASSUME NEW r \in Root, NEW k \in Node, Own(r, k)
  PROVE  Next
  BY DEF Next

-----------------------------------------------------------------------------
(* Calls that take whatever positions and nodes their guards let through.  *)

\* What is live is a node.
LEMMA LiveIsNode ==
  ASSUME TypeOK, NEW x, Live(x)
  PROVE  x \in Node
  BY DEF TypeOK, Live, Dead

\* Positions in the arguments of a node are positions in its array.
LEMMA PositionInArray ==
  ASSUME IInv, NEW k \in Node
  PROVE  /\ DOMAIN args[k] \subseteq 1..MAX_GARBAGE_ARG_LEN
         /\ Len(args[k]) \in 0..MAX_GARBAGE_ARG_LEN
<1>1. Len(args[k]) \in Nat /\ Len(args[k]) <= MAX_GARBAGE_ARG_LEN /\ MAX_GARBAGE_ARG_LEN \in Nat
  BY Window, HeapAssumption DEF IInv, HeapAssumption
<1>2. DOMAIN args[k] = 1..Len(args[k])
  BY LenProperties DEF IInv, TypeOK
<1> QED
  BY <1>1, <1>2

\* k_set_arg, k_replace_arg and k_add_front_arg.
LEMMA AssignIsCall ==
  ASSUME IInv, NEW k, NEW v, NEW i,
         K_set_arg(k, i, v) \/ K_replace_arg(k, i, v) \/ K_add_front_arg(k, v)
  PROVE  Next
<1>1. TypeOK
  BY DEF IInv
<1>2. Live(k) /\ Live(v)
  BY DEF K_set_arg, K_replace_arg, K_add_front_arg
<1>3. k \in Node /\ v \in Node
  BY <1>1, <1>2, LiveIsNode
<1>4. CASE K_add_front_arg(k, v)
  BY <1>3, <1>4, EditIsCall DEF Edit
<1>5. CASE K_set_arg(k, i, v) \/ K_replace_arg(k, i, v)
  <2>1. i \in DOMAIN args[k]
    BY <1>5 DEF K_set_arg, K_replace_arg
  <2>2. i \in 1..MAX_GARBAGE_ARG_LEN
    BY <1>3, <2>1, PositionInArray
  <2>3. Edit(k)
    BY <1>3, <1>5, <2>2 DEF Edit
  <2> QED
    BY <1>3, <2>3, EditIsCall
<1> QED
  BY <1>4, <1>5

\* k_remove_arg_head.
LEMMA TrimIsCall ==
  ASSUME IInv, NEW k, UpdateTrimArgs(k, 1, Len(args[k]))
  PROVE  Next
<1>1. TypeOK
  BY DEF IInv
<1>2. Live(k) /\ 1 <= Len(args[k])
  BY DEF UpdateTrimArgs
<1>3. k \in Node
  BY <1>1, <1>2, LiveIsNode
<1>4. Len(args[k]) \in 0..MAX_GARBAGE_ARG_LEN /\ MAX_GARBAGE_ARG_LEN \in Nat
  BY <1>3, PositionInArray, HeapAssumption DEF HeapAssumption
<1>5. 1 \in 0..MAX_GARBAGE_ARG_LEN
  BY <1>2, <1>4
<1>6. Edit(k)
  BY <1>4, <1>5 DEF Edit
<1> QED
  BY <1>3, <1>6, EditIsCall

=============================================================================
