---------------------------- MODULE KHeapLemmas ----------------------------
(***************************************************************************)
(* Facts about the operators of KHeap: how many times an element occurs in *)
(* a sequence, and how the sets of argument slots and of owning variables  *)
(* that point to a node change when one node or one variable is written;   *)
(* and induction over the naturals in a form that needs no operator.       *)
(***************************************************************************)
EXTENDS KHeap, FiniteSetTheorems, SequenceTheorems, WellFoundedInduction, TLAPS

\* Every set of naturals that is not empty has a least element.
LEMMA LeastNatural ==
  ASSUME NEW T, T \subseteq Nat, T # {}
  PROVE  \E x \in T : \A y \in T : x <= y
<1> DEFINE Below == {p \in Nat \X Nat : p[1] < p[2]}
<1>1. IsWellFoundedOn(Below, Nat)
  BY NatLessThanWellFounded DEF OpToRel
<1>2. PICK x \in T : \A y \in T : ~ (<<y, x>> \in Below)
  <2> HIDE DEF Below
  <2> QED
    BY <1>1, WFMin
<1>3. ASSUME NEW y \in T PROVE x <= y
  <2>1. x \in Nat /\ y \in Nat
    OBVIOUS
  <2>2. y < x => <<y, x>> \in Below
    BY <2>1
  <2>3. ~ (<<y, x>> \in Below)
    BY <1>2
  <2> HIDE DEF Below
  <2> QED
    BY <2>1, <2>2, <2>3
<1> QED
  BY <1>3

\* Induction over the naturals, for a set instead of a predicate.
LEMMA SetInduction ==
  ASSUME NEW P, 0 \in P, \A n \in Nat : n \in P => n + 1 \in P
  PROVE  Nat \subseteq P
<1> DEFINE Bad == Nat \ P
<1> SUFFICES ASSUME Bad # {} PROVE FALSE
  OBVIOUS
<1>1. PICK m \in Bad : \A y \in Bad : m <= y
  <2>1. Bad \subseteq Nat
    OBVIOUS
  <2> HIDE DEF Bad
  <2> QED
    BY <2>1, LeastNatural
<1>2. m \in Nat /\ m # 0 /\ m - 1 \in Nat
  OBVIOUS
<1>3. m - 1 \in P
  BY <1>1, <1>2
<1> QED
  BY <1>2, <1>3

\* The number of occurrences in a sequence is a natural number, zero for what
\* is not in its range.
LEMMA OccNat ==
  ASSUME NEW S, NEW s \in Seq(S), NEW x
  PROVE  /\ Occ(s, x) \in Nat
         /\ IsFiniteSet({i \in DOMAIN s : s[i] = x})
         /\ Occ(s, x) = 0 <=> x \notin Range(s)
<1> DEFINE I == {i \in DOMAIN s : s[i] = x}
<1>1. DOMAIN s = 1..Len(s) /\ Len(s) \in Nat
  BY LenProperties
<1>2. IsFiniteSet(1..Len(s))
  BY <1>1, FS_Interval
<1>3. IsFiniteSet(I)
  BY <1>1, <1>2, FS_Subset
<1>4. Cardinality(I) \in Nat /\ (Cardinality(I) = 0 <=> I = {})
  BY <1>3, FS_CardinalityType, FS_EmptySet
<1>5. I = {} <=> x \notin Range(s)
  BY DEF Range
<1> QED
  BY <1>3, <1>4, <1>5 DEF Occ

\* Nothing occurs in the empty sequence.
LEMMA OccEmpty == ASSUME NEW x PROVE Occ(<<>>, x) = 0
<1>1. {i \in DOMAIN <<>> : (<<>>)[i] = x} = {}
  OBVIOUS
<1> QED
  BY <1>1, FS_EmptySet DEF Occ

\* Occurrences in a sequence of one element.
LEMMA OccOne == ASSUME NEW x, NEW y PROVE Occ(<<y>>, x) = IF x = y THEN 1 ELSE 0
<1>1. CASE x = y
  <2>1. {i \in DOMAIN <<y>> : (<<y>>)[i] = x} = {1}
    BY <1>1
  <2> QED
    BY <1>1, <2>1, FS_Singleton DEF Occ
<1>2. CASE x # y
  <2>1. {i \in DOMAIN <<y>> : (<<y>>)[i] = x} = {}
    BY <1>2
  <2> QED
    BY <1>2, <2>1, FS_EmptySet DEF Occ
<1> QED
  BY <1>1, <1>2

\* The positions where x occurs in s \o t are those of s and those of t moved
\* behind s.
LEMMA OccConcat ==
  ASSUME NEW S, NEW s \in Seq(S), NEW t \in Seq(S), NEW x
  PROVE  Occ(s \o t, x) = Occ(s, x) + Occ(t, x)
<1> DEFINE I == {i \in DOMAIN s : s[i] = x}
           J == {j \in DOMAIN t : t[j] = x}
           K == {j + Len(s) : j \in J}
           f == [j \in J |-> j + Len(s)]
<1>1. /\ Len(s) \in Nat /\ DOMAIN s = 1..Len(s)
      /\ Len(t) \in Nat /\ DOMAIN t = 1..Len(t)
  BY LenProperties
<1>2. /\ s \o t \in Seq(S)
      /\ Len(s \o t) = Len(s) + Len(t)
      /\ \A i \in 1..(Len(s) + Len(t)) :
           (s \o t)[i] = IF i <= Len(s) THEN s[i] ELSE t[i - Len(s)]
  BY ConcatProperties
<1>3. DOMAIN (s \o t) = 1..(Len(s) + Len(t))
  BY <1>2, LenProperties
<1>4. ASSUME NEW i \in 1..(Len(s) + Len(t)), (s \o t)[i] = x
      PROVE  i \in I \cup K
  <2>1. CASE i <= Len(s)
    BY <1>1, <1>2, <1>4, <2>1
  <2>2. CASE i > Len(s)
    <3>1. i - Len(s) \in J
      BY <1>1, <1>2, <1>4, <2>2
    <3>2. i = (i - Len(s)) + Len(s)
      BY <1>1
    <3> QED
      BY <3>1, <3>2
  <2> QED
    BY <1>1, <2>1, <2>2
<1>5. ASSUME NEW i \in I \cup K
      PROVE  i \in 1..(Len(s) + Len(t)) /\ (s \o t)[i] = x
  <2>1. CASE i \in I
    BY <1>1, <1>2, <2>1
  <2>2. CASE i \in K
    <3>1. PICK j \in J : i = j + Len(s)
      BY <2>2
    <3>2. j \in 1..Len(t) /\ t[j] = x /\ i \in 1..(Len(s) + Len(t)) /\ ~ (i <= Len(s)) /\ i - Len(s) = j
      BY <1>1, <3>1
    <3> QED
      BY <1>2, <3>2
  <2> QED
    BY <1>5, <2>1, <2>2
<1>6. {i \in DOMAIN (s \o t) : (s \o t)[i] = x} = I \cup K
  BY <1>3, <1>4, <1>5
<1>7. I \cap K = {}
  BY <1>1
<1>8. f \in Bijection(J, K)
  BY <1>1 DEF Bijection, Injection, Surjection, IsInjective
<1>9. IsFiniteSet(I) /\ IsFiniteSet(J)
  BY OccNat
<1>10. IsFiniteSet(K) /\ Cardinality(K) = Cardinality(J)
  BY <1>8, <1>9, FS_Bijection DEF ExistsBijection
<1>11. Cardinality(I \cup K) = Cardinality(I) + Cardinality(K)
  <2> HIDE DEF I, K
  <2>1. Cardinality(I \cup K) = Cardinality(I) + Cardinality(K) - Cardinality(I \cap K)
    BY <1>9, <1>10, FS_Union
  <2>2. Cardinality(I \cap K) = 0 /\ Cardinality(I) \in Nat /\ Cardinality(K) \in Nat
    BY <1>7, <1>9, <1>10, FS_EmptySet, FS_CardinalityType
  <2> QED
    BY <2>1, <2>2
<1> QED
  BY <1>6, <1>10, <1>11 DEF Occ

\* Appending one element, and taking the first one off.
LEMMA OccAppend ==
  ASSUME NEW S, NEW s \in Seq(S), NEW y \in S, NEW x
  PROVE  Occ(Append(s, y), x) = Occ(s, x) + IF x = y THEN 1 ELSE 0
<1>1. Append(s, y) = s \o <<y>> /\ <<y>> \in Seq(S)
  BY AppendIsConcat
<1>2. Occ(s \o <<y>>, x) = Occ(s, x) + Occ(<<y>>, x)
  BY <1>1, OccConcat
<1>3. Occ(<<y>>, x) = IF x = y THEN 1 ELSE 0
  BY OccOne
<1> QED
  BY <1>1, <1>2, <1>3

\* Taking the first element of a sequence off.
LEMMA OccTail ==
  ASSUME NEW S, NEW s \in Seq(S), s # <<>>, NEW x
  PROVE  Occ(s, x) = Occ(Tail(s), x) + IF x = Head(s) THEN 1 ELSE 0
<1>1. /\ Head(s) \in S /\ Tail(s) \in Seq(S) /\ <<Head(s)>> \in Seq(S)
  BY HeadTailProperties
<1>2. s = <<Head(s)>> \o Tail(s)
  BY <1>1
<1>3. Occ(s, x) = Occ(<<Head(s)>>, x) + Occ(Tail(s), x)
  <2>1. \A t, u \in Seq(S) : Occ(t \o u, x) = Occ(t, x) + Occ(u, x)
    BY OccConcat
  <2>2. Occ(<<Head(s)>> \o Tail(s), x) = Occ(<<Head(s)>>, x) + Occ(Tail(s), x)
    BY <1>1, <2>1
  <2> QED
    BY <1>2, <2>2, Zenon
<1>4. Occ(<<Head(s)>>, x) = IF x = Head(s) THEN 1 ELSE 0
  BY OccOne
<1>5. Occ(Tail(s), x) \in Nat
  BY <1>1, OccNat
<1> QED
  BY <1>3, <1>4, <1>5

\* Cutting a sequence in three.
LEMMA OccSplit ==
  ASSUME NEW S, NEW s \in Seq(S), NEW p \in 0..Len(s), NEW q \in p..Len(s), NEW x
  PROVE  /\ SubSeq(s, 1, p) \in Seq(S) /\ SubSeq(s, p+1, q) \in Seq(S)
         /\ SubSeq(s, q+1, Len(s)) \in Seq(S)
         /\ Len(SubSeq(s, 1, p)) = p /\ Len(SubSeq(s, p+1, q)) = q - p
         /\ Len(SubSeq(s, q+1, Len(s))) = Len(s) - q
         /\ Occ(s, x) = Occ(SubSeq(s, 1, p), x) + Occ(SubSeq(s, p+1, q), x)
                          + Occ(SubSeq(s, q+1, Len(s)), x)
<1> DEFINE a == SubSeq(s, 1, p)
           b == SubSeq(s, p+1, q)
           c == SubSeq(s, q+1, Len(s))
<1>1. Len(s) \in Nat /\ (\A i \in 1..Len(s) : s[i] \in S)
  BY LenProperties, ElementOfSeq
<1>2. a \in Seq(S) /\ b \in Seq(S) /\ c \in Seq(S)
  BY <1>1, SubSeqProperties
<1>3. Len(a) = p /\ Len(b) = q - p /\ Len(c) = Len(s) - q
  BY <1>1, SubSeqProperties
<1>4. a \o b = SubSeq(s, 1, q)
  <2>1. 1 \in 1..(Len(s)+1) /\ p \in (1-1)..Len(s) /\ q \in p..Len(s)
    BY <1>1
  <2> QED
    BY <2>1, ConcatAdjacentSubSeq
<1>5. SubSeq(s, 1, q) \o c = SubSeq(s, 1, Len(s))
  <2>1. 1 \in 1..(Len(s)+1) /\ q \in (1-1)..Len(s) /\ Len(s) \in q..Len(s)
    BY <1>1
  <2> QED
    BY <2>1, ConcatAdjacentSubSeq
<1>6. s = (a \o b) \o c /\ a \o b \in Seq(S)
  BY <1>2, <1>4, <1>5, SubSeqFull, ConcatProperties
<1>7. Occ(s, x) = Occ(a \o b, x) + Occ(c, x)
  <2> HIDE DEF a, b, c
  <2>1. Occ((a \o b) \o c, x) = Occ(a \o b, x) + Occ(c, x)
    BY <1>2, <1>6, OccConcat, ZenonT(40)
  <2> QED
    BY <1>6, <2>1, Zenon
<1>8. Occ(a \o b, x) = Occ(a, x) + Occ(b, x)
  BY <1>2, OccConcat
<1> QED
  BY <1>2, <1>3, <1>7, <1>8

\* Overwriting one element.
LEMMA OccExcept ==
  ASSUME NEW S, NEW s \in Seq(S), NEW i \in 1..Len(s), NEW v \in S, NEW x
  PROVE  Occ([s EXCEPT ![i] = v], x) + (IF x = s[i] THEN 1 ELSE 0)
           = Occ(s, x) + (IF x = v THEN 1 ELSE 0)
<1> DEFINE t == [s EXCEPT ![i] = v]
           I == {j \in DOMAIN s : s[j] = x}
           J == {j \in DOMAIN t : t[j] = x}
<1>1. t \in Seq(S) /\ DOMAIN t = DOMAIN s /\ i \in DOMAIN s
  BY ExceptSeq, LenProperties
<1>2. IsFiniteSet(I) /\ IsFiniteSet(J)
  BY <1>1, OccNat
<1>3. I \ {i} = J \ {i}
  BY <1>1
<1>4. (i \in I <=> x = s[i]) /\ (i \in J <=> x = v)
  BY <1>1
<1>5. Occ(s, x) = Cardinality(I) /\ Occ(t, x) = Cardinality(J)
  BY DEF Occ
<1> HIDE DEF I, J, t
<1>6. Cardinality(I \ {i}) = IF i \in I THEN Cardinality(I) - 1 ELSE Cardinality(I)
  BY <1>2, FS_RemoveElement
<1>7. Cardinality(J \ {i}) = IF i \in J THEN Cardinality(J) - 1 ELSE Cardinality(J)
  BY <1>2, FS_RemoveElement
<1>8. Cardinality(I) \in Nat /\ Cardinality(J) \in Nat
  BY <1>2, FS_CardinalityType
<1>9. Cardinality(I \ {i}) = Cardinality(J \ {i})
  BY <1>3, Zenon
<1>10. Occ(t, x) + (IF x = s[i] THEN 1 ELSE 0) = Occ(s, x) + (IF x = v THEN 1 ELSE 0)
  BY <1>4, <1>5, <1>6, <1>7, <1>8, <1>9
<1> QED
  BY <1>10 DEF t

\* The Decs of the elements of s: as many for x as x occurs in s.
LEMMA OccDecEach ==
  ASSUME NEW s \in Seq(Node), NEW x
  PROVE  /\ DecEach(s) \in Seq(Pending)
         /\ Occ(DecEach(s), DecOf(x)) = Occ(s, x)
         /\ Occ(DecEach(s), AuxOf(x)) = 0
<1>1. Len(s) \in Nat /\ DOMAIN s = 1..Len(s) /\ \A i \in 1..Len(s) : s[i] \in Node
  BY LenProperties, ElementOfSeq
<1>2. DecEach(s) \in Seq(Pending)
  <2>1. \A i \in 1..Len(s) : DecOf(s[i]) \in Pending
    BY <1>1 DEF DecOf, Pending
  <2>2. [i \in 1..Len(s) |-> DecOf(s[i])] \in Seq(Pending)
    BY <1>1, <2>1, IsASeq
  <2> QED
    BY <1>1, <2>2 DEF DecEach
<1>3. {i \in DOMAIN DecEach(s) : DecEach(s)[i] = DecOf(x)} = {i \in DOMAIN s : s[i] = x}
  BY DEF DecEach, DecOf
<1>4. {i \in DOMAIN DecEach(s) : DecEach(s)[i] = AuxOf(x)} = {}
  BY DEF DecEach, DecOf, AuxOf
<1> QED
  BY <1>2, <1>3, <1>4, FS_EmptySet DEF Occ

\* The two kinds of pending call are told apart, and so are their nodes.
LEMMA PendingDistinct ==
  /\ \A x, y : (DecOf(x) = DecOf(y) <=> x = y) /\ (AuxOf(x) = AuxOf(y) <=> x = y)
  /\ \A x, y : DecOf(x) # AuxOf(y)
  /\ \A x \in Node : DecOf(x) \in Pending /\ AuxOf(x) \in Pending
  BY DEF DecOf, AuxOf, Pending

\* The slots that point to x: those of one node k, as many as x occurs among
\* its arguments, and those of the other nodes.
LEMMA SlotsAt ==
  ASSUME NEW a \in [Node -> Seq(Node)], NEW k \in Node,
         Len(a[k]) <= MAX_GARBAGE_ARG_LEN, NEW x
  PROVE  LET others == {e \in SlotsOf(a, x) : e[1] # k} IN
         /\ IsFiniteSet(SlotsOf(a, x)) /\ Cardinality(SlotsOf(a, x)) \in Nat
         /\ IsFiniteSet(others) /\ Cardinality(others) \in Nat
         /\ Cardinality(SlotsOf(a, x)) = Cardinality(others) + Occ(a[k], x)
<1> DEFINE S == SlotsOf(a, x)
           O == {e \in S : e[1] # k}
           M == {e \in S : e[1] = k}
           I == {i \in DOMAIN a[k] : a[k][i] = x}
           f == [i \in I |-> <<k, i>>]
<1>1. IsFiniteSet(Node \X (1..MAX_GARBAGE_ARG_LEN))
  <2>1. IsFiniteSet(Node) /\ IsFiniteSet(1..MAX_GARBAGE_ARG_LEN)
    BY HeapAssumption, FS_Interval DEF HeapAssumption
  <2> QED
    BY <2>1, FS_Product
<1>2. IsFiniteSet(S)
  BY <1>1, FS_Subset DEF SlotsOf
<1>3. IsFiniteSet(O) /\ IsFiniteSet(M)
  BY <1>2, FS_Subset
<1>4. a[k] \in Seq(Node) /\ Len(a[k]) \in Nat /\ DOMAIN a[k] = 1..Len(a[k])
  BY LenProperties
<1>5. \A i \in I : <<k, i>> \in M
  BY <1>4, HeapAssumption DEF SlotsOf, HeapAssumption
<1>6. \A e \in M : e[2] \in I /\ e = <<k, e[2]>>
  BY DEF SlotsOf
<1>7. f \in Bijection(I, M)
  BY <1>5, <1>6 DEF Bijection, Injection, Surjection, IsInjective
<1>8. IsFiniteSet(I)
  BY <1>4, OccNat
<1>9. Cardinality(M) = Cardinality(I)
  <2> HIDE DEF M, I, f
  <2> QED
    BY <1>7, <1>8, FS_Bijection DEF ExistsBijection
<1>10. S = O \cup M /\ O \cap M = {}
  OBVIOUS
<1>11. Cardinality(M) = Occ(a[k], x)
  BY <1>9 DEF Occ
<1> HIDE DEF S, O, M, I
<1>12. Cardinality(S) = Cardinality(O) + Cardinality(M) - Cardinality(O \cap M)
  <2>1. Cardinality(O \cup M) = Cardinality(O) + Cardinality(M) - Cardinality(O \cap M)
    BY <1>3, FS_Union
  <2> QED
    BY <1>10, <2>1, Zenon
<1>13. /\ Cardinality(O \cap M) = 0 /\ Cardinality(O) \in Nat
       /\ Cardinality(M) \in Nat /\ Cardinality(S) \in Nat
  BY <1>2, <1>3, <1>10, FS_EmptySet, FS_CardinalityType
<1>14. Cardinality(S) = Cardinality(O) + Occ(a[k], x)
  BY <1>11, <1>12, <1>13
<1> QED
  BY <1>2, <1>3, <1>13, <1>14 DEF S, O

\* Writing the arguments of one node: the slots pointing to x change by the
\* occurrences of x in the old and in the new arguments.
LEMMA SlotsWrite ==
  ASSUME NEW a \in [Node -> Seq(Node)], NEW k \in Node, NEW s \in Seq(Node),
         Len(a[k]) <= MAX_GARBAGE_ARG_LEN, Len(s) <= MAX_GARBAGE_ARG_LEN, NEW x
  PROVE  /\ Cardinality(SlotsOf(a, x)) \in Nat
         /\ Cardinality(SlotsOf([a EXCEPT ![k] = s], x)) \in Nat
         /\ Occ(a[k], x) \in Nat /\ Occ(s, x) \in Nat
         /\ Cardinality(SlotsOf([a EXCEPT ![k] = s], x)) + Occ(a[k], x)
              = Cardinality(SlotsOf(a, x)) + Occ(s, x)
<1> DEFINE b == [a EXCEPT ![k] = s]
           O == {e \in SlotsOf(a, x) : e[1] # k}
           P == {e \in SlotsOf(b, x) : e[1] # k}
<1>1. b \in [Node -> Seq(Node)] /\ b[k] = s
  OBVIOUS
<1>2. O = P
  BY DEF SlotsOf
<1>3. /\ Cardinality(SlotsOf(a, x)) \in Nat /\ Cardinality(O) \in Nat
      /\ Cardinality(SlotsOf(a, x)) = Cardinality(O) + Occ(a[k], x)
  BY SlotsAt
<1> HIDE DEF b
<1>4. /\ Cardinality(SlotsOf(b, x)) \in Nat
      /\ Cardinality(SlotsOf(b, x)) = Cardinality(P) + Occ(b[k], x)
  BY <1>1, SlotsAt
<1>5. Occ(a[k], x) \in Nat /\ Occ(s, x) \in Nat
  BY OccNat
<1> HIDE DEF O, P
<1>6. Cardinality(O) = Cardinality(P)
  BY <1>2, Zenon
<1>7. Cardinality(SlotsOf(b, x)) + Occ(a[k], x) = Cardinality(SlotsOf(a, x)) + Occ(s, x)
  BY <1>1, <1>3, <1>4, <1>5, <1>6
<1> QED
  BY <1>3, <1>4, <1>5, <1>7 DEF b

\* A node no slot points to is nobody's argument.
LEMMA NoSlots ==
  ASSUME NEW a \in [Node -> Seq(Node)], NEW k \in Node,
         Len(a[k]) <= MAX_GARBAGE_ARG_LEN, NEW x,
         Cardinality(SlotsOf(a, x)) = 0
  PROVE  x \notin Range(a[k]) /\ Occ(a[k], x) = 0
<1>1. Occ(a[k], x) \in Nat /\ (Occ(a[k], x) = 0 <=> x \notin Range(a[k]))
  BY OccNat
<1> DEFINE O == {e \in SlotsOf(a, x) : e[1] # k}
<1>2. Cardinality(O) \in Nat /\ Cardinality(SlotsOf(a, x)) = Cardinality(O) + Occ(a[k], x)
  BY SlotsAt
<1> QED
  BY <1>1, <1>2

\* Writing one owning variable.
LEMMA OwnersWrite ==
  ASSUME NEW o \in [Root -> Node \cup {NoNode}], NEW q \in [Root -> Node \cup {NoNode}],
         NEW r \in Root, \A z \in Root \ {r} : q[z] = o[z], NEW x
  PROVE  /\ Cardinality(OwnersOf(o, x)) \in Nat
         /\ Cardinality(OwnersOf(q, x)) \in Nat
         /\ Cardinality(OwnersOf(q, x)) + (IF x = o[r] THEN 1 ELSE 0)
              = Cardinality(OwnersOf(o, x)) + (IF x = q[r] THEN 1 ELSE 0)
<1> DEFINE A == OwnersOf(o, x)
           B == OwnersOf(q, x)
<1>1. IsFiniteSet(A) /\ IsFiniteSet(B)
  BY HeapAssumption, FS_Subset DEF HeapAssumption, OwnersOf
<1>2. A \ {r} = B \ {r} /\ (r \in A <=> x = o[r]) /\ (r \in B <=> x = q[r])
  BY DEF OwnersOf
<1> HIDE DEF A, B
<1>3. Cardinality(A \ {r}) = IF r \in A THEN Cardinality(A) - 1 ELSE Cardinality(A)
  BY <1>1, FS_RemoveElement
<1>4. Cardinality(B \ {r}) = IF r \in B THEN Cardinality(B) - 1 ELSE Cardinality(B)
  BY <1>1, FS_RemoveElement
<1>5. Cardinality(A) \in Nat /\ Cardinality(B) \in Nat
  BY <1>1, FS_CardinalityType
<1>6. Cardinality(A \ {r}) = Cardinality(B \ {r})
  BY <1>2, Zenon
<1>7. Cardinality(B) + (IF x = o[r] THEN 1 ELSE 0) = Cardinality(A) + (IF x = q[r] THEN 1 ELSE 0)
  BY <1>2, <1>3, <1>4, <1>5, <1>6
<1> QED
  BY <1>5, <1>7 DEF A, B
=============================================================================
