---------------------------- MODULE KArgsProofs ----------------------------
(***************************************************************************)
(* Proofs about KArgs, for every set of arguments and nodes and arrays of  *)
(* every size: the assertions of k_get_arg and _k_set_arg hold once a call *)
(* is under way, references are counted slot by slot, the copy that        *)
(* k_insert_elems_vararg makes keeps the old arguments alive, and the      *)
(* slots implement ArgSequence.                                            *)
(***************************************************************************)
EXTENDS KArgs, FunctionTheorems, FiniteSetTheorems, SequenceTheorems, TLAPS

-----------------------------------------------------------------------------
(* The invariant.                                                          *)

\* Where the program stops if an assertion fails: before a call has begun, at a
\* node that cannot be copied.
TooLongToCopy == pc = "idle" /\ ~ Fits(k_num_args(mine))

ArgsTypeOK ==
  /\ a \in [Array -> [Slot -> Elem \cup {NULL}]]
  /\ pos_first \in [Array -> 0..MAX_GARBAGE_ARG_LEN]
  /\ pos_end \in [Array -> 0..MAX_GARBAGE_ARG_LEN]
  /\ \A n \in Array : pos_first[n] <= pos_end[n]
  /\ refs \in [Elem -> Int]
  /\ mine \in Array /\ theirs \in Array \cup {NULL}
  /\ k \in Array \cup {NULL} /\ doomed \in Array \cup {NULL}
  /\ i \in Nat /\ temp \in Seq(Elem)
  /\ panicked = "assert" => TooLongToCopy

\* The window of n reads s.
Reads(n, s) ==
  /\ s \in Seq(Elem) /\ k_num_args(n) = Len(s)
  /\ \A x \in 0..(Len(s) - 1) : Arg(n, x) = s[x + 1]
\* The window of n has no hole.
Full(n) == \A x \in 0..(k_num_args(n) - 1) : Arg(n, x) \in Elem

Old == before.mine
Editing == pc \in {"resize", "overwrite", "take", "put", "fill"}
\* The owners still see what they saw when the call began, except for the one
\* whose node is edited in place.
OwnersSee ==
  /\ before.owned = (theirs # NULL) /\ before.shared = Shared
  /\ Shared => before.theirs = Old
  /\ k \in Array /\ (k # mine => k # theirs /\ Reads(mine, Old))
  /\ theirs = NULL => before.theirs = <<>>
  /\ theirs \notin {NULL, k} => Reads(theirs, before.theirs)

Inserting ==
  /\ call.pos \in Nat /\ call.over \in Nat /\ call.elems \in Lists(MaxElems)
  /\ Old \in Seq(Elem) /\ LastGoodArg <= Len(Old) /\ Fits(Len(Old))
  /\ doomed \in Array \ {mine, theirs, k} /\ Reads(doomed, Old)
  /\ OwnersSee
  /\ k = mine /\ pc # "resize" => Added = 0 \/ (Added > 0 /\ ~ Shared)
  /\ k # mine => Added # 0
\* While arguments go and others are moved, the window is as long as the longer list.
Stretched == k_num_args(k) = Len(Old) + (IF Added > 0 THEN Added ELSE 0)
Edit ==
  \/ pc = "resize" /\ k = mine /\ Reads(k, Old) /\ i = call.pos
  \/ /\ pc = "overwrite" /\ Stretched /\ call.pos <= i /\ i <= LastGoodArg
     /\ \A x \in 0..(Len(Old) - 1) :
          Arg(k, x) = IF call.pos <= x /\ x < i THEN NULL ELSE Old[x + 1]
  \/ /\ pc = "take" /\ Stretched /\ i <= Behind
     /\ \A x \in 0..(Len(Old) - 1) :
          Arg(k, x) = IF call.pos <= x /\ x < LastGoodArg THEN NULL ELSE Old[x + 1]
     /\ Len(temp) = i /\ \A x \in 1..i : temp[x] = Old[LastGoodArg + x]
  \/ /\ pc = "put" /\ Stretched /\ i <= Behind
     /\ Len(temp) = Behind /\ \A x \in 1..Behind : temp[x] = Old[LastGoodArg + x]
     /\ \A x \in 0..(call.pos - 1) : Arg(k, x) = Old[x + 1]
     /\ \A x \in 0..(i - 1) : Arg(k, Dest(x)) = temp[x + 1]
  \/ /\ pc = "fill" /\ k_num_args(k) = Len(Old) + Added /\ i <= Len(call.elems)
     /\ \A x \in 0..(call.pos - 1) : Arg(k, x) = Old[x + 1]
     /\ \A x \in 0..(i - 1) : Arg(k, call.pos + x) = call.elems[x + 1]
     /\ \A x \in 0..(Behind - 1) : Arg(k, Dest(x)) = Old[LastGoodArg + x + 1]

Trimming ==
  /\ call.left \in Nat /\ call.right \in Nat
  /\ Old \in Seq(Elem) /\ call.left <= call.right /\ call.right <= Len(Old)
  /\ doomed = NULL /\ OwnersSee /\ (k = mine => ~ Shared)
  /\ k_num_args(k) = Len(Old) /\ i <= Len(Old) /\ (i < call.left \/ i >= call.right)
  /\ \A x \in 0..(Len(Old) - 1) :
       Arg(k, x) = IF x < i /\ (x < call.left \/ x >= call.right) THEN NULL ELSE Old[x + 1]

\* What both owners see once the call returns, and that they are promised it.
Final == [mine |-> Window(k), theirs |-> IF theirs = NULL THEN <<>> ELSE Window(theirs),
          owned |-> theirs # NULL, shared |-> theirs = k]
Spliced(b, f) ==
  \E pos, over \in 0..MAX_GARBAGE_ARG_LEN, s \in Lists(MaxElems) :
    /\ pos + over <= Len(b.mine)
    /\ f.mine = SubSeq(b.mine, 1, pos) \o s \o SubSeq(b.mine, pos + over + 1, Len(b.mine))
    /\ f.theirs = IF b.shared /\ Len(s) = over THEN f.mine ELSE b.theirs
    /\ f.shared = (b.shared /\ Len(s) = over) /\ f.owned = b.owned
Kept(b, f) ==
  \E left, right \in 0..Len(b.mine) :
    /\ left <= right /\ f.mine = SubSeq(b.mine, left + 1, right)
    /\ f.theirs = b.theirs /\ ~ f.shared /\ f.owned = b.owned

Disposing ==
  /\ k \in Array /\ (k # mine => k # theirs)
  /\ doomed \in Array \ {mine, theirs, k}
  /\ i <= k_num_args(doomed)
  /\ \A x \in 0..(k_num_args(doomed) - 1) :
       IF x < i THEN Arg(doomed, x) = NULL ELSE Arg(doomed, x) \in Elem
  /\ \A n \in {mine, theirs, k} \ {NULL} : Full(n)
  /\ Spliced(before, Final) \/ Kept(before, Final) \/ before = Final

Phase ==
  \/ Editing /\ Inserting /\ Edit /\ (pc \in {"resize", "overwrite"} => temp = <<>>)
  \/ pc = "trim" /\ Trimming
  \/ pc = "dispose" /\ Disposing
  \/ pc = "idle" /\ k = NULL /\ doomed = NULL /\ temp = <<>> /\ \A n \in {mine, theirs} \ {NULL} : Full(n)

\* The slots whose references are counted: not those of the edited node that
\* have yet to be filled, or whose content is in temp.
Settled(x) ==
  /\ pc \in {"overwrite", "take"} => x < Len(Old)
  /\ pc = "put" => x < call.pos
  /\ pc = "fill" => x < call.pos + i \/ x >= call.pos + Len(call.elems)
Used(n, p) == /\ n \in {mine, theirs, k, doomed} \ {NULL}
              /\ pos_first[n] <= p /\ p < pos_end[n]
              /\ n = k => Settled(p - pos_first[k])
Names(n, p, v) == Used(n, p) /\ a[n][p] = v
Naming(v) == {e \in Array \X Slot : Names(e[1], e[2], v)}
InTemp(v) == IF pc = "put" THEN Count(temp, v) ELSE 0
Counted == \A v \in Elem : refs[v] = Cardinality(Naming(v)) + InTemp(v)

ArgsInv == ArgsTypeOK /\ Phase /\ Counted

-----------------------------------------------------------------------------
(* Counting.                                                               *)

\* Sets that differ in one element.
LEMMA OneChanged ==
  ASSUME NEW N, NEW M, NEW e, IsFiniteSet(N), M \ {e} = N \ {e}
  PROVE  /\ IsFiniteSet(M) /\ Cardinality(M) \in Nat /\ Cardinality(N) \in Nat
         /\ Cardinality(M) + (IF e \in N THEN 1 ELSE 0)
              = Cardinality(N) + (IF e \in M THEN 1 ELSE 0)
<1> DEFINE R == N \ {e}
<1>1. IsFiniteSet(R)
  BY FS_RemoveElement
<1>2. N = (IF e \in N THEN R \cup {e} ELSE R) /\ M = (IF e \in M THEN R \cup {e} ELSE R) /\ e \notin R
  OBVIOUS
<1> HIDE DEF R
<1>3. IsFiniteSet(R \cup {e}) /\ Cardinality(R \cup {e}) = Cardinality(R) + 1
  BY <1>1, <1>2, FS_AddElement
<1>4. Cardinality(R) \in Nat
  BY <1>1, FS_CardinalityType
<1>5. ASSUME NEW Q, Q = IF e \in Q THEN R \cup {e} ELSE R
      PROVE  IsFiniteSet(Q) /\ Cardinality(Q) = Cardinality(R) + (IF e \in Q THEN 1 ELSE 0)
  <2>1. CASE e \in Q
    <3>1. Q = R \cup {e}
      BY <1>5, <2>1
    <3> QED
      BY <1>3, <2>1, <3>1
  <2>2. CASE e \notin Q
    <3>1. Q = R
      BY <1>5, <2>2
    <3> QED
      BY <1>1, <1>4, <2>2, <3>1
  <2> QED
    BY <2>1, <2>2
<1>6. /\ IsFiniteSet(M) /\ Cardinality(M) = Cardinality(R) + (IF e \in M THEN 1 ELSE 0)
      /\ Cardinality(N) = Cardinality(R) + (IF e \in N THEN 1 ELSE 0)
  BY <1>2, <1>5
<1> QED
  BY <1>4, <1>6

\* How often v occurs in s is a number.
LEMMA CountNat ==
  ASSUME NEW S, NEW s \in Seq(S), NEW v
  PROVE  Count(s, v) \in Nat /\ IsFiniteSet({x \in DOMAIN s : s[x] = v})
<1>1. IsFiniteSet(1..Len(s))
  BY FS_Interval
<1>2. {x \in DOMAIN s : s[x] = v} \in SUBSET (1..Len(s))
  OBVIOUS
<1> QED
  BY <1>1, <1>2, FS_Subset, FS_CardinalityType DEF Count

\* What occurs in a list of one element.
LEMMA CountOne == ASSUME NEW v, NEW y PROVE Count(<<y>>, v) = IF v = y THEN 1 ELSE 0
<1>1. CASE v = y
  <2>1. {x \in DOMAIN <<y>> : (<<y>>)[x] = v} = {1}
    BY <1>1
  <2> QED
    BY <1>1, <2>1, FS_Singleton DEF Count
<1>2. CASE v # y
  <2>1. {x \in DOMAIN <<y>> : (<<y>>)[x] = v} = {}
    BY <1>2
  <2> QED
    BY <1>2, <2>1, FS_EmptySet DEF Count
<1> QED
  BY <1>1, <1>2

\* Replacing an element of a list changes the counts of the two elements only.
LEMMA CountExcept ==
  ASSUME NEW S, NEW s \in Seq(S), NEW j \in 1..Len(s), NEW y \in S, NEW v
  PROVE  /\ [s EXCEPT ![j] = y] \in Seq(S) /\ Len([s EXCEPT ![j] = y]) = Len(s)
         /\ Count([s EXCEPT ![j] = y], v) + (IF s[j] = v THEN 1 ELSE 0)
              = Count(s, v) + (IF y = v THEN 1 ELSE 0)
<1> DEFINE t == [s EXCEPT ![j] = y]
           N == {x \in DOMAIN s : s[x] = v}
           M == {x \in DOMAIN t : t[x] = v}
<1>1. t \in Seq(S) /\ Len(t) = Len(s)
  BY ExceptSeq
<1>2. \A x \in DOMAIN s : t[x] = IF x = j THEN y ELSE s[x]
  OBVIOUS
<1>3. DOMAIN t = DOMAIN s
  OBVIOUS
<1>4. IsFiniteSet(N)
  BY CountNat
<1>5. M \ {j} = N \ {j} /\ (j \in N <=> s[j] = v) /\ (j \in M <=> y = v)
  BY <1>2, <1>3
<1> HIDE DEF N, M
<1>6. Cardinality(M) + (IF j \in N THEN 1 ELSE 0) = Cardinality(N) + (IF j \in M THEN 1 ELSE 0)
  BY <1>4, <1>5, OneChanged
<1>7. Count(t, v) = Cardinality(M) /\ Count(s, v) = Cardinality(N)
  BY DEF Count, N, M
<1> HIDE DEF t
<1> QED
  BY <1>1, <1>5, <1>6, <1>7 DEF t

\* The slots from lo on in which the array of n holds s.
InSlice(m, q, n, lo, s, v) ==
  m = n /\ \E x \in 0..(Len(s) - 1) : q = lo + x /\ s[x + 1] = v

Slice(n, lo, s, v) == {e \in Array \X Slot : InSlice(e[1], e[2], n, lo, s, v)}

\* Slots that hold s, added to slots N that are others: as many more as v occurs in s.
LEMMA SliceAdded ==
  ASSUME NEW N \in SUBSET (Array \X Slot),
         NEW n \in Array, NEW lo \in Nat, NEW s \in Seq(Elem),
         NEW v, lo + Len(s) <= MAX_GARBAGE_ARG_LEN,
         N \cap Slice(n, lo, s, v) = {}
  PROVE  /\ Cardinality(N) \in Nat
         /\ Cardinality(N \cup Slice(n, lo, s, v)) = Cardinality(N) + Count(s, v)
<1> DEFINE D == {x \in DOMAIN s : s[x] = v}
           f == [x \in D |-> <<n, lo + x - 1>>]
           B == {<<n, lo + x - 1>> : x \in D}
<1>1. IsFiniteSet(Array \X Slot)
  <2>1. MAX_GARBAGE_ARG_LEN - 1 \in Int
    BY ArgsAssumption DEF ArgsAssumption
  <2>2. IsFiniteSet(Slot)
    BY <2>1, FS_Interval DEF Slot
  <2> QED
    BY <2>2, ArgsAssumption, FS_Product DEF ArgsAssumption
<1>2. IsFiniteSet(N) /\ Cardinality(N) \in Nat
  BY <1>1, FS_Subset, FS_CardinalityType
<1>3. D \subseteq 1..Len(s) /\ Len(s) \in Nat
  OBVIOUS
<1>4. IsFiniteSet(D) /\ Count(s, v) = Cardinality(D)
  BY CountNat DEF Count
<1>5. \A x, y \in D : f[x] = f[y] => x = y
  BY <1>3
<1>6. f \in Bijection(D, B)
  BY <1>5, Fun_IsBij
<1>7. IsFiniteSet(B) /\ Cardinality(B) = Cardinality(D)
  <2> HIDE DEF f, B, D
  <2> QED
    BY <1>4, <1>6, FS_Bijection DEF ExistsBijection
<1>8. \A m \in Array, q \in Slot : <<m, q>> \in B <=> InSlice(m, q, n, lo, s, v)
  <2> SUFFICES ASSUME NEW m \in Array, NEW q \in Slot
               PROVE  <<m, q>> \in B <=> InSlice(m, q, n, lo, s, v)
    OBVIOUS
  <2>1. ASSUME <<m, q>> \in B PROVE InSlice(m, q, n, lo, s, v)
    <3>1. PICK x \in D : <<m, q>> = <<n, lo + x - 1>>
      BY <2>1
    <3>2. x - 1 \in 0..(Len(s) - 1) /\ s[(x - 1) + 1] = v /\ q = lo + (x - 1) /\ m = n
      BY <3>1, <1>3
    <3> QED
      BY <3>2 DEF InSlice
  <2>2. ASSUME InSlice(m, q, n, lo, s, v) PROVE <<m, q>> \in B
    <3>1. PICK x \in 0..(Len(s) - 1) : q = lo + x /\ s[x + 1] = v /\ m = n
      BY <2>2 DEF InSlice
    <3>2. x + 1 \in D /\ q = lo + (x + 1) - 1
      BY <3>1, <1>3
    <3> QED
      BY <3>1, <3>2
  <2> QED
    BY <2>1, <2>2
<1>9. B \subseteq Array \X Slot
  <2> SUFFICES ASSUME NEW x \in D PROVE <<n, lo + x - 1>> \in Array \X Slot
    OBVIOUS
  <2>1. lo + x - 1 \in 0..(MAX_GARBAGE_ARG_LEN - 1)
    <3>1. x \in 1..Len(s)
      BY <1>3
    <3> HIDE DEF D
    <3>2. MAX_GARBAGE_ARG_LEN \in Nat
      BY ArgsAssumption DEF ArgsAssumption
    <3> QED
      BY <1>3, <3>1, <3>2
  <2> QED
    BY <2>1 DEF Slot
<1> HIDE DEF B, D, f
<1>10. B = Slice(n, lo, s, v)
  <2>1. ASSUME NEW e \in Array \X Slot
        PROVE  e \in B <=> InSlice(e[1], e[2], n, lo, s, v)
    <3>1. PICK m \in Array, q \in Slot : e = <<m, q>>
      OBVIOUS
    <3> QED
      BY <1>8, <3>1
  <2> QED
    BY <1>9, <2>1 DEF Slice
<1>11. Cardinality(N \cup B) = Cardinality(N) + Cardinality(B) - Cardinality(N \cap B)
  BY <1>2, <1>7, FS_Union
<1>13. Cardinality(N \cap B) = 0
  BY <1>10, FS_EmptySet
<1>12. Cardinality(B) \in Nat
  BY <1>4, <1>7, FS_CardinalityType
<1> QED
  BY <1>2, <1>4, <1>7, <1>10, <1>11, <1>12, <1>13

-----------------------------------------------------------------------------
(* Windows and slots.                                                      *)

\* The window of a node lies inside its array.
LEMMA WindowSlots ==
  ASSUME NEW n \in Array, ArgsTypeOK
  PROVE  /\ k_num_args(n) \in Nat /\ pos_first[n] \in Nat /\ pos_end[n] \in Nat
         /\ pos_end[n] = pos_first[n] + k_num_args(n) /\ pos_end[n] <= MAX_GARBAGE_ARG_LEN
         /\ MAX_GARBAGE_ARG_LEN \in Nat
         /\ \A x \in 0..(k_num_args(n) - 1) :
              /\ pos_first[n] + x \in Slot /\ pos_first[n] + x < pos_end[n]
              /\ Writable(n, x)
<1>1. /\ pos_first[n] \in 0..MAX_GARBAGE_ARG_LEN /\ pos_end[n] \in 0..MAX_GARBAGE_ARG_LEN
      /\ pos_first[n] <= pos_end[n] /\ MAX_GARBAGE_ARG_LEN \in Nat
  BY ArgsAssumption DEF ArgsTypeOK, ArgsAssumption
<1>2. k_num_args(n) = pos_end[n] - pos_first[n]
  BY DEF k_num_args
<1>3. k_num_args(n) \in Nat /\ pos_end[n] = pos_first[n] + k_num_args(n)
  BY <1>1, <1>2
<1>4. ASSUME NEW x \in 0..(k_num_args(n) - 1)
      PROVE  /\ pos_first[n] + x \in Slot /\ pos_first[n] + x < pos_end[n]
             /\ Writable(n, x)
  BY <1>1, <1>3 DEF Slot, Writable
<1> QED
  BY <1>1, <1>3, <1>4

\* A window without holes reads as one list, and only that one.
LEMMA Windowed ==
  ASSUME NEW n \in Array, ArgsTypeOK
  PROVE  /\ Full(n) => Reads(n, Window(n))
         /\ \A s : Reads(n, s) => Window(n) = s /\ Full(n)
<1>1. k_num_args(n) \in Nat
  BY WindowSlots
<1>2. ASSUME Full(n) PROVE Reads(n, Window(n))
  <2>1. Window(n) \in [1..k_num_args(n) -> Elem]
    <3> SUFFICES ASSUME NEW x \in 1..k_num_args(n) PROVE Arg(n, x - 1) \in Elem
      BY DEF Window
    <3>1. x - 1 \in 0..(k_num_args(n) - 1)
      BY <1>1
    <3> QED
      BY <1>2, <3>1 DEF Full
  <2>2. Window(n) \in Seq(Elem) /\ Len(Window(n)) = k_num_args(n)
    BY <1>1, <2>1
  <2>3. ASSUME NEW x \in 0..(k_num_args(n) - 1) PROVE Arg(n, x) = Window(n)[x + 1]
    <3>1. x + 1 \in 1..k_num_args(n) /\ (x + 1) - 1 = x
      BY <1>1
    <3> QED
      BY <3>1 DEF Window
  <2> QED
    BY <2>2, <2>3 DEF Reads
<1>3. ASSUME NEW s, Reads(n, s) PROVE Window(n) = s /\ Full(n)
  <2>1. s \in Seq(Elem) /\ k_num_args(n) = Len(s) /\ \A x \in 0..(Len(s) - 1) : Arg(n, x) = s[x + 1]
    BY <1>3 DEF Reads
  <2>2. ASSUME NEW x \in 1..Len(s) PROVE Arg(n, x - 1) = s[x]
    <3>1. x - 1 \in 0..(Len(s) - 1) /\ (x - 1) + 1 = x
      BY <2>1
    <3> QED
      BY <2>1, <3>1
  <2>3. Window(n) = [x \in 1..Len(s) |-> s[x]]
    BY <2>1, <2>2 DEF Window
  <2>4. s = [x \in 1..Len(s) |-> s[x]]
    BY <2>1
  <2>5. ASSUME NEW x \in 0..(Len(s) - 1) PROVE s[x + 1] \in Elem
    BY <2>1
  <2> QED
    BY <2>1, <2>3, <2>4, <2>5 DEF Full
<1> QED
  BY <1>2, <1>3

\* There is a node to acquire, and it is none of those in use.
LEMMA AcquiredOther ==
  ASSUME ArgsTypeOK
  PROVE  Acquired \in Array \ {mine, theirs, doomed}
<1>1. mine \in Array /\ theirs \in Array \cup {NULL} /\ doomed \in Array \cup {NULL} /\ NULL \notin Array
  BY ArgsAssumption DEF ArgsTypeOK, ArgsAssumption
<1>2. \E n \in Array : n \notin {mine, theirs, doomed}
  <2> DEFINE t == IF theirs = NULL THEN mine ELSE theirs
             d == IF doomed = NULL THEN mine ELSE doomed
  <2>1. t \in Array /\ d \in Array
    BY <1>1
  <2>2. Array \ {mine, t, d} # {}
    BY <1>1, <2>1, ArgsAssumption DEF ArgsAssumption
  <2> QED
    BY <1>1, <2>2
<1> QED
  BY <1>2 DEF Acquired

\* What copy leaves in the copy m of n, whose window reads s.
LEMMA Copied ==
  ASSUME NEW n \in Array, NEW m \in Array, NEW extra \in Nat, NEW s, ArgsTypeOK, n # m,
         CopyTo(n, m, extra), Reads(n, s), Fits(Len(s) + extra)
  PROVE  /\ a' \in [Array -> [Slot -> Elem \cup {NULL}]]
         /\ pos_first' \in [Array -> 0..MAX_GARBAGE_ARG_LEN]
         /\ pos_end' \in [Array -> 0..MAX_GARBAGE_ARG_LEN]
         /\ \A o \in Array : pos_first'[o] <= pos_end'[o]
         /\ refs' \in [Elem -> Int]
         /\ \A o \in Array : o # m =>
              a'[o] = a[o] /\ pos_first'[o] = pos_first[o] /\ pos_end'[o] = pos_end[o]
         /\ pos_first'[m] = POS_FIRST /\ pos_end'[m] = POS_FIRST + Len(s) + extra
         /\ \A x \in 0..(Len(s) - 1) : POS_FIRST + x \in Slot /\ a'[m][POS_FIRST + x] = s[x + 1]
         /\ \A v \in Elem : refs'[v] = refs[v] + Count(s, v)
<1>1. /\ a \in [Array -> [Slot -> Elem \cup {NULL}]]
      /\ pos_first \in [Array -> 0..MAX_GARBAGE_ARG_LEN] /\ pos_end \in [Array -> 0..MAX_GARBAGE_ARG_LEN]
      /\ \A o \in Array : pos_first[o] <= pos_end[o]
      /\ refs \in [Elem -> Int]
  BY DEF ArgsTypeOK
<1>2. /\ s \in Seq(Elem) /\ Len(s) \in Nat /\ k_num_args(n) = Len(s)
      /\ \A x \in 0..(Len(s) - 1) : Arg(n, x) = s[x + 1]
  BY DEF Reads
<1>3. MAX_GARBAGE_ARG_LEN \in Nat /\ POS_FIRST \in Nat /\ POS_FIRST + (Len(s) + extra) <= MAX_GARBAGE_ARG_LEN
  BY ArgsAssumption DEF ArgsAssumption, Fits
<1> DEFINE R == POS_FIRST..(POS_FIRST + k_num_args(n) - 1)
           row == [p \in Slot |-> IF p \in R THEN Arg(n, p - POS_FIRST) ELSE a[m][p]]
<1>4. a' = [a EXCEPT ![m] = row]
  BY DEF CopyTo, Filled
<1>5. row \in [Slot -> Elem \cup {NULL}]
  <2>1. ASSUME NEW p \in Slot, p \in R PROVE Arg(n, p - POS_FIRST) \in Elem
    <3>1. p - POS_FIRST \in 0..(Len(s) - 1) /\ (p - POS_FIRST) + 1 \in 1..Len(s)
      BY <1>2, <1>3, <2>1
    <3> QED
      BY <1>2, <3>1
  <2>2. a[m] \in [Slot -> Elem \cup {NULL}]
    BY <1>1
  <2> HIDE DEF R
  <2> QED
    BY <2>1, <2>2
<1>6. \A x \in 0..(Len(s) - 1) : POS_FIRST + x \in Slot /\ row[POS_FIRST + x] = s[x + 1]
  <2> SUFFICES ASSUME NEW x \in 0..(Len(s) - 1)
               PROVE  POS_FIRST + x \in Slot /\ row[POS_FIRST + x] = s[x + 1]
    OBVIOUS
  <2>1. POS_FIRST + x \in Slot /\ POS_FIRST + x \in R /\ (POS_FIRST + x) - POS_FIRST = x
    BY <1>2, <1>3 DEF Slot
  <2> HIDE DEF R
  <2> QED
    BY <1>2, <2>1
<1> HIDE DEF row
<1>7. /\ a' \in [Array -> [Slot -> Elem \cup {NULL}]] /\ a'[m] = row
      /\ \A o \in Array : o # m => a'[o] = a[o]
  BY <1>1, <1>4, <1>5
<1>8. /\ pos_first' = [pos_first EXCEPT ![m] = POS_FIRST]
      /\ pos_end' = [pos_end EXCEPT ![m] = POS_FIRST + Len(s) + extra]
  BY <1>2 DEF CopyTo
<1>9. /\ pos_first' \in [Array -> 0..MAX_GARBAGE_ARG_LEN] /\ pos_end' \in [Array -> 0..MAX_GARBAGE_ARG_LEN]
      /\ \A o \in Array : pos_first'[o] <= pos_end'[o]
      /\ \A o \in Array : o # m => pos_first'[o] = pos_first[o] /\ pos_end'[o] = pos_end[o]
      /\ pos_first'[m] = POS_FIRST /\ pos_end'[m] = POS_FIRST + Len(s) + extra
  BY <1>1, <1>2, <1>3, <1>8
<1>10. refs' = [v \in Elem |-> refs[v] + Count(s, v)]
  BY Windowed DEF CopyTo, Bump
<1>11. \A v \in Elem : Count(s, v) \in Nat
  BY <1>2, CountNat
<1>12. refs' \in [Elem -> Int]
  BY <1>1, <1>10, <1>11
<1> QED
  BY <1>6, <1>7, <1>9, <1>10, <1>12

-----------------------------------------------------------------------------
(* References.                                                             *)

\* The slots that name v are finitely many pairs of a node and a slot.
LEMMA NamingPairs ==
  ASSUME NEW v
  PROVE  /\ Naming(v) \in SUBSET (Array \X Slot) /\ IsFiniteSet(Naming(v))
         /\ \A m \in Array, q \in Slot : <<m, q>> \in Naming(v) <=> Names(m, q, v)
<1>1. Naming(v) \in SUBSET (Array \X Slot)
  BY DEF Naming
<1>2. \A m \in Array, q \in Slot : <<m, q>> \in Naming(v) <=> Names(m, q, v)
  BY DEF Naming
<1>3. MAX_GARBAGE_ARG_LEN - 1 \in Int
  BY ArgsAssumption DEF ArgsAssumption
<1>4. IsFiniteSet(Slot)
  BY <1>3, FS_Interval DEF Slot
<1>5. IsFiniteSet(Array \X Slot)
  BY <1>4, ArgsAssumption, FS_Product DEF ArgsAssumption
<1> QED
  BY <1>1, <1>2, <1>5, FS_Subset

\* A step that changes what one slot names counts it.
LEMMA OneSlotCounted ==
  ASSUME NEW n \in Array, NEW p \in Slot, Counted, refs \in [Elem -> Int], refs' \in [Elem -> Int],
         \A m \in Array, q \in Slot, v \in Elem : m # n \/ q # p => (Names(m, q, v)' <=> Names(m, q, v)),
         \A v \in Elem : /\ InTemp(v)' = InTemp(v) /\ InTemp(v) \in Nat
                         /\ refs'[v] + (IF Names(n, p, v) THEN 1 ELSE 0)
                              = refs[v] + (IF Names(n, p, v)' THEN 1 ELSE 0)
  PROVE  Counted'
<1> SUFFICES ASSUME NEW v \in Elem PROVE refs'[v] = Cardinality(Naming(v)') + InTemp(v)'
  BY DEF Counted
<1>1. PICK N : N = Naming(v)
  OBVIOUS
<1>2. PICK M : M = Naming(v)'
  OBVIOUS
<1>3. /\ N \in SUBSET (Array \X Slot) /\ IsFiniteSet(N)
      /\ \A m \in Array, q \in Slot : <<m, q>> \in N <=> Names(m, q, v)
  BY <1>1, NamingPairs
<1>4. /\ M \in SUBSET (Array \X Slot)
      /\ \A m \in Array, q \in Slot : <<m, q>> \in M <=> Names(m, q, v)'
  BY <1>2 DEF Naming
<1>5. M \ {<<n, p>>} = N \ {<<n, p>>}
  <2> SUFFICES ASSUME NEW m \in Array, NEW q \in Slot, <<m, q>> # <<n, p>>
               PROVE  <<m, q>> \in M <=> <<m, q>> \in N
    BY <1>3, <1>4
  <2>1. m # n \/ q # p
    OBVIOUS
  <2> QED
    BY <1>3, <1>4, <2>1
<1>6. /\ Cardinality(M) \in Nat /\ Cardinality(N) \in Nat
      /\ Cardinality(M) + (IF <<n, p>> \in N THEN 1 ELSE 0)
           = Cardinality(N) + (IF <<n, p>> \in M THEN 1 ELSE 0)
  BY <1>3, <1>5, OneChanged
<1>7. (<<n, p>> \in N <=> Names(n, p, v)) /\ (<<n, p>> \in M <=> Names(n, p, v)')
  BY <1>3, <1>4
<1>8. refs[v] = Cardinality(N) + InTemp(v)
  BY <1>1 DEF Counted
<1>9. refs[v] \in Int /\ refs'[v] \in Int /\ InTemp(v)' = InTemp(v) /\ InTemp(v) \in Nat
  OBVIOUS
<1>10. refs'[v] + (IF Names(n, p, v) THEN 1 ELSE 0) = refs[v] + (IF Names(n, p, v)' THEN 1 ELSE 0)
  OBVIOUS
<1>11. refs'[v] = Cardinality(M) + InTemp(v)
  BY <1>6, <1>7, <1>8, <1>9, <1>10
<1> QED
  BY <1>2, <1>9, <1>11

\* A step that changes neither what slots name nor the counts.
LEMMA StillCounted ==
  ASSUME Counted, refs' = refs, \A v \in Elem : InTemp(v)' = InTemp(v),
         \A m \in Array, q \in Slot, v \in Elem : Names(m, q, v)' <=> Names(m, q, v)
  PROVE  Counted'
<1> SUFFICES ASSUME NEW v \in Elem PROVE refs'[v] = Cardinality(Naming(v)') + InTemp(v)'
  BY DEF Counted
<1>1. PICK N : N = Naming(v)
  OBVIOUS
<1>2. PICK M : M = Naming(v)'
  OBVIOUS
<1>3. N \in SUBSET (Array \X Slot) /\ \A m \in Array, q \in Slot : <<m, q>> \in N <=> Names(m, q, v)
  BY <1>1, NamingPairs
<1>4. M \in SUBSET (Array \X Slot) /\ \A m \in Array, q \in Slot : <<m, q>> \in M <=> Names(m, q, v)'
  BY <1>2 DEF Naming
<1>5. M = N
  BY <1>3, <1>4
<1> QED
  BY <1>1, <1>2, <1>5 DEF Counted

\* The slots from lo on of the array n name the elements of s, and did not before.
LEMMA SliceCounted ==
  ASSUME NEW n \in Array, NEW lo \in Nat, NEW s \in Seq(Elem), NEW v \in Elem,
         lo + Len(s) <= MAX_GARBAGE_ARG_LEN,
         \A m \in Array, q \in Slot :
           /\ Names(m, q, v)' <=> Names(m, q, v) \/ InSlice(m, q, n, lo, s, v)
           /\ InSlice(m, q, n, lo, s, v) => ~ Names(m, q, v)
  PROVE  /\ Cardinality(Naming(v)) \in Nat
         /\ Cardinality(Naming(v)') = Cardinality(Naming(v)) + Count(s, v)
<1>1. PICK N : N = Naming(v)
  OBVIOUS
<1>2. PICK M : M = Naming(v)'
  OBVIOUS
<1>3. N \in SUBSET (Array \X Slot) /\ \A m \in Array, q \in Slot : <<m, q>> \in N <=> Names(m, q, v)
  BY <1>1, NamingPairs
<1>4. M \in SUBSET (Array \X Slot) /\ \A m \in Array, q \in Slot : <<m, q>> \in M <=> Names(m, q, v)'
  BY <1>2 DEF Naming
<1>5. \A m \in Array, q \in Slot : <<m, q>> \in Slice(n, lo, s, v) <=> InSlice(m, q, n, lo, s, v)
  BY DEF Slice
<1>6. Slice(n, lo, s, v) \subseteq Array \X Slot
  BY DEF Slice
<1>7. M = N \cup Slice(n, lo, s, v) /\ N \cap Slice(n, lo, s, v) = {}
  <2>1. ASSUME NEW m \in Array, NEW q \in Slot
        PROVE  /\ <<m, q>> \in M <=> <<m, q>> \in N \/ <<m, q>> \in Slice(n, lo, s, v)
               /\ ~ (<<m, q>> \in N /\ <<m, q>> \in Slice(n, lo, s, v))
    BY <1>3, <1>4, <1>5
  <2> QED
    BY <1>3, <1>4, <1>6, <2>1
<1>8. Cardinality(N) \in Nat /\ Cardinality(M) = Cardinality(N) + Count(s, v)
  BY <1>3, <1>7, SliceAdded
<1> QED
  BY <1>1, <1>2, <1>8

\* They no longer do.
LEMMA SliceDropped ==
  ASSUME NEW n \in Array, NEW lo \in Nat, NEW s \in Seq(Elem), NEW v \in Elem,
         lo + Len(s) <= MAX_GARBAGE_ARG_LEN,
         \A m \in Array, q \in Slot :
           /\ Names(m, q, v) <=> Names(m, q, v)' \/ InSlice(m, q, n, lo, s, v)
           /\ InSlice(m, q, n, lo, s, v) => ~ Names(m, q, v)'
  PROVE  /\ Cardinality(Naming(v)') \in Nat
         /\ Cardinality(Naming(v)) = Cardinality(Naming(v)') + Count(s, v)
<1>1. PICK N : N = Naming(v)
  OBVIOUS
<1>2. PICK M : M = Naming(v)'
  OBVIOUS
<1>3. N \in SUBSET (Array \X Slot) /\ \A m \in Array, q \in Slot : <<m, q>> \in N <=> Names(m, q, v)
  BY <1>1, NamingPairs
<1>4. M \in SUBSET (Array \X Slot) /\ \A m \in Array, q \in Slot : <<m, q>> \in M <=> Names(m, q, v)'
  BY <1>2 DEF Naming
<1>5. \A m \in Array, q \in Slot : <<m, q>> \in Slice(n, lo, s, v) <=> InSlice(m, q, n, lo, s, v)
  BY DEF Slice
<1>6. Slice(n, lo, s, v) \subseteq Array \X Slot
  BY DEF Slice
<1>7. N = M \cup Slice(n, lo, s, v) /\ M \cap Slice(n, lo, s, v) = {}
  <2>1. ASSUME NEW m \in Array, NEW q \in Slot
        PROVE  /\ <<m, q>> \in N <=> <<m, q>> \in M \/ <<m, q>> \in Slice(n, lo, s, v)
               /\ ~ (<<m, q>> \in M /\ <<m, q>> \in Slice(n, lo, s, v))
    BY <1>3, <1>4, <1>5
  <2> QED
    BY <1>3, <1>4, <1>6, <2>1
<1>8. Cardinality(M) \in Nat /\ Cardinality(N) = Cardinality(M) + Count(s, v)
  BY <1>4, <1>7, SliceAdded
<1> QED
  BY <1>1, <1>2, <1>8

\* A slot that is counted holds a node with a reference.
LEMMA CountedLive ==
  ASSUME NEW n \in Array, NEW p \in Slot, NEW v \in Elem, ArgsTypeOK, Counted, Names(n, p, v)
  PROVE  refs[v] > 0
<1>1. IsFiniteSet(Naming(v)) /\ <<n, p>> \in Naming(v)
  BY NamingPairs
<1>2. Cardinality(Naming(v)) \in Nat /\ Cardinality(Naming(v)) # 0
  BY <1>1, FS_CardinalityType, FS_EmptySet
<1>3. InTemp(v) \in Nat
  BY CountNat DEF InTemp, ArgsTypeOK
<1> QED
  BY <1>2, <1>3 DEF Counted

\* The assertions of k_get_arg and _k_set_arg hold for an argument that is counted.
LEMMA CountedReadable ==
  ASSUME NEW n \in Array, NEW x \in 0..(k_num_args(n) - 1), ArgsTypeOK, Counted,
         Used(n, pos_first[n] + x), Arg(n, x) \in Elem
  PROVE  Readable(n, x) /\ Writable(n, x) /\ Names(n, pos_first[n] + x, Arg(n, x))
<1>1. pos_first[n] + x \in Slot /\ Writable(n, x)
  BY WindowSlots
<1>2. Names(n, pos_first[n] + x, Arg(n, x))
  BY DEF Names, Arg
<1>3. refs[Arg(n, x)] > 0
  BY <1>1, <1>2, CountedLive
<1> QED
  BY <1>1, <1>2, <1>3, ArgsAssumption DEF Readable, ArgsAssumption

-----------------------------------------------------------------------------
(* What a step leaves alone.                                               *)

\* Nothing but the reason the program stopped.
LEMMA SameState ==
  ASSUME ArgsInv, panicked' = "assert" => TooLongToCopy,
         UNCHANGED <<a, pos_first, pos_end, refs, mine, theirs, call, pc, k, doomed, i, temp, before>>
  PROVE  ArgsInv'
<1>1. ArgsTypeOK'
  BY DEF ArgsInv, ArgsTypeOK, TooLongToCopy, Fits, k_num_args
<1>2. Inserting => Inserting'
  BY DEF Inserting, OwnersSee, Reads, k_num_args, Arg, Shared, Old, LastGoodArg, Added
<1>3. Edit => Edit'
  BY SMTT(30) DEF Edit, Reads, k_num_args, Arg, Old, LastGoodArg, Added, Stretched, Behind, Dest
<1>4. Trimming => Trimming'
  BY DEF Trimming, OwnersSee, Reads, k_num_args, Arg, Shared, Old
<1>5. Disposing => Disposing'
  BY DEF Disposing, Full, k_num_args, Arg, Final, Window
<1>6. \A n : Full(n) => Full(n)'
  BY DEF Full, k_num_args, Arg
<1>7. Phase'
  BY <1>2, <1>3, <1>4, <1>5, <1>6 DEF ArgsInv, Phase, Editing
<1>8. \A m \in Array, q \in Slot, v \in Elem : Names(m, q, v)' <=> Names(m, q, v)
  BY DEF Names, Used, Settled, Old
<1>9. Counted'
  BY <1>8, StillCounted DEF ArgsInv, InTemp
<1> QED
  BY <1>1, <1>7, <1>9 DEF ArgsInv

\* A call that cannot even make its copy stops the program.
LEMMA CopyFailsStep ==
  ASSUME ArgsInv, Idle, CopyFails
  PROVE  ArgsInv' /\ panicked' # "no"
BY SameState DEF CopyFails, Panic, Idle, TooLongToCopy

\* A window that is left alone reads what it read.
LEMMA ReadsKept ==
  ASSUME NEW n \in Array, NEW s, ArgsTypeOK, Reads(n, s),
         \A q \in Slot : a'[n][q] = a[n][q], pos_first'[n] = pos_first[n], pos_end'[n] = pos_end[n]
  PROVE  Reads(n, s)'
<1>1. s \in Seq(Elem) /\ k_num_args(n) = Len(s) /\ \A x \in 0..(Len(s) - 1) : Arg(n, x) = s[x + 1]
  BY DEF Reads
<1>2. \A x \in 0..(Len(s) - 1) : pos_first[n] + x \in Slot
  BY <1>1, WindowSlots
<1>3. k_num_args(n)' = k_num_args(n)
  BY DEF k_num_args
<1>4. \A x \in 0..(Len(s) - 1) : Arg(n, x)' = s[x + 1]
  BY <1>1, <1>2 DEF Arg
<1> QED
  BY <1>1, <1>3, <1>4 DEF Reads

\* A window that is left alone stays without holes, and its list is the same.
LEMMA FullKept ==
  ASSUME NEW n \in Array, ArgsTypeOK, Full(n),
         \A q \in Slot : a'[n][q] = a[n][q], pos_first'[n] = pos_first[n], pos_end'[n] = pos_end[n]
  PROVE  Full(n)' /\ Window(n)' = Window(n)
<1>1. \A x \in 0..(k_num_args(n) - 1) : pos_first[n] + x \in Slot
  BY WindowSlots
<1>2. k_num_args(n)' = k_num_args(n) /\ k_num_args(n) \in Nat
  BY WindowSlots DEF k_num_args
<1>3. \A x \in 0..(k_num_args(n) - 1) : Arg(n, x)' = Arg(n, x)
  BY <1>1 DEF Arg
<1>4. \A x \in 1..k_num_args(n) : Arg(n, x - 1)' = Arg(n, x - 1)
  <2> SUFFICES ASSUME NEW x \in 1..k_num_args(n) PROVE Arg(n, x - 1)' = Arg(n, x - 1)
    OBVIOUS
  <2>1. PICK y : y = x - 1
    OBVIOUS
  <2>2. y \in 0..(k_num_args(n) - 1)
    BY <1>2, <2>1
  <2>3. Arg(n, y)' = Arg(n, y)
    BY <1>3, <2>2
  <2> QED
    BY <2>1, <2>3
<1>5. Window(n)' = Window(n)
  BY <1>2, <1>4 DEF Window
<1> QED
  BY <1>2, <1>3, <1>5 DEF Full

\* The phase of a call.
LEMMA PhaseIs ==
  ASSUME Phase
  PROVE  /\ pc \in {"resize", "overwrite", "take", "put", "fill"} => Inserting /\ Edit
         /\ pc \in {"resize", "overwrite"} => temp = <<>>
         /\ pc = "trim" => Trimming
         /\ pc = "dispose" => Disposing
         /\ pc = "idle" => /\ k = NULL /\ doomed = NULL /\ temp = <<>>
                           /\ \A n \in {mine, theirs} \ {NULL} : Full(n)
  BY DEF Phase, Editing

\* Each step of an insertion, by itself.
LEMMA EditIs ==
  ASSUME Edit
  PROVE  /\ pc = "resize" => k = mine /\ Reads(k, Old) /\ i = call.pos
         /\ pc = "overwrite" =>
              /\ Stretched /\ call.pos <= i /\ i <= LastGoodArg
              /\ \A x \in 0..(Len(Old) - 1) :
                   Arg(k, x) = IF call.pos <= x /\ x < i THEN NULL ELSE Old[x + 1]
         /\ pc = "take" =>
              /\ Stretched /\ i <= Behind
              /\ \A x \in 0..(Len(Old) - 1) :
                   Arg(k, x) = IF call.pos <= x /\ x < LastGoodArg THEN NULL ELSE Old[x + 1]
              /\ Len(temp) = i /\ \A x \in 1..i : temp[x] = Old[LastGoodArg + x]
         /\ pc = "put" =>
              /\ Stretched /\ i <= Behind
              /\ Len(temp) = Behind /\ \A x \in 1..Behind : temp[x] = Old[LastGoodArg + x]
              /\ \A x \in 0..(call.pos - 1) : Arg(k, x) = Old[x + 1]
              /\ \A x \in 0..(i - 1) : Arg(k, Dest(x)) = temp[x + 1]
         /\ pc = "fill" =>
              /\ k_num_args(k) = Len(Old) + Added /\ i <= Len(call.elems)
              /\ \A x \in 0..(call.pos - 1) : Arg(k, x) = Old[x + 1]
              /\ \A x \in 0..(i - 1) : Arg(k, call.pos + x) = call.elems[x + 1]
              /\ \A x \in 0..(Behind - 1) : Arg(k, Dest(x)) = Old[LastGoodArg + x + 1]
  BY DEF Edit

\* The numbers of an insertion.
LEMMA InsertNumbers ==
  ASSUME Inserting
  PROVE  /\ call.pos \in Nat /\ call.over \in Nat
         /\ call.elems \in Seq(Elem) /\ Len(call.elems) \in Nat
         /\ \A x \in 1..Len(call.elems) : call.elems[x] \in Elem
         /\ Len(Old) \in Nat /\ \A x \in 1..Len(Old) : Old[x] \in Elem
         /\ LastGoodArg = call.pos + call.over /\ LastGoodArg <= Len(Old)
         /\ Added = Len(call.elems) - call.over
         /\ Behind = Len(Old) - LastGoodArg
         /\ \A x : Dest(x) = LastGoodArg + x + Added
<1>1. call.elems \in Seq(Elem)
  <2>1. PICK m \in 0..MaxElems : call.elems \in [1..m -> Elem]
    BY DEF Inserting, Lists
  <2>2. m \in Nat
    BY <2>1, ArgsAssumption DEF ArgsAssumption
  <2> QED
    BY <2>1, <2>2
<1>2. Old \in Seq(Elem) /\ call.pos \in Nat /\ call.over \in Nat /\ LastGoodArg <= Len(Old)
  BY DEF Inserting
<1> QED
  BY <1>1, <1>2 DEF LastGoodArg, Added, Behind, Dest, Old

\* A new node takes the list s, and each element of s another reference.
LEMMA CopyCounted ==
  ASSUME NEW m \in Array, NEW s \in Seq(Elem), ArgsTypeOK, Counted,
         refs' \in [Elem -> Int], POS_FIRST + Len(s) <= MAX_GARBAGE_ARG_LEN,
         \A v \in Elem : refs'[v] = refs[v] + Count(s, v) /\ InTemp(v) = 0 /\ InTemp(v)' = 0,
         \A o \in Array, q \in Slot : o # m => a'[o][q] = a[o][q] /\ (Used(o, q)' <=> Used(o, q)),
         \A q \in Slot : /\ ~ Used(m, q)
                         /\ Used(m, q)' <=> POS_FIRST <= q /\ q < POS_FIRST + Len(s),
         \A x \in 0..(Len(s) - 1) : a'[m][POS_FIRST + x] = s[x + 1]
  PROVE  Counted'
<1> SUFFICES ASSUME NEW v \in Elem PROVE refs'[v] = Cardinality(Naming(v)') + InTemp(v)'
  BY DEF Counted
<1>1. POS_FIRST \in Nat /\ Len(s) \in Nat /\ MAX_GARBAGE_ARG_LEN \in Nat
  BY ArgsAssumption DEF ArgsAssumption
<1>2. ASSUME NEW o \in Array, NEW q \in Slot
      PROVE  /\ Names(o, q, v)' <=> Names(o, q, v) \/ InSlice(o, q, m, POS_FIRST, s, v)
             /\ InSlice(o, q, m, POS_FIRST, s, v) => ~ Names(o, q, v)
  <2>1. CASE o # m
    BY <2>1 DEF Names, InSlice
  <2>2. CASE o = m
    <3>1. ~ Names(m, q, v)
      BY DEF Names
    <3>2. ASSUME Names(m, q, v)' PROVE InSlice(m, q, m, POS_FIRST, s, v)
      <4>1. POS_FIRST <= q /\ q < POS_FIRST + Len(s) /\ a'[m][q] = v
        BY <3>2 DEF Names
      <4>2. q - POS_FIRST \in 0..(Len(s) - 1) /\ q = POS_FIRST + (q - POS_FIRST)
        BY <1>1, <4>1 DEF Slot
      <4>3. s[(q - POS_FIRST) + 1] = v
        BY <4>1, <4>2
      <4> QED
        BY <4>2, <4>3 DEF InSlice
    <3>3. ASSUME InSlice(m, q, m, POS_FIRST, s, v) PROVE Names(m, q, v)'
      <4>1. PICK x \in 0..(Len(s) - 1) : q = POS_FIRST + x /\ s[x + 1] = v
        BY <3>3 DEF InSlice
      <4>2. POS_FIRST <= q /\ q < POS_FIRST + Len(s)
        BY <1>1, <4>1
      <4> QED
        BY <4>1, <4>2 DEF Names
    <3> QED
      BY <2>2, <3>1, <3>2, <3>3
  <2> QED
    BY <2>1, <2>2
<1>3. Cardinality(Naming(v)) \in Nat /\ Cardinality(Naming(v)') = Cardinality(Naming(v)) + Count(s, v)
  BY <1>1, <1>2, SliceCounted
<1>4. refs[v] = Cardinality(Naming(v)) + InTemp(v) /\ refs[v] \in Int
  BY DEF Counted, ArgsTypeOK
<1>5. Count(s, v) \in Nat
  BY CountNat
<1> QED
  BY <1>3, <1>4, <1>5

-----------------------------------------------------------------------------
(* The loops of k_insert_elems_vararg.                                     *)

\* A step that changes nothing but the edited node.
LEMMA InsertingKept ==
  ASSUME ArgsTypeOK, Inserting, pc # "resize" \/ pc' = pc,
         UNCHANGED <<pos_first, mine, theirs, call, k, doomed, before>>,
         \A n \in Array, q \in Slot : n # k => a'[n][q] = a[n][q],
         \A n \in Array : n # k => pos_end'[n] = pos_end[n]
  PROVE  Inserting'
<1>1. /\ k \in Array /\ mine \in Array /\ doomed \in Array \ {mine, theirs, k}
      /\ theirs \in Array \cup {NULL}
  BY DEF Inserting, OwnersSee, ArgsTypeOK
<1>2. ASSUME NEW n \in Array, NEW s, n # k, Reads(n, s) PROVE Reads(n, s)'
  BY <1>2, ReadsKept DEF Reads
<1>3. PICK o : o = Old
  OBVIOUS
<1>4. PICK t : t = before.theirs
  OBVIOUS
<1>5. Old' = o /\ before'.theirs = t
  BY <1>3, <1>4 DEF Old
<1>6. Reads(doomed, o) => Reads(doomed, o)'
  BY <1>1, <1>2
<1>7. k # mine /\ Reads(mine, o) => Reads(mine, o)'
  BY <1>1, <1>2
<1>8. theirs \notin {NULL, k} /\ Reads(theirs, t) => Reads(theirs, t)'
  BY <1>1, <1>2
<1>9. OwnersSee'
  <2>1. OwnersSee
    BY DEF Inserting
  <2> QED
    BY <1>3, <1>4, <1>5, <1>7, <1>8, <2>1 DEF OwnersSee, Shared, Reads, k_num_args, Arg
<1>10. Reads(doomed, Old)'
  BY <1>3, <1>5, <1>6 DEF Inserting, Reads, k_num_args, Arg
<1> QED
  BY <1>9, <1>10 DEF Inserting, Old, LastGoodArg, Added, Shared, Fits

\* Overwriting one argument, or none any more.
LEMMA OverwriteStep ==
  ASSUME ArgsInv, Overwrite
  PROVE  ArgsInv'
<1>1. pc = "overwrite" /\ panicked = "no" /\ ArgsTypeOK /\ Counted /\ Inserting /\ temp = <<>>
  BY PhaseIs DEF Overwrite, Running, ArgsInv
<1>2. /\ Stretched /\ call.pos <= i /\ i <= LastGoodArg
      /\ \A x \in 0..(Len(Old) - 1) : Arg(k, x) = IF call.pos <= x /\ x < i THEN NULL ELSE Old[x + 1]
  BY <1>1, PhaseIs, EditIs DEF ArgsInv
<1>3. UNCHANGED <<pos_first, pos_end, mine, theirs, callVars>>
  BY DEF Overwrite, heapVars
<1>4. k \in Array /\ i \in Nat /\ refs \in [Elem -> Int] /\ a \in [Array -> [Slot -> Elem \cup {NULL}]]
  BY <1>1 DEF Inserting, OwnersSee, ArgsTypeOK
<1>5. /\ call.pos \in Nat /\ call.over \in Nat /\ Len(Old) \in Nat /\ LastGoodArg = call.pos + call.over
      /\ LastGoodArg <= Len(Old) /\ \A x \in 1..Len(Old) : Old[x] \in Elem
  BY <1>1, InsertNumbers
<1>6. k_num_args(k) \in Nat /\ Len(Old) <= k_num_args(k)
  <2>1. Added \in Int
    BY <1>1, InsertNumbers
  <2> QED
    BY <1>2, <1>5, <2>1 DEF Stretched
<1>7. LastGoodArg' = LastGoodArg /\ Old' = Old /\ Behind' = Behind /\ (Stretched => Stretched')
  BY <1>3 DEF LastGoodArg, Old, Behind, Stretched, Added, callVars, k_num_args
<1>8. CASE i >= LastGoodArg /\ i' = 0 /\ pc' = "take" /\ UNCHANGED heapVars /\ UNCHANGED panicked
  <2>1. ArgsTypeOK'
    BY <1>1, <1>3, <1>8 DEF ArgsTypeOK, heapVars, callVars
  <2>2. Inserting'
    BY <1>1, <1>3, <1>8, InsertingKept DEF heapVars, callVars
  <2>3. i = LastGoodArg
    BY <1>2, <1>4, <1>5, <1>8
  <2>4. 0 <= Behind /\ temp' = <<>>
    BY <1>1, <1>3, <1>5, InsertNumbers DEF callVars
  <2>5. \A x \in 0..(Len(Old) - 1) : Arg(k, x)' = IF call.pos <= x /\ x < LastGoodArg THEN NULL ELSE Old[x + 1]
    BY <1>2, <1>3, <1>8, <2>3 DEF Arg, heapVars, callVars
  <2>6. Edit'
    BY <1>2, <1>3, <1>7, <1>8, <2>4, <2>5 DEF Edit, callVars
  <2>7. Phase'
    BY <1>8, <2>2, <2>6 DEF Phase, Editing
  <2>8. \A m \in Array, q \in Slot, v \in Elem : Names(m, q, v)' <=> Names(m, q, v)
    BY <1>1, <1>3, <1>7, <1>8 DEF Names, Used, Settled, callVars, heapVars
  <2>9. Counted'
    BY <1>1, <1>8, <2>8, StillCounted DEF InTemp, heapVars
  <2> QED
    BY <2>1, <2>7, <2>9 DEF ArgsInv
<1>9. CASE i < LastGoodArg
  <2>1. i \in 0..(Len(Old) - 1) /\ i \in 0..(k_num_args(k) - 1) /\ i + 1 \in 1..Len(Old)
    BY <1>4, <1>5, <1>6, <1>9
  <2>2. Arg(k, i) = Old[i + 1] /\ Arg(k, i) \in Elem
    BY <1>2, <1>5, <2>1
  <2>3. PICK p : p = pos_first[k] + i
    OBVIOUS
  <2>4. p \in Slot /\ p < pos_end[k] /\ pos_first[k] <= p /\ p - pos_first[k] = i /\ pos_first[k] \in Nat
    BY <1>1, <1>4, <2>1, <2>3, WindowSlots
  <2>5. Used(k, p)
    <3>1. Settled(i)
      BY <1>1, <1>4, <1>5, <2>1 DEF Settled
    <3> QED
      BY <1>1, <1>4, <2>4, <3>1, ArgsAssumption DEF Used, ArgsAssumption
  <2>6. Readable(k, i) /\ Names(k, p, Arg(k, i))
    BY <1>1, <1>4, <2>1, <2>2, <2>3, <2>5, CountedReadable
  <2>7. /\ refs' = [refs EXCEPT ![Arg(k, i)] = @ - 1] /\ a' = [a EXCEPT ![k][p] = NULL] /\ i' = i + 1
        /\ pc' = pc /\ panicked' = panicked
    BY <1>9, <2>3, <2>6, <1>4, <1>5 DEF Overwrite, Dec
  <2>8. /\ a' \in [Array -> [Slot -> Elem \cup {NULL}]]
        /\ \A m \in Array, q \in Slot : a'[m][q] = IF m = k /\ q = p THEN NULL ELSE a[m][q]
    BY <1>4, <2>4, <2>7
  <2>9. refs' \in [Elem -> Int] /\ \A v \in Elem : refs'[v] = IF v = Arg(k, i) THEN refs[v] - 1 ELSE refs[v]
    BY <1>4, <2>2, <2>7
  <2>10. ArgsTypeOK'
    <3>1. i + 1 \in Nat
      BY <1>4
    <3> QED
      BY <1>1, <1>3, <2>7, <2>8, <2>9, <3>1 DEF ArgsTypeOK, callVars
  <2>11. Inserting'
    BY <1>1, <1>3, <2>7, <2>8, InsertingKept DEF callVars
  <2>12. ASSUME NEW x \in 0..(Len(Old) - 1)
         PROVE  Arg(k, x)' = IF call.pos <= x /\ x < i + 1 THEN NULL ELSE Old[x + 1]
    <3>1. x \in 0..(k_num_args(k) - 1)
      BY <1>5, <1>6
    <3>2. pos_first[k] + x \in Slot
      BY <1>1, <1>4, <3>1, WindowSlots
    <3>3. pos_first[k] + x = p <=> x = i
      BY <2>3, <2>4, <1>4
    <3>4. Arg(k, x)' = IF x = i THEN NULL ELSE Arg(k, x)
      BY <1>3, <1>4, <2>8, <3>2, <3>3 DEF Arg, callVars
    <3>5. Arg(k, x) = IF call.pos <= x /\ x < i THEN NULL ELSE Old[x + 1]
      BY <1>2
    <3> QED
      BY <1>2, <1>4, <1>5, <3>4, <3>5
  <2>13. call.pos <= i + 1 /\ i + 1 <= LastGoodArg
    BY <1>2, <1>4, <1>5, <1>9
  <2>14. Edit'
    BY <1>1, <1>2, <1>3, <1>7, <2>7, <2>12, <2>13 DEF Edit, callVars
  <2>15. Phase'
    BY <1>1, <1>3, <2>7, <2>11, <2>14 DEF Phase, Editing, callVars
  <2>16. \A m \in Array, q \in Slot, v \in Elem : m # k \/ q # p => (Names(m, q, v)' <=> Names(m, q, v))
    BY <1>1, <1>3, <1>7, <2>7, <2>8 DEF Names, Used, Settled, callVars
  <2>17. ASSUME NEW v \in Elem
         PROVE  /\ InTemp(v)' = InTemp(v) /\ InTemp(v) \in Nat
                /\ refs'[v] + (IF Names(k, p, v) THEN 1 ELSE 0)
                     = refs[v] + (IF Names(k, p, v)' THEN 1 ELSE 0)
    <3>1. Names(k, p, v) <=> v = Arg(k, i)
      BY <2>3, <2>5 DEF Names, Arg
    <3>2. ~ Names(k, p, v)'
      BY <1>3, <1>4, <2>4, <2>8, ArgsAssumption DEF Names, callVars, ArgsAssumption
    <3>3. InTemp(v)' = InTemp(v) /\ InTemp(v) \in Nat
      BY <1>1, <2>7 DEF InTemp
    <3> QED
      BY <1>4, <2>9, <3>1, <3>2, <3>3
  <2>18. Counted'
    BY <1>1, <1>3, <1>4, <2>4, <2>9, <2>16, <2>17, OneSlotCounted DEF callVars
  <2> QED
    BY <2>10, <2>15, <2>18 DEF ArgsInv
<1>10. i >= LastGoodArg \/ i < LastGoodArg
  BY <1>4, <1>5
<1> QED
  BY <1>8, <1>9, <1>10, <1>4, <1>5 DEF Overwrite

\* The numbers of an insertion: so many arguments there were, so many up to the
\* last one that goes, so many before the first, and so many new ones.
LEMMA InsertSizes ==
  ASSUME Inserting
  PROVE  \E L, G, P, E \in Nat :
           /\ L = Len(Old) /\ G = LastGoodArg /\ P = call.pos /\ E = Len(call.elems)
           /\ P <= G /\ G <= L /\ Behind = L - G /\ Added = E - (G - P)
<1>1. /\ call.pos \in Nat /\ call.over \in Nat /\ Len(call.elems) \in Nat /\ Len(Old) \in Nat
      /\ LastGoodArg = call.pos + call.over /\ LastGoodArg <= Len(Old)
  BY InsertNumbers
<1>2. Added = Len(call.elems) - call.over /\ Behind = Len(Old) - LastGoodArg
  BY DEF Added, Behind, Old
<1>3. PICK L \in Nat : L = Len(Old)
  BY <1>1
<1>4. PICK P \in Nat : P = call.pos
  BY <1>1
<1>5. PICK o \in Nat : o = call.over
  BY <1>1
<1>6. PICK E \in Nat : E = Len(call.elems)
  BY <1>1
<1>7. PICK G \in Nat : G = LastGoodArg /\ G = P + o
  BY <1>1, <1>4, <1>5
<1>8. P <= G /\ o = G - P
  BY <1>7
<1>9. G <= L
  BY <1>1, <1>3, <1>7
<1> QED
  BY <1>2, <1>3, <1>4, <1>5, <1>6, <1>7, <1>8, <1>9

\* Taking one argument out, or turning to put them back.
LEMMA TakeStep ==
  ASSUME ArgsInv, Take
  PROVE  ArgsInv'
<1>1. pc = "take" /\ panicked = "no" /\ ArgsTypeOK /\ Counted /\ Inserting
  BY PhaseIs DEF Take, Running, ArgsInv
<1>2. PICK L, G, P, E \in Nat :
        /\ L = Len(Old) /\ G = LastGoodArg /\ P = call.pos /\ E = Len(call.elems)
        /\ P <= G /\ G <= L /\ Behind = L - G /\ Added = E - (G - P)
  BY <1>1, InsertSizes
<1>3. /\ Stretched /\ i <= L - G
      /\ \A x \in 0..(L - 1) : Arg(k, x) = IF P <= x /\ x < G THEN NULL ELSE Old[x + 1]
      /\ Len(temp) = i /\ \A x \in 1..i : temp[x] = Old[G + x]
  BY <1>1, <1>2, PhaseIs, EditIs DEF ArgsInv
<1>4. UNCHANGED <<heapVars, mine, theirs, call, k, doomed, before>>
  BY DEF Take
<1>5. /\ k \in Array /\ i \in Nat /\ refs \in [Elem -> Int] /\ a \in [Array -> [Slot -> Elem \cup {NULL}]]
      /\ temp \in Seq(Elem) /\ NULL \notin Elem /\ NULL \notin Array
  BY <1>1, ArgsAssumption DEF Inserting, OwnersSee, ArgsTypeOK, ArgsAssumption
<1>6. \A x \in 1..L : Old[x] \in Elem
  BY <1>1, <1>2, InsertNumbers
<1>7. k_num_args(k) \in Nat /\ L <= k_num_args(k)
  <2>1. k_num_args(k) = L + IF E - (G - P) > 0 THEN E - (G - P) ELSE 0
    BY <1>2, <1>3 DEF Stretched
  <2> QED
    BY <1>2, <2>1
<1>8. LastGoodArg' = G /\ Old' = Old /\ Len(Old)' = L /\ Behind' = L - G /\ call'.pos = P /\ Stretched'
  BY <1>2, <1>3, <1>4 DEF LastGoodArg, Old, Behind, Stretched, Added, heapVars, k_num_args
<1>9. \A x \in 0..(L - 1) : Arg(k, x)' = IF P <= x /\ x < G THEN NULL ELSE Old[x + 1]
  BY <1>3, <1>4 DEF Arg, heapVars
<1>10. Inserting'
  BY <1>1, <1>4, InsertingKept DEF heapVars
<1>11. CASE i >= Behind /\ i' = 0 /\ pc' = "put" /\ UNCHANGED <<temp, panicked>>
  <2>1. ArgsTypeOK'
    BY <1>1, <1>4, <1>11 DEF ArgsTypeOK, heapVars
  <2>2. i = L - G
    <3>1. i <= L - G /\ i >= L - G
      BY <1>2, <1>3, <1>11
    <3>2. i \in Nat /\ L - G \in Nat
      BY <1>2, <1>5
    <3> QED
      BY <3>1, <3>2
  <2>3. Edit'
    <3>1. Len(temp)' = L - G /\ \A x \in 1..(L - G) : temp'[x] = Old[G + x]
      BY <1>3, <1>11, <2>2
    <3>2. \A x \in 0..(P - 1) : Arg(k, x)' = Old[x + 1]
      <4>1. \A x \in 0..(P - 1) : x \in 0..(L - 1) /\ ~ P <= x
        BY <1>2
      <4> QED
        BY <1>9, <4>1
    <3>3. 0 <= L - G
      BY <1>2
    <3>4. \A x \in 0..(i' - 1) : Arg(k, Dest(x))' = temp'[x + 1]
      BY <1>11
    <3> QED
      BY <1>8, <1>11, <3>1, <3>2, <3>3, <3>4 DEF Edit
  <2>4. Phase'
    BY <1>10, <1>11, <2>3 DEF Phase, Editing
  <2>5. PICK n : n = k
    OBVIOUS
  <2>6. PICK F \in Nat : F = pos_first[n]
    BY <1>1, <1>5, <2>5, WindowSlots
  <2>7. PICK N \in Nat : N = pos_end[n]
    BY <1>1, <1>5, <2>5, WindowSlots
  <2>8. F + L <= N
    BY <1>1, <1>2, <1>5, <1>7, <2>5, <2>6, <2>7, WindowSlots
  <2>9. N <= MAX_GARBAGE_ARG_LEN /\ MAX_GARBAGE_ARG_LEN \in Nat
    BY <1>1, <1>5, <2>5, <2>7, WindowSlots
  <2>10. PICK s \in Seq(Elem) : s = temp
    BY <1>5
  <2>11. Len(s) = L - G /\ \A x \in 1..(L - G) : s[x] = Old[G + x]
    BY <1>3, <2>2, <2>10
  <2>12. ASSUME NEW v \in Elem, NEW m \in Array, NEW q \in Slot
        PROVE  /\ Names(m, q, v) <=> Names(m, q, v)' \/ InSlice(m, q, n, F + G, s, v)
               /\ InSlice(m, q, n, F + G, s, v) => ~ Names(m, q, v)'
    <3>0. q \in Int
      BY <2>9 DEF Slot
    <3>1. CASE m # n
      BY <1>4, <2>5, <3>1 DEF Names, Used, InSlice, heapVars
    <3>2. CASE m = n /\ ~ (F <= q /\ q < F + L)
      <4>1. Used(m, q) => F <= q /\ q - F < L
        BY <1>1, <1>2, <2>5, <2>6, <3>2 DEF Used, Settled
      <4>2. Used(m, q)' => F <= q /\ q - F < P
        BY <1>2, <1>4, <1>11, <2>5, <2>6, <3>2 DEF Used, Settled, heapVars
      <4>3. ~ (F <= q /\ q - F < L) /\ ~ (F <= q /\ q - F < P)
        BY <1>2, <3>0, <3>2
      <4>4. \A x \in 0..((L - G) - 1) : q # (F + G) + x
        BY <1>2, <3>0, <3>2
      <4> QED
        BY <2>11, <4>1, <4>2, <4>3, <4>4 DEF Names, InSlice
    <3>3. CASE m = n /\ F <= q /\ q < F + L
      <4>1. PICK y \in 0..(L - 1) : y = q - F /\ q = F + y
        BY <1>2, <3>0, <3>3
      <4>2. a[n][q] = Arg(k, y) /\ Arg(k, y) = IF P <= y /\ y < G THEN NULL ELSE Old[y + 1]
        BY <1>3, <2>5, <2>6, <4>1 DEF Arg
      <4>3. q < N /\ y < L /\ y + 1 \in 1..L
        BY <1>2, <2>8, <4>1, <3>3, <3>0
      <4>4. Used(n, q) /\ (Used(n, q)' <=> y < P)
        <5>1. Settled(y) /\ (Settled(y)' <=> y < P)
          BY <1>1, <1>2, <1>4, <1>8, <1>11, <4>3 DEF Settled
        <5> QED
          BY <1>4, <1>5, <2>5, <2>6, <2>7, <3>3, <4>1, <4>3, <5>1 DEF Used, heapVars
      <4>5. Names(m, q, v) <=> (y < P \/ y >= G) /\ Old[y + 1] = v
        <5>1. P <= y /\ y < G <=> ~ (y < P \/ y >= G)
          <6>1. P \in Nat /\ G \in Nat /\ y \in Int
            BY <1>2, <4>1
          <6> QED
            BY <6>1
        <5> QED
          BY <1>5, <3>3, <4>2, <4>4, <5>1 DEF Names
      <4>6. Names(m, q, v)' <=> y < P /\ Old[y + 1] = v
        <5>1. y < P => ~ P <= y
          BY <1>2, <4>1
        <5> QED
          BY <1>4, <3>3, <4>2, <4>4, <5>1 DEF Names, heapVars
      <4>7. InSlice(m, q, n, F + G, s, v) <=> y >= G /\ Old[y + 1] = v
        <5>1. ASSUME InSlice(m, q, n, F + G, s, v) PROVE y >= G /\ Old[y + 1] = v
          <6>1. PICK x \in 0..((L - G) - 1) : q = (F + G) + x /\ s[x + 1] = v
            BY <2>11, <5>1 DEF InSlice
          <6>2. y = G + x /\ x + 1 \in 1..(L - G) /\ G + (x + 1) = y + 1
            BY <1>2, <4>1, <6>1
          <6>3. y >= G
            BY <1>2, <6>1, <6>2
          <6> QED
            BY <2>11, <6>1, <6>2, <6>3
        <5>2. ASSUME y >= G, Old[y + 1] = v PROVE InSlice(m, q, n, F + G, s, v)
          <6>1. PICK x \in 0..((L - G) - 1) : y = G + x
            BY <1>2, <4>1, <5>2
          <6>2. q = (F + G) + x /\ x + 1 \in 1..(L - G) /\ G + (x + 1) = y + 1
            BY <1>2, <4>1, <6>1
          <6> QED
            BY <2>11, <3>3, <5>2, <6>1, <6>2 DEF InSlice
        <5> QED
          BY <5>1, <5>2
      <4>8. ~ (y < P /\ y >= G)
        BY <1>2, <4>1
      <4> QED
        BY <4>5, <4>6, <4>7, <4>8
    <3> QED
      BY <3>1, <3>2, <3>3
  <2>13. (F + G) \in Nat /\ (F + G) + (L - G) <= MAX_GARBAGE_ARG_LEN
    BY <1>2, <2>8, <2>9
  <2>14. ASSUME NEW v \in Elem
         PROVE  /\ Cardinality(Naming(v)') \in Nat
                /\ Cardinality(Naming(v)) = Cardinality(Naming(v)') + Count(s, v)
    <3>1. PICK lo \in Nat : lo = F + G
      BY <2>13
    <3>2. lo + Len(s) <= MAX_GARBAGE_ARG_LEN
      BY <2>11, <2>13, <3>1
    <3>3. n \in Array
      BY <1>5, <2>5
    <3> QED
      BY <2>12, <3>1, <3>2, <3>3, SliceDropped
  <2>15. Counted'
    <3> SUFFICES ASSUME NEW v \in Elem PROVE refs'[v] = Cardinality(Naming(v)') + InTemp(v)'
      BY DEF Counted
    <3>1. refs[v] = Cardinality(Naming(v)) + 0 /\ refs'[v] = refs[v]
      BY <1>1, <1>4 DEF Counted, InTemp, heapVars
    <3>2. InTemp(v)' = Count(s, v)
      BY <1>11, <2>10 DEF InTemp
    <3>3. Count(s, v) \in Nat
      BY CountNat
    <3> QED
      BY <2>14, <3>1, <3>2, <3>3
  <2> QED
    BY <2>1, <2>4, <2>15 DEF ArgsInv
<1>12. CASE i < Behind
  <2>1. PICK y : y = G + i
    OBVIOUS
  <2>2. y \in 0..(L - 1) /\ y + 1 \in 1..L /\ ~ y < G /\ G + (i + 1) = y + 1 /\ i + 1 <= L - G
    BY <1>2, <1>5, <1>12, <2>1
  <2>3. y \in 0..(k_num_args(k) - 1)
    BY <1>2, <1>7, <2>2
  <2>4. Arg(k, y) = Old[y + 1] /\ Arg(k, y) \in Elem
    BY <1>3, <1>6, <2>2
  <2>5. Used(k, pos_first[k] + y)
    <3>1. Settled(y)
      BY <1>1, <1>2, <2>2 DEF Settled
    <3>2. pos_first[k] + y < pos_end[k] /\ pos_first[k] <= pos_first[k] + y /\ (pos_first[k] + y) - pos_first[k] = y
      BY <1>1, <1>5, <2>3, WindowSlots
    <3> QED
      BY <1>5, <3>1, <3>2 DEF Used
  <2>6. Readable(k, y)
    BY <1>1, <1>5, <2>3, <2>4, <2>5, CountedReadable
  <2>7. temp' = Append(temp, Arg(k, y)) /\ i' = i + 1 /\ pc' = pc /\ panicked' = panicked
    BY <1>2, <1>5, <1>12, <2>1, <2>6 DEF Take
  <2>8. ArgsTypeOK'
    <3>1. temp' \in Seq(Elem) /\ i + 1 \in Nat
      BY <1>5, <2>4, <2>7
    <3> QED
      BY <1>1, <1>4, <2>7, <3>1 DEF ArgsTypeOK, heapVars
  <2>9. Len(temp') = i + 1 /\ \A x \in 1..(i + 1) : temp'[x] = Old[G + x]
    <3>1. Len(temp') = i + 1 /\ \A x \in 1..(i + 1) : temp'[x] = IF x = i + 1 THEN Arg(k, y) ELSE temp[x]
      BY <1>3, <1>5, <2>4, <2>7
    <3>2. \A x \in 1..(i + 1) : x # i + 1 => x \in 1..i
      BY <1>5
    <3> QED
      BY <1>3, <2>2, <2>4, <3>1, <3>2
  <2>10. Edit'
    BY <1>1, <1>8, <1>9, <2>2, <2>7, <2>9 DEF Edit
  <2>11. Phase'
    BY <1>1, <1>10, <2>7, <2>10 DEF Phase, Editing
  <2>12. \A m \in Array, q \in Slot, v \in Elem : Names(m, q, v)' <=> Names(m, q, v)
    BY <1>1, <1>2, <1>4, <1>8, <2>7 DEF Names, Used, Settled, heapVars
  <2>13. Counted'
    BY <1>1, <1>4, <2>7, <2>12, StillCounted DEF InTemp, heapVars
  <2> QED
    BY <2>8, <2>11, <2>13 DEF ArgsInv
<1>13. i >= Behind \/ i < Behind
  BY <1>2, <1>5
<1> QED
  BY <1>2, <1>5, <1>11, <1>12, <1>13 DEF Take

\* The same numbers with those that follow from them: so many arguments behind,
\* so many before where they go, so many more in all.
LEMMA InsertSums ==
  ASSUME Inserting
  PROVE  \E L, G, P, E, B, D \in Nat, A \in Int :
           /\ P <= G /\ G + B = L /\ P + E = D /\ G + A = D
           /\ L = Len(Old) /\ G = LastGoodArg /\ P = call.pos /\ E = Len(call.elems)
           /\ B = Behind /\ A = Added
<1>1. PICK L, G, P, E \in Nat :
        /\ L = Len(Old) /\ G = LastGoodArg /\ P = call.pos /\ E = Len(call.elems)
        /\ P <= G /\ G <= L /\ Behind = L - G /\ Added = E - (G - P)
  BY InsertSizes
<1>2. L \in Nat /\ G \in Nat /\ P \in Nat /\ E \in Nat /\ P <= G /\ G <= L
  BY <1>1
<1>3. PICK B \in Nat : B = L - G /\ G + B = L
  BY <1>2
<1>4. PICK D \in Nat : D = P + E
  BY <1>2
<1>5. PICK A \in Int : A = E - (G - P) /\ G + A = D
  BY <1>2, <1>4
<1> QED
  BY <1>1, <1>3, <1>4, <1>5, ZenonT(30)

\* Putting one argument back, or turning to the new ones.
LEMMA PutStep ==
  ASSUME ArgsInv, PutBack
  PROVE  ArgsInv'
<1>1. pc = "put" /\ panicked = "no" /\ ArgsTypeOK /\ Counted /\ Inserting
  BY PhaseIs DEF PutBack, Running, ArgsInv
<1>2. PICK L, G, P, E, B, D \in Nat, A \in Int :
        /\ P <= G /\ G + B = L /\ P + E = D /\ G + A = D
        /\ L = Len(Old) /\ G = LastGoodArg /\ P = call.pos /\ E = Len(call.elems)
        /\ B = Behind /\ A = Added
  BY <1>1, InsertSums
<1>3. /\ L \in Nat /\ G \in Nat /\ P \in Nat /\ E \in Nat /\ B \in Nat /\ D \in Nat /\ A \in Int
      /\ P <= G /\ G + B = L /\ P + E = D /\ G + A = D
  BY <1>2
<1>4. \A x : Dest(x) = G + x + A
  BY <1>2 DEF Dest
<1>5. \A x \in Nat : Dest(x) = D + x
  <2>1. \A x \in Nat : G + x + A = D + x
    BY <1>3
  <2> QED
    BY <1>4, <2>1
<1>6. i \in Nat /\ i <= B
  BY <1>1, <1>2, <1>3, PhaseIs, EditIs DEF ArgsInv, ArgsTypeOK
<1>7. /\ \A x \in 0..(P - 1) : Arg(k, x) = Old[x + 1]
      /\ \A x \in 0..(i - 1) : Arg(k, Dest(x)) = temp[x + 1]
      /\ Stretched
  BY <1>1, <1>2, PhaseIs, EditIs DEF ArgsInv
<1>8. PICK s \in Seq(Elem) : s = temp
  BY <1>1 DEF ArgsTypeOK
<1>9. Len(s) = B /\ \A x \in 1..B : s[x] = Old[G + x] /\ s[x] \in Elem
  <2>1. Len(s) = B /\ \A x \in 1..B : s[x] = Old[G + x]
    BY <1>1, <1>2, <1>3, <1>8, PhaseIs, EditIs DEF ArgsInv
  <2>2. \A x \in 1..B : s[x] \in Elem
    BY <1>8, <2>1
  <2> QED
    BY <2>1, <2>2
<1>10. UNCHANGED <<pos_first, refs, mine, theirs, callVars>>
  BY DEF PutBack
<1>11. PICK n \in Array : n = k
  BY <1>1 DEF Inserting, OwnersSee
<1>12. PICK F \in Nat : F = pos_first[n]
  BY <1>1, WindowSlots
<1>13. PICK N \in Nat : N = pos_end[n] /\ N <= MAX_GARBAGE_ARG_LEN
  BY <1>1, WindowSlots
<1>14. PICK W \in Nat : W = k_num_args(n) /\ N = F + W
  BY <1>1, <1>12, <1>13, WindowSlots
<1>15. D + B <= W /\ L <= W
       /\ D + B = IF A < 0 THEN W + A ELSE W
  <2>1. W = L + IF A > 0 THEN A ELSE 0
    BY <1>2, <1>7, <1>11, <1>14 DEF Stretched
  <2>2. W \in Nat
    BY <1>14
  <2> QED
    BY <1>3, <2>1, <2>2
<1>16. MAX_GARBAGE_ARG_LEN \in Nat /\ NULL \notin Elem /\ NULL \notin Array
  BY ArgsAssumption DEF ArgsAssumption
<1>17. /\ a \in [Array -> [Slot -> Elem \cup {NULL}]] /\ pos_end \in [Array -> 0..MAX_GARBAGE_ARG_LEN]
       /\ refs \in [Elem -> Int]
  BY <1>1 DEF ArgsTypeOK
<1>18. /\ k' = n /\ Old' = Old /\ Len(Old)' = L /\ LastGoodArg' = G /\ call'.pos = P
       /\ Len(call'.elems) = E /\ Behind' = B /\ Added' = A /\ temp' = s
       /\ \A x : Dest(x)' = Dest(x)
  <2>1. call' = call /\ before' = before /\ temp' = temp /\ k' = k
    BY <1>10 DEF callVars
  <2>2. Added' = Added /\ LastGoodArg' = LastGoodArg /\ Behind' = Behind
    BY <2>1 DEF Added, LastGoodArg, Behind
  <2> QED
    BY <1>2, <1>3, <1>4, <1>8, <1>11, <2>1, <2>2 DEF Old, Dest
<1>19. CASE /\ i >= Behind /\ i' = 0 /\ pc' = "fill" /\ UNCHANGED <<a, panicked>>
            /\ pos_end' = [pos_end EXCEPT ![k] = IF Added < 0 THEN @ + Added ELSE @]
  <2>1. i = B
    <3>1. i >= B
      BY <1>2, <1>3, <1>19
    <3> QED
      BY <1>6, <3>1
  <2>2. PICK N2 \in Nat : N2 = F + (D + B)
    OBVIOUS
  <2>3. N2 <= N /\ N2 <= MAX_GARBAGE_ARG_LEN /\ F <= N2
    <3>1. N = F + W /\ N \in Nat /\ F \in Nat /\ W \in Nat /\ N <= MAX_GARBAGE_ARG_LEN
      BY <1>12, <1>13, <1>14
    <3> QED
      BY <1>3, <1>15, <1>16, <2>2, <3>1
  <2>4. pos_end' = [pos_end EXCEPT ![n] = N2]
    <3>1. N2 = IF A < 0 THEN N + A ELSE N
      <4>1. N = F + W /\ N \in Nat /\ F \in Nat /\ W \in Nat
        BY <1>12, <1>13, <1>14
      <4> QED
        BY <1>3, <1>15, <2>2, <4>1
    <3> QED
      BY <1>2, <1>11, <1>13, <1>19, <3>1
  <2>5. ArgsTypeOK'
    <3>1. pos_end' \in [Array -> 0..MAX_GARBAGE_ARG_LEN] /\ \A m \in Array : pos_end'[m] = IF m = n THEN N2 ELSE pos_end[m]
      BY <1>16, <1>17, <2>3, <2>4
    <3>2. \A m \in Array : pos_first'[m] <= pos_end'[m]
      BY <1>1, <1>10, <1>12, <2>3, <3>1 DEF ArgsTypeOK
    <3> QED
      BY <1>1, <1>10, <1>19, <3>1, <3>2 DEF ArgsTypeOK, callVars
  <2>6. \A m \in Array : m # n => pos_end'[m] = pos_end[m]
    BY <2>4, <1>17
  <2>7. Inserting'
    BY <1>1, <1>10, <1>11, <1>19, <2>6, InsertingKept DEF callVars
  <2>8. pos_end'[n] = N2 /\ pos_first'[n] = F
    BY <1>10, <1>12, <1>17, <2>4
  <2>9. Edit'
    <3>1. k_num_args(k)' = L + A
      <4>1. k_num_args(k)' = N2 - F
        BY <1>18, <2>8 DEF k_num_args
      <4>2. N2 - F = L + A
        <5>1. /\ N2 = F + (D + B) /\ G + B = L /\ G + A = D
              /\ F \in Nat /\ D \in Nat /\ B \in Nat /\ G \in Nat /\ A \in Int
          BY <1>3, <1>12, <2>2
        <5> QED
          BY <5>1
      <4> QED
        BY <4>1, <4>2
    <3>2. \A x : Arg(k, x)' = Arg(k, x)
      BY <1>10, <1>19 DEF Arg, callVars
    <3>3. \A x \in 0..(B - 1) : Arg(k, Dest(x)) = Old[G + x + 1]
      <4> SUFFICES ASSUME NEW x \in 0..(B - 1) PROVE Arg(k, Dest(x)) = Old[G + x + 1]
        OBVIOUS
      <4>1. x \in 0..(i - 1) /\ x + 1 \in 1..B /\ G + (x + 1) = G + x + 1
        BY <1>2, <2>1
      <4> QED
        BY <1>7, <1>8, <1>9, <4>1
    <3>4. \A x \in 0..(B - 1) : Arg(k, Dest(x))' = Old[G + x + 1]
      BY <1>18, <3>2, <3>3
    <3>5. \A x \in 0..(P - 1) : Arg(k, x)' = Old[x + 1]
      BY <1>7, <3>2
    <3>6. \A x \in 0..(i' - 1) : Arg(k, call.pos + x)' = call'.elems[x + 1]
      BY <1>19
    <3>7. 0 <= E
      BY <1>2
    <3> QED
      BY <1>18, <1>19, <3>1, <3>4, <3>5, <3>6, <3>7 DEF Edit
  <2>10. Phase'
    BY <1>19, <2>7, <2>9 DEF Phase, Editing
  <2>11. PICK lo \in Nat : lo = F + D /\ lo + B = N2
    BY <2>2
  <2>12. ASSUME NEW v \in Elem, NEW m \in Array, NEW q \in Slot
         PROVE  /\ Names(m, q, v)' <=> Names(m, q, v) \/ InSlice(m, q, n, lo, s, v)
                /\ InSlice(m, q, n, lo, s, v) => ~ Names(m, q, v)
    <3>0. q \in Int
      BY <1>16 DEF Slot
    <3>1. CASE m # n
      BY <1>10, <1>11, <1>19, <2>6, <3>1 DEF Names, Used, InSlice, callVars
    <3>2. CASE m = n
      <4>1. Used(n, q) <=> F <= q /\ q < N /\ q - F < P
        BY <1>1, <1>2, <1>11, <1>12, <1>13, <1>16 DEF Used, Settled
      <4>2. Used(n, q)' <=> F <= q /\ q < N2 /\ (q - F < P + 0 \/ q - F >= P + E)
        BY <1>16, <1>18, <1>19, <2>8 DEF Used, Settled
      <4>3. PICK b \in BOOLEAN : b = (lo <= q /\ q < N2)
        OBVIOUS
      <4>4. InSlice(m, q, n, lo, s, v) <=> b /\ a[n][q] = v
        <5>1. ASSUME InSlice(m, q, n, lo, s, v) PROVE b /\ a[n][q] = v
          <6>1. PICK x \in 0..(B - 1) : q = lo + x /\ s[x + 1] = v
            BY <1>9, <5>1 DEF InSlice
          <6>2. b /\ q = F + (D + x) /\ x \in 0..(i - 1) /\ x \in Nat
            <7>1. x \in Nat /\ x < B /\ q = lo + x /\ lo \in Nat /\ lo = F + D /\ lo + B = N2
              BY <1>3, <2>11, <6>1
            <7>2. lo <= q /\ q < N2
              BY <1>3, <2>2, <7>1
            <7>3. q = F + (D + x)
              BY <1>3, <1>12, <7>1
            <7> QED
              BY <2>1, <4>3, <6>1, <7>1, <7>2, <7>3
          <6> QED
            BY <1>5, <1>7, <1>8, <1>11, <1>12, <6>1, <6>2 DEF Arg
        <5>2. ASSUME b, a[n][q] = v PROVE InSlice(m, q, n, lo, s, v)
          <6>1. PICK x \in 0..(B - 1) : q = lo + x /\ q = F + (D + x)
            <7>1. lo <= q /\ q < lo + B /\ lo = F + D /\ lo \in Nat
              BY <2>11, <4>3, <5>2
            <7>2. PICK x \in 0..(B - 1) : q = lo + x
              <8>1. q - lo \in 0..(B - 1) /\ q = lo + (q - lo)
                BY <1>3, <3>0, <7>1
              <8> QED
                BY <8>1
            <7>3. q = F + (D + x)
              BY <1>3, <1>12, <7>1, <7>2
            <7> QED
              BY <7>2, <7>3
          <6>2. x \in 0..(i - 1) /\ x \in Nat
            BY <2>1
          <6>3. s[x + 1] = v
            BY <1>5, <1>7, <1>8, <1>11, <1>12, <5>2, <6>1, <6>2 DEF Arg
          <6> QED
            BY <1>9, <3>2, <6>1, <6>3 DEF InSlice
        <5> QED
          BY <5>1, <5>2
      <4>5. Used(n, q)' <=> Used(n, q) \/ b
        <5>1. F + P <= N2 /\ lo = F + D /\ lo \in Nat
          BY <1>3, <1>12, <2>2, <2>11
        <5>2. PICK y \in Int : y = q - F /\ q = F + y
          BY <1>12, <3>0
        <5>3. (F <= q <=> 0 <= y) /\ (q < N2 <=> y < D + B) /\ (lo <= q <=> D <= y)
          <6>1. F \in Nat /\ D \in Nat /\ B \in Nat /\ y \in Int /\ q = F + y
            BY <1>3, <1>12, <5>2
          <6>2. F <= q <=> 0 <= y
            BY <6>1
          <6>3. q < N2 <=> y < D + B
            BY <2>2, <6>1
          <6>4. lo <= q <=> D <= y
            BY <5>1, <6>1
          <6> QED
            BY <6>2, <6>3, <6>4
        <5>4. (q < N <=> y < W) /\ W \in Nat
          <6>1. F \in Nat /\ W \in Nat /\ y \in Int /\ q = F + y /\ N = F + W
            BY <1>12, <1>14, <5>2
          <6> QED
            BY <6>1
        <5>5. (0 <= y /\ y < D + B /\ (y < P + 0 \/ y >= P + E))
                <=> (0 <= y /\ y < W /\ y < P) \/ (D <= y /\ y < D + B)
          BY <1>3, <1>15, <5>4
        <5> QED
          BY <4>1, <4>2, <4>3, <5>2, <5>3, <5>4, <5>5
      <4>6. b => ~ Used(n, q)
        <5>1. lo <= q => ~ q - F < P
          <6>1. /\ lo = F + D /\ P + E = D /\ q \in Int
                /\ F \in Nat /\ P \in Nat /\ E \in Nat /\ D \in Nat
            BY <1>3, <1>12, <2>11, <3>0
          <6> QED
            BY <6>1
        <5> QED
          BY <4>1, <4>3, <5>1
      <4> QED
        BY <1>19, <3>2, <4>4, <4>5, <4>6 DEF Names
    <3> QED
      BY <3>1, <3>2
  <2>13. lo + Len(s) <= MAX_GARBAGE_ARG_LEN
    BY <1>9, <2>3, <2>11
  <2>14. ASSUME NEW v \in Elem
         PROVE  /\ Cardinality(Naming(v)) \in Nat
                /\ Cardinality(Naming(v)') = Cardinality(Naming(v)) + Count(s, v)
    BY <2>12, <2>13, SliceCounted
  <2>15. Counted'
    <3> SUFFICES ASSUME NEW v \in Elem PROVE refs'[v] = Cardinality(Naming(v)') + InTemp(v)'
      BY DEF Counted
    <3>1. refs[v] = Cardinality(Naming(v)) + Count(s, v) /\ refs'[v] = refs[v]
      BY <1>1, <1>8, <1>10 DEF Counted, InTemp
    <3>2. InTemp(v)' = 0
      BY <1>19 DEF InTemp
    <3>3. Count(s, v) \in Nat
      BY CountNat
    <3> QED
      BY <2>14, <3>1, <3>2, <3>3
  <2> QED
    BY <2>5, <2>10, <2>15 DEF ArgsInv
<1>22. ~ (i < Behind /\ i >= Behind)
  BY <1>2, <1>3, <1>6
<1>20. CASE i < Behind
  <2>1. i \in 0..(B - 1) /\ i + 1 \in 1..B /\ i + 1 <= B
    BY <1>2, <1>3, <1>6, <1>20
  <2>2. PICK y \in Nat : y = D + i
    BY <1>6
  <2>3. y \in 0..(W - 1) /\ P <= y
    BY <1>3, <1>14, <1>15, <2>1, <2>2
  <2>4. PICK p \in Slot : p = F + y
    BY <1>1, <1>12, <1>14, <2>3, WindowSlots
  <2>5. Writable(k, Dest(i))
    BY <1>1, <1>5, <1>6, <1>11, <1>14, <2>2, <2>3, WindowSlots
  <2>6. a' = [a EXCEPT ![n][p] = s[i + 1]] /\ i' = i + 1 /\ pc' = pc /\ panicked' = panicked /\ pos_end' = pos_end
    <3>1. Dest(i) = y
      BY <1>5, <1>6, <2>2
    <3> QED
      BY <1>8, <1>11, <1>12, <1>20, <1>22, <2>4, <2>5, <3>1 DEF PutBack
  <2>7. /\ a' \in [Array -> [Slot -> Elem \cup {NULL}]]
        /\ \A m \in Array, q \in Slot : a'[m][q] = IF m = n /\ q = p THEN s[i + 1] ELSE a[m][q]
    BY <1>9, <1>17, <2>1, <2>6
  <2>8. ArgsTypeOK'
    <3>1. i + 1 \in Nat
      BY <1>6
    <3> QED
      BY <1>1, <1>10, <2>6, <2>7, <3>1 DEF ArgsTypeOK, callVars
  <2>9. Inserting'
    BY <1>1, <1>10, <1>11, <2>6, <2>7, InsertingKept DEF callVars
  <2>10. ASSUME NEW x \in 0..(W - 1)
         PROVE  Arg(k, x)' = IF x = y THEN s[i + 1] ELSE Arg(k, x)
    <3>1. F + x \in Slot
      BY <1>1, <1>12, <1>14, WindowSlots
    <3>2. F + x = p <=> x = y
      BY <2>2, <2>4
    <3> QED
      BY <1>10, <1>11, <1>12, <2>7, <3>1, <3>2 DEF Arg, callVars
  <2>11. \A x \in 0..(P - 1) : Arg(k, x)' = Old[x + 1]
    <3>1. \A x \in 0..(P - 1) : x \in 0..(W - 1) /\ x # y
      BY <1>2, <1>15, <2>3
    <3> QED
      BY <1>7, <2>10, <3>1
  <2>12. ASSUME NEW x \in 0..i PROVE Arg(k, Dest(x))' = s[x + 1]
    <3>1. D + x \in 0..(W - 1) /\ (D + x = y <=> x = i) /\ (x # i => x \in 0..(i - 1)) /\ x \in Nat
      BY <1>6, <1>15, <2>1, <2>2
    <3>2. Arg(k, D + x)' = s[x + 1]
      BY <1>5, <1>7, <1>8, <2>10, <3>1
    <3>3. Dest(x)' = D + x
      BY <1>5, <1>18, <3>1
    <3> QED
      BY <1>18, <3>2, <3>3
  <2>13. Edit'
    <3>1. Stretched'
      BY <1>7, <1>10, <1>18, <1>2, <2>6 DEF Stretched, k_num_args, callVars
    <3>2. 0..((i + 1) - 1) = 0..i
      BY <1>6
    <3> QED
      BY <1>1, <1>9, <1>18, <2>1, <2>6, <2>11, <2>12, <3>1, <3>2 DEF Edit
  <2>14. Phase'
    BY <1>1, <2>6, <2>9, <2>13 DEF Phase, Editing
  <2>15. ~ Used(n, p) /\ ~ Used(n, p)'
    <3>1. p - F = y /\ ~ y < P
      BY <1>2, <2>3, <2>4
    <3> QED
      BY <1>1, <1>2, <1>10, <1>11, <1>12, <2>6, <3>1 DEF Used, Settled, callVars
  <2>16. \A m \in Array, q \in Slot, v \in Elem : Names(m, q, v)' <=> Names(m, q, v)
    <3>1. \A m \in Array, q \in Slot, v \in Elem : m # n \/ q # p => (Names(m, q, v)' <=> Names(m, q, v))
      BY <1>1, <1>2, <1>10, <1>18, <2>6, <2>7 DEF Names, Used, Settled, callVars
    <3> QED
      BY <2>15, <3>1 DEF Names
  <2>17. Counted'
    BY <1>1, <1>10, <2>6, <2>16, StillCounted DEF InTemp, callVars
  <2> QED
    BY <2>8, <2>14, <2>17 DEF ArgsInv
<1>21. i >= Behind \/ i < Behind
  BY <1>2, <1>3, <1>6
<1> QED
  BY <1>19, <1>20, <1>21, <1>22 DEF PutBack

\* r is o, of length L = G + B, with e instead of what lies between P and G.
Splices(S, o, e, P, G, L, E, B, D, r) ==
  /\ o \in Seq(S) /\ e \in Seq(S) /\ L = Len(o) /\ E = Len(e)
  /\ P \in Nat /\ G \in Nat /\ L \in Nat /\ E \in Nat /\ B \in Nat /\ D \in Nat
  /\ P <= G /\ G + B = L /\ P + E = D
  /\ r = SubSeq(o, 1, P) \o e \o SubSeq(o, G + 1, L)

SplicedAs(S, o, e, P, G, E, B, D, r) ==
  /\ r \in Seq(S) /\ Len(r) = D + B
  /\ \A x \in 0..(P - 1) : r[x + 1] = o[x + 1]
  /\ \A x \in 0..(E - 1) : r[(P + x) + 1] = e[x + 1]
  /\ \A x \in 0..(B - 1) : r[(D + x) + 1] = o[(G + x) + 1]

\* What an insertion makes of a list, element by element.
LEMMA SplicedList ==
  ASSUME NEW S, NEW o, NEW e, NEW P, NEW G, NEW L, NEW E, NEW B, NEW D, NEW r,
         Splices(S, o, e, P, G, L, E, B, D, r)
  PROVE  SplicedAs(S, o, e, P, G, E, B, D, r)
<1> USE DEF Splices
<1>1. PICK u : u = SubSeq(o, 1, P)
  OBVIOUS
<1>2. PICK w : w = SubSeq(o, G + 1, L)
  OBVIOUS
<1>3. P <= L /\ G <= L /\ L - G = B /\ (L - (G + 1)) + 1 = B
  OBVIOUS
<1>4. u \in Seq(S) /\ Len(u) = P /\ \A j \in 1..P : u[j] = o[j]
  <2>1. \A j \in 1..P : o[j] \in S
    <3>1. \A j \in 1..P : j \in 1..Len(o)
      BY <1>3
    <3> QED
      BY <3>1
  <2>2. /\ SubSeq(o, 1, P) \in Seq(S) /\ Len(SubSeq(o, 1, P)) = IF 1 <= P THEN P - 1 + 1 ELSE 0
        /\ \A j \in 1..(P - 1 + 1) : SubSeq(o, 1, P)[j] = o[1 + j - 1]
    BY <2>1, SubSeqProperties
  <2>3. P - 1 + 1 = P /\ (IF 1 <= P THEN P - 1 + 1 ELSE 0) = P /\ \A j \in 1..P : 1 + j - 1 = j
    OBVIOUS
  <2> QED
    BY <1>1, <2>2, <2>3
<1>5. w \in Seq(S) /\ Len(w) = B /\ \A j \in 1..B : w[j] = o[G + j]
  <2>1. \A j \in (G + 1)..L : j \in 1..Len(o)
    BY <1>3
  <2>2. w \in Seq(S) /\ Len(w) = IF G + 1 <= L THEN (L - (G + 1)) + 1 ELSE 0
    BY <1>2, <2>1, SubSeqProperties
  <2>3. \A j \in 1..((L - (G + 1)) + 1) : w[j] = o[(G + 1) + j - 1]
    <3>1. PICK m \in Int : m = G + 1
      OBVIOUS
    <3>2. \A j \in m..L : o[j] \in S
      BY <2>1, <3>1
    <3>3. \A j \in 1..(L - m + 1) : SubSeq(o, m, L)[j] = o[m + j - 1]
      BY <3>2, SubSeqProperties
    <3> QED
      BY <1>2, <3>1, <3>3
  <2>4. G + 1 <= L \/ B = 0
    BY <1>3
  <2>5. \A j \in 1..B : (G + 1) + j - 1 = G + j
    OBVIOUS
  <2> QED
    BY <1>3, <2>2, <2>3, <2>4, <2>5
<1>6. PICK y : y = u \o e
  OBVIOUS
<1>7. y \in Seq(S) /\ Len(y) = D /\ \A j \in 1..D : y[j] = IF j <= P THEN u[j] ELSE e[j - P]
  <2>1. /\ y \in Seq(S) /\ Len(y) = Len(u) + Len(e)
        /\ \A j \in 1..(Len(u) + Len(e)) : y[j] = IF j <= Len(u) THEN u[j] ELSE e[j - Len(u)]
    <3>1. u \in Seq(S)
      BY <1>4
    <3>2. /\ u \o e \in Seq(S) /\ Len(u \o e) = Len(u) + Len(e)
          /\ \A j \in 1..(Len(u) + Len(e)) : (u \o e)[j] = IF j <= Len(u) THEN u[j] ELSE e[j - Len(u)]
      BY <3>1, ConcatProperties, Zenon
    <3> QED
      BY <1>6, <3>2, Zenon
  <2>2. Len(u) = P /\ Len(e) = E /\ Len(u) + Len(e) = D
    BY <1>4
  <2> QED
    BY <2>1, <2>2
<1>8. r \in Seq(S) /\ Len(r) = D + B /\ \A j \in 1..(D + B) : r[j] = IF j <= D THEN y[j] ELSE w[j - D]
  <2>1. r = y \o w
    BY <1>1, <1>2, <1>6
  <2>2. /\ r \in Seq(S) /\ Len(r) = Len(y) + Len(w)
        /\ \A j \in 1..(Len(y) + Len(w)) : r[j] = IF j <= Len(y) THEN y[j] ELSE w[j - Len(y)]
    <3>1. y \in Seq(S) /\ w \in Seq(S)
      BY <1>5, <1>7
    <3>2. /\ y \o w \in Seq(S) /\ Len(y \o w) = Len(y) + Len(w)
          /\ \A j \in 1..(Len(y) + Len(w)) : (y \o w)[j] = IF j <= Len(y) THEN y[j] ELSE w[j - Len(y)]
      BY <3>1, ConcatProperties, Zenon
    <3> QED
      BY <2>1, <3>2, Zenon
  <2>3. Len(y) = D /\ Len(w) = B
    BY <1>5, <1>7
  <2> QED
    BY <2>2, <2>3
<1>9. ASSUME NEW x \in 0..(P - 1) PROVE r[x + 1] = o[x + 1]
  <2>1. x + 1 \in 1..(D + B) /\ x + 1 <= D /\ x + 1 \in 1..D /\ x + 1 <= P /\ x + 1 \in 1..P
    OBVIOUS
  <2> QED
    BY <1>4, <1>7, <1>8, <2>1
<1>10. ASSUME NEW x \in 0..(E - 1) PROVE r[(P + x) + 1] = e[x + 1]
  <2>1. PICK j \in 1..(D + B) : j = (P + x) + 1 /\ j <= D /\ j \in 1..D /\ ~ j <= P /\ j - P = x + 1
    OBVIOUS
  <2> QED
    BY <1>7, <1>8, <2>1
<1>11. ASSUME NEW x \in 0..(B - 1) PROVE r[(D + x) + 1] = o[(G + x) + 1]
  <2>1. PICK j \in 1..(D + B) : j = (D + x) + 1 /\ ~ j <= D /\ j - D = x + 1
    OBVIOUS
  <2>2. x + 1 \in 1..B /\ G + (x + 1) = (G + x) + 1
    OBVIOUS
  <2>3. r[j] = w[x + 1]
    BY <1>8, <2>1
  <2> QED
    BY <1>5, <2>1, <2>2, <2>3
<1> QED
  BY <1>8, <1>9, <1>10, <1>11 DEF SplicedAs

\* Writing one new argument, or turning to the disposal of the copy.
LEMMA FillStep ==
  ASSUME ArgsInv, Fill
  PROVE  ArgsInv'
<1>1. pc = "fill" /\ panicked = "no" /\ ArgsTypeOK /\ Counted /\ Inserting
  BY PhaseIs DEF Fill, Running, ArgsInv
<1>2. PICK L, G, P, E, B, D \in Nat, A \in Int :
        /\ P <= G /\ G + B = L /\ P + E = D /\ G + A = D
        /\ L = Len(Old) /\ G = LastGoodArg /\ P = call.pos /\ E = Len(call.elems)
        /\ B = Behind /\ A = Added
  BY <1>1, InsertSums
<1>3. /\ L \in Nat /\ G \in Nat /\ P \in Nat /\ E \in Nat /\ B \in Nat /\ D \in Nat /\ A \in Int
      /\ P <= G /\ G + B = L /\ P + E = D /\ G + A = D
  BY <1>2
<1>4. \A x \in Nat : Dest(x) = D + x
  <2>1. \A x : Dest(x) = G + x + A
    BY <1>2 DEF Dest
  <2>2. \A x \in Nat : G + x + A = D + x
    BY <1>3
  <2> QED
    BY <2>1, <2>2
<1>5. i \in Nat /\ i <= E
  BY <1>1, <1>2, PhaseIs, EditIs DEF ArgsInv, ArgsTypeOK
<1>6. PICK e \in Seq(Elem) : e = call.elems /\ Len(e) = E
  BY <1>1, <1>2, InsertNumbers
<1>7. \A x \in 1..E : e[x] \in Elem
  BY <1>6
<1>8. UNCHANGED <<pos_first, pos_end, mine, theirs, callVars>>
  BY DEF Fill
<1>9. PICK n \in Array : n = k
  BY <1>1 DEF Inserting, OwnersSee
<1>10. PICK F \in Nat : F = pos_first[n]
  BY <1>1, WindowSlots
<1>11. PICK N \in Nat : N = pos_end[n]
  BY <1>1, WindowSlots
<1>12. k_num_args(n) = D + B /\ N = F + (D + B)
  <2>1. k_num_args(n) = L + A
    BY <1>1, <1>2, <1>9, PhaseIs, EditIs DEF ArgsInv
  <2>2. k_num_args(n) = D + B
    BY <1>3, <2>1
  <2> QED
    BY <1>1, <1>10, <1>11, <2>2, WindowSlots
<1>13. /\ \A x \in 0..(P - 1) : Arg(n, x) = Old[x + 1]
       /\ \A x \in 0..(i - 1) : Arg(n, P + x) = e[x + 1]
       /\ \A x \in 0..(B - 1) : Arg(n, Dest(x)) = Old[G + x + 1]
  BY <1>1, <1>2, <1>6, <1>9, PhaseIs, EditIs DEF ArgsInv
<1>14. \A x \in 0..(B - 1) : Arg(n, D + x) = Old[(G + x) + 1]
  <2>1. \A x \in 0..(B - 1) : Dest(x) = D + x
    BY <1>3, <1>4
  <2> QED
    BY <1>13, <2>1
<1>15. MAX_GARBAGE_ARG_LEN \in Nat /\ NULL \notin Elem /\ NULL \notin Array
  BY ArgsAssumption DEF ArgsAssumption
<1>16. a \in [Array -> [Slot -> Elem \cup {NULL}]] /\ refs \in [Elem -> Int]
  BY <1>1 DEF ArgsTypeOK
<1>17. CASE i >= Len(call.elems) /\ i' = 0 /\ pc' = "dispose" /\ UNCHANGED <<a, refs, panicked>>
  <2>1. i = E
    <3>1. i >= E
      BY <1>2, <1>17
    <3> QED
      BY <1>3, <1>5, <3>1
  <2>2. ArgsTypeOK'
    BY <1>1, <1>8, <1>17 DEF ArgsTypeOK, callVars
  <2>3. PICK o \in Seq(Elem) : o = Old /\ Len(o) = L
    BY <1>1, <1>2 DEF Inserting
  <2>4. PICK r : r = SubSeq(o, 1, P) \o e \o SubSeq(o, G + 1, L)
    OBVIOUS
  <2>5. /\ r \in Seq(Elem) /\ Len(r) = D + B
        /\ \A x \in 0..(P - 1) : r[x + 1] = o[x + 1]
        /\ \A x \in 0..(E - 1) : r[(P + x) + 1] = e[x + 1]
        /\ \A x \in 0..(B - 1) : r[(D + x) + 1] = o[(G + x) + 1]
    <3>1. L = Len(o) /\ E = Len(e) /\ o \in Seq(Elem) /\ e \in Seq(Elem)
      BY <1>6, <2>3
    <3>2. Splices(Elem, o, e, P, G, L, E, B, D, r)
      BY <1>3, <2>4, <3>1 DEF Splices
    <3>3. SplicedAs(Elem, o, e, P, G, E, B, D, r)
      BY <3>2, SplicedList
    <3> QED
      BY <3>3 DEF SplicedAs
  <2>6. ASSUME NEW x \in 0..((D + B) - 1) PROVE Arg(n, x) = r[x + 1]
    <3>1. CASE x < P
      <4>1. x \in 0..(P - 1)
        BY <1>3, <3>1
      <4> QED
        BY <1>13, <2>3, <2>5, <4>1
    <3>2. CASE P <= x /\ x < D
      <4>1. PICK y \in 0..(E - 1) : x = P + y
        <5>1. x - P \in 0..(E - 1) /\ x = P + (x - P)
          BY <1>3, <3>2
        <5> QED
          BY <5>1
      <4> QED
        BY <1>13, <2>1, <2>5, <4>1
    <3>3. CASE D <= x
      <4>1. PICK y \in 0..(B - 1) : x = D + y
        <5>1. x - D \in 0..(B - 1) /\ x = D + (x - D)
          BY <1>3, <3>3
        <5> QED
          BY <5>1
      <4> QED
        BY <1>14, <2>3, <2>5, <4>1
    <3> QED
      BY <1>3, <3>1, <3>2, <3>3
  <2>7. Reads(n, r)
    BY <1>12, <2>5, <2>6 DEF Reads
  <2>8. Window(n) = r /\ Full(n)
    BY <1>1, <2>7, Windowed
  <2>9. /\ doomed \in Array \ {mine, theirs, k} /\ Reads(doomed, o) /\ mine \in Array
        /\ OwnersSee /\ theirs \in Array \cup {NULL}
    BY <1>1, <2>3 DEF Inserting, ArgsTypeOK
  <2>10. PICK t : t = before.theirs
    OBVIOUS
  <2>11. theirs \notin {NULL, n} => Window(theirs) = t /\ Full(theirs)
    BY <1>1, <1>9, <2>9, <2>10, Windowed DEF OwnersSee
  <2>12. n # mine => Window(mine) = o /\ Full(mine) /\ n # theirs
    BY <1>1, <1>9, <2>3, <2>9, Windowed DEF OwnersSee
  <2>13. \A m \in {mine, theirs, n} \ {NULL} : Full(m)
    BY <2>8, <2>11, <2>12
  <2>14. Spliced(before, Final)
    <3>1. call.over \in Nat /\ G = P + call.over
      BY <1>1, <1>2, InsertNumbers
    <3>2. L <= MAX_GARBAGE_ARG_LEN
      <4>1. POS_FIRST + L <= MAX_GARBAGE_ARG_LEN /\ POS_FIRST \in Nat
        BY <1>1, <1>2, ArgsAssumption DEF Inserting, Fits, ArgsAssumption
      <4> QED
        BY <1>3, <1>15, <4>1
    <3>3. PICK v \in Nat : v = call.over /\ G = P + v
      BY <3>1
    <3>4. P \in 0..MAX_GARBAGE_ARG_LEN /\ v \in 0..MAX_GARBAGE_ARG_LEN /\ P + v <= L
      <4>1. v \in Nat /\ G = P + v
        BY <3>3
      <4>2. v <= L /\ P <= L /\ P + v <= L
        BY <1>3, <4>1
      <4> QED
        BY <1>3, <1>15, <3>2, <4>1, <4>2
    <3>5. e \in Lists(MaxElems)
      BY <1>1, <1>6 DEF Inserting
    <3>6. A = 0 <=> E = v
      <4>1. v \in Nat /\ G = P + v
        BY <3>3
      <4> QED
        BY <1>3, <4>1
    <3>7. before.mine = o /\ Len(o) = L
      BY <2>3 DEF Old
    <3>8. Final.mine = r /\ r = SubSeq(before.mine, 1, P) \o e \o SubSeq(before.mine, P + v + 1, L)
      BY <1>9, <2>4, <2>8, <3>3, <3>7 DEF Final
    <3>9. /\ before.owned = (theirs # NULL) /\ before.shared = (theirs = mine)
          /\ (theirs = NULL => t = <<>>)
      BY <2>9, <2>10 DEF OwnersSee, Shared
    <3>10. n = mine => A = 0 \/ theirs # mine
      BY <1>1, <1>2, <1>9 DEF Inserting, Shared
    <3>11. n # mine => A # 0
      BY <1>1, <1>2, <1>9 DEF Inserting
    <3>12. /\ Final.theirs = IF theirs = NULL THEN <<>> ELSE Window(theirs)
           /\ Final.owned = (theirs # NULL) /\ Final.shared = (theirs = n)
      BY <1>9 DEF Final
    <3>13. Final.shared = (before.shared /\ Len(e) = v)
      BY <1>6, <2>12, <3>6, <3>9, <3>10, <3>11, <3>12
    <3>14. Final.owned = before.owned
      BY <3>9, <3>12
    <3>15. Final.theirs = IF before.shared /\ Len(e) = v THEN Final.mine ELSE before.theirs
      <4>1. CASE theirs = NULL
        BY <1>15, <2>9, <2>10, <3>9, <3>12, <4>1
      <4>2. CASE theirs = n
        BY <1>9, <1>15, <2>8, <3>8, <3>12, <3>13, <4>2
      <4>3. CASE theirs \notin {NULL, n}
        BY <2>10, <2>11, <3>12, <3>13, <4>3
      <4> QED
        BY <4>1, <4>2, <4>3
    <3> QED
      BY <3>4, <3>5, <3>7, <3>8, <3>13, <3>14, <3>15 DEF Spliced
  <2>15. Disposing'
    <3>1. \A m : Full(m) => Full(m)'
      BY <1>8, <1>17 DEF Full, k_num_args, Arg
    <3>2. Final' = Final
      BY <1>8, <1>17 DEF Final, Window, k_num_args, Arg, callVars
    <3>3. Spliced(before, Final)'
      BY <1>8, <2>14, <3>2 DEF Spliced, callVars
    <3>4. k_num_args(doomed)' = L /\ \A x \in 0..(L - 1) : Arg(doomed, x)' = o[x + 1]
      BY <1>8, <1>17, <2>3, <2>9 DEF Reads, k_num_args, Arg, callVars
    <3>5. \A x \in 0..(L - 1) : o[x + 1] \in Elem /\ ~ x < 0
      <4>1. \A x \in 0..(L - 1) : x + 1 \in 1..L /\ ~ x < 0
        BY <1>3
      <4> QED
        BY <2>3, <4>1
    <3>6. k' = n /\ mine' = mine /\ theirs' = theirs /\ doomed' = doomed
      BY <1>8, <1>9 DEF callVars
    <3>7. 0 <= L
      BY <1>3
    <3> QED
      BY <1>9, <1>17, <2>9, <2>12, <2>13, <3>1, <3>3, <3>4, <3>5, <3>6, <3>7 DEF Disposing
  <2>16. Phase'
    BY <1>17, <2>15 DEF Phase
  <2>17. ASSUME NEW m \in Array, NEW q \in Slot PROVE Used(m, q)' <=> Used(m, q)
    <3>1. q \in Int
      BY <1>15 DEF Slot
    <3>2. q - F < P + i \/ q - F >= P + E
      BY <1>3, <1>10, <2>1, <3>1
    <3>3. m = n => Settled(q - F)
      BY <1>1, <1>2, <3>2 DEF Settled
    <3>4. Settled(q - F)'
      BY <1>17 DEF Settled
    <3> QED
      BY <1>8, <1>9, <1>10, <3>3, <3>4 DEF Used, callVars
  <2>18. Counted'
    BY <1>1, <1>17, <2>17, StillCounted DEF Names, InTemp
  <2> QED
    BY <2>2, <2>16, <2>18 DEF ArgsInv
<1>18. i < E \/ i >= E
  BY <1>3, <1>5
<1>19. ~ (i < E /\ i >= E)
  BY <1>3, <1>5
<1>20. CASE i < Len(call.elems)
  <2>1. i < E /\ i + 1 \in 1..E /\ i + 1 <= E /\ i + 1 \in Nat
    <3>1. i < E
      BY <1>2, <1>20
    <3> QED
      BY <1>3, <1>5, <3>1
  <2>2. PICK y \in Nat : y = P + i
    BY <1>5
  <2>3. y \in 0..((D + B) - 1) /\ P <= y /\ y < D
    BY <1>3, <1>5, <2>1, <2>2
  <2>4. PICK p \in Slot : p = F + y
    BY <1>1, <1>10, <1>12, <2>3, WindowSlots
  <2>5. Writable(k, P + i)
    BY <1>1, <1>9, <1>12, <2>2, <2>3, WindowSlots
  <2>6. PICK w \in Elem : w = e[i + 1]
    BY <1>7, <2>1
  <2>7. a' = [a EXCEPT ![n][p] = w] /\ refs' = [refs EXCEPT ![w] = @ + 1] /\ i' = i + 1 /\ pc' = pc /\ panicked' = panicked
    <3>1. pos_first[k] + call.pos + i = p /\ Writable(k, call.pos + i)
      <4>1. F + P + i = F + (P + i)
        BY <1>3, <1>5, <1>10
      <4> QED
        BY <1>2, <1>9, <1>10, <2>2, <2>4, <2>5, <4>1
    <3>2. ~ i >= Len(call.elems)
      BY <1>2, <1>19, <2>1
    <3> QED
      BY <1>6, <1>9, <1>20, <2>6, <3>1, <3>2 DEF Fill, Inc
  <2>8. /\ a' \in [Array -> [Slot -> Elem \cup {NULL}]]
        /\ \A m \in Array, q \in Slot : a'[m][q] = IF m = n /\ q = p THEN w ELSE a[m][q]
    BY <1>16, <2>7
  <2>9. refs' \in [Elem -> Int] /\ \A v \in Elem : refs'[v] = IF v = w THEN refs[v] + 1 ELSE refs[v]
    BY <1>16, <2>7
  <2>10. ArgsTypeOK'
    BY <1>1, <1>8, <2>1, <2>7, <2>8, <2>9 DEF ArgsTypeOK, callVars
  <2>11. Inserting'
    BY <1>1, <1>8, <1>9, <2>7, <2>8, InsertingKept DEF callVars
  <2>12. ASSUME NEW x \in 0..((D + B) - 1)
         PROVE  Arg(k, x)' = IF x = y THEN w ELSE Arg(n, x)
    <3>1. F + x \in Slot
      BY <1>1, <1>10, <1>12, WindowSlots
    <3>2. F + x = p <=> x = y
      BY <1>10, <2>2, <2>4
    <3> QED
      BY <1>8, <1>9, <1>10, <2>8, <3>1, <3>2 DEF Arg, callVars
  <2>13. \A x \in 0..(P - 1) : Arg(k, x)' = Old[x + 1]
    <3>1. \A x \in 0..(P - 1) : x \in 0..((D + B) - 1) /\ x # y
      BY <1>3, <2>3
    <3> QED
      BY <1>13, <2>12, <3>1
  <2>14. ASSUME NEW x \in 0..i PROVE Arg(k, P + x)' = e[x + 1]
    <3>1. P + x \in 0..((D + B) - 1) /\ (P + x = y <=> x = i) /\ (x # i => x \in 0..(i - 1))
      BY <1>3, <1>5, <2>1, <2>2
    <3> QED
      BY <1>13, <2>6, <2>12, <3>1
  <2>15. ASSUME NEW x \in 0..(B - 1) PROVE Arg(k, D + x)' = Old[G + x + 1]
    <3>1. D + x \in 0..((D + B) - 1) /\ D + x # y
      BY <1>3, <2>2, <2>3
    <3> QED
      BY <1>14, <2>12, <3>1
  <2>16. /\ k' = n /\ Old' = Old /\ LastGoodArg' = G /\ call' = call /\ Len(Old)' = L
         /\ Behind' = B /\ Added' = A /\ \A x : Dest(x)' = Dest(x)
    <3>1. call' = call /\ before' = before /\ k' = k
      BY <1>8 DEF callVars
    <3>2. Added' = Added /\ LastGoodArg' = LastGoodArg /\ Behind' = Behind
      BY <3>1 DEF Added, LastGoodArg, Behind
    <3> QED
      BY <1>2, <1>9, <3>1, <3>2 DEF Old, Dest
  <2>17. Edit'
    <3>1. k_num_args(k)' = Len(Old)' + Added'
      <4>1. k_num_args(k)' = k_num_args(k) /\ L + A = D + B
        BY <1>3, <1>8 DEF k_num_args, callVars
      <4> QED
        BY <1>9, <1>12, <2>16, <4>1
    <3>2. 0..((i + 1) - 1) = 0..i
      BY <1>5
    <3>3. \A x \in 0..(B - 1) : Arg(k, Dest(x))' = Old[G + x + 1]
      <4>1. \A x \in 0..(B - 1) : Dest(x)' = D + x
        BY <1>4, <2>16
      <4> QED
        BY <2>15, <4>1
    <3>4. \A x \in 0..((i + 1) - 1) : Arg(k, P + x)' = e[x + 1]
      BY <2>14, <3>2
    <3> QED
      BY <1>1, <1>2, <1>6, <2>1, <2>7, <2>13, <2>16, <3>1, <3>3, <3>4 DEF Edit
  <2>18. Phase'
    BY <1>1, <2>7, <2>11, <2>17 DEF Phase, Editing
  <2>19. p - F = y
    BY <1>10, <2>2, <2>4
  <2>20. ~ Used(n, p)
    <3>1. ~ (y < P + i \/ y >= P + E)
      BY <1>3, <2>2, <2>3
    <3> QED
      BY <1>1, <1>2, <1>9, <1>10, <2>19, <3>1 DEF Used, Settled
  <2>21. Used(n, p)'
    <3>1. y < P + (i + 1) /\ F <= p /\ p < N
      BY <1>3, <1>5, <1>10, <1>12, <2>2, <2>3, <2>4
    <3> QED
      BY <1>1, <1>2, <1>8, <1>9, <1>10, <1>11, <1>15, <2>7, <2>16, <2>19, <3>1 DEF Used, Settled, callVars
  <2>22. ASSUME NEW q \in Slot, q # p PROVE Used(n, q)' <=> Used(n, q)
    <3>1. q \in Int /\ q - F # y
      BY <1>10, <1>15, <2>2, <2>4, <2>22 DEF Slot
    <3>2. q - F < P + (i + 1) \/ q - F >= P + E <=> q - F < P + i \/ q - F >= P + E
      <4>1. PICK z \in Int : z = q - F
        BY <1>10, <3>1
      <4>2. z # P + i
        BY <2>2, <3>1, <4>1
      <4>3. z < P + (i + 1) <=> z < P + i
        BY <1>3, <1>5, <4>1, <4>2
      <4> QED
        BY <4>1, <4>3
    <3> QED
      BY <1>1, <1>2, <1>8, <1>9, <1>10, <2>7, <2>16, <3>2 DEF Used, Settled, callVars
  <2>23. \A m \in Array, q \in Slot, v \in Elem : m # n \/ q # p => (Names(m, q, v)' <=> Names(m, q, v))
    <3>1. \A m \in Array, q \in Slot : m # n => (Used(m, q)' <=> Used(m, q))
      BY <1>8, <1>9 DEF Used, callVars
    <3> QED
      BY <2>8, <2>22, <3>1 DEF Names
  <2>24. ASSUME NEW v \in Elem
         PROVE  /\ InTemp(v)' = InTemp(v) /\ InTemp(v) \in Nat
                /\ refs'[v] + (IF Names(n, p, v) THEN 1 ELSE 0)
                     = refs[v] + (IF Names(n, p, v)' THEN 1 ELSE 0)
    <3>1. ~ Names(n, p, v) /\ (Names(n, p, v)' <=> v = w)
      BY <2>8, <2>20, <2>21 DEF Names
    <3>2. InTemp(v)' = InTemp(v) /\ InTemp(v) \in Nat
      BY <1>1, <2>7 DEF InTemp
    <3>3. refs[v] \in Int
      BY <1>16
    <3> QED
      BY <2>9, <3>1, <3>2, <3>3
  <2>25. Counted'
    BY <1>1, <1>16, <2>9, <2>23, <2>24, OneSlotCounted
  <2> QED
    BY <2>10, <2>18, <2>25 DEF ArgsInv
<1> QED
  BY <1>2, <1>17, <1>18, <1>19, <1>20 DEF Fill

-----------------------------------------------------------------------------
(* Disposal, and the end of a call.                                        *)

\* The window of n, once each of its arguments is known.
LEMMA WindowIs ==
  ASSUME NEW n \in Array, NEW s \in Seq(Elem), k_num_args(n)' = Len(s),
         \A x \in 0..(Len(s) - 1) : Arg(n, x)' = s[x + 1]
  PROVE  Window(n)' = s
<1>1. PICK M \in Nat : M = Len(s)
  OBVIOUS
<1>2. ASSUME NEW x \in 1..M PROVE Arg(n, x - 1)' = s[x]
  <2>1. PICK y \in 0..(M - 1) : y = x - 1 /\ y + 1 = x
    <3>1. x - 1 \in 0..(M - 1) /\ (x - 1) + 1 = x
      BY <1>1
    <3> QED
      BY <3>1
  <2> QED
    BY <1>1, <2>1
<1>3. s = [x \in 1..M |-> s[x]]
  BY <1>1
<1> QED
  BY <1>1, <1>2, <1>3 DEF Window

\* What both owners see at the end is kept by a step that leaves their windows alone.
LEMMA FinalKept ==
  ASSUME NEW n \in Array, ArgsTypeOK, k = n, k' = n, theirs' = theirs,
         \A m \in {n, theirs} \ {NULL} :
           /\ Full(m) /\ pos_first'[m] = pos_first[m] /\ pos_end'[m] = pos_end[m]
           /\ \A q \in Slot : a'[m][q] = a[m][q]
  PROVE  Final' = Final /\ \A m \in {n, theirs} \ {NULL} : Full(m)'
<1>1. \A m \in {n, theirs} \ {NULL} : m \in Array
  BY DEF ArgsTypeOK
<1>2. \A m \in {n, theirs} \ {NULL} : Full(m)' /\ Window(m)' = Window(m)
  BY <1>1, FullKept
<1>3. n # NULL
  BY ArgsAssumption DEF ArgsAssumption
<1>4. PICK t : t = theirs
  OBVIOUS
<1>5. Window(k)' = Window(n)
  BY <1>2, <1>3 DEF Window, k_num_args, Arg
<1>6. t # NULL => Window(theirs)' = Window(t)
  BY <1>2, <1>4 DEF Window, k_num_args, Arg
<1> QED
  BY <1>2, <1>4, <1>5, <1>6 DEF Final

\* The call ends, or the caller gives up the node it had.
LEMMA Finished ==
  ASSUME NEW n \in Array, NEW f, ArgsTypeOK, Counted, pc \in {"dispose", "trim"}, k = n,
         n # mine => n # theirs,
         i' = 0, mine' = n, IF k # mine /\ ~ Shared THEN GiveUp ELSE Return,
         UNCHANGED <<a, refs, theirs, panicked>>, panicked = "no",
         pos_first' \in [Array -> 0..MAX_GARBAGE_ARG_LEN],
         pos_end' \in [Array -> 0..MAX_GARBAGE_ARG_LEN],
         \A m \in Array : pos_first'[m] <= pos_end'[m],
         \A m \in {mine, theirs, n} \ {NULL} : Full(m)',
         f = [mine |-> Window(n)', theirs |-> IF theirs = NULL THEN <<>> ELSE Window(theirs)',
              owned |-> theirs # NULL, shared |-> theirs = n],
         Spliced(before, f) \/ Kept(before, f) \/ before = f,
         \A m \in Array, q \in Slot, v \in Elem :
           Names(m, q, v) <=> /\ m \in {mine, theirs, n}
                              /\ pos_first'[m] <= q /\ q < pos_end'[m] /\ a[m][q] = v
  PROVE  ArgsInv'
<1>1. NULL \notin Array
  BY ArgsAssumption DEF ArgsAssumption
<1>2. mine \in Array /\ theirs \in Array \cup {NULL}
  BY DEF ArgsTypeOK
<1>3. PICK o \in Array : o = mine
  BY <1>2
<1>4. PICK t \in Array \cup {NULL} : t = theirs
  BY <1>2
<1>5. CASE k # mine /\ ~ Shared
  <2>1. /\ doomed' = o /\ pc' = "dispose" /\ k' = n /\ temp' = temp /\ before' = before
        /\ o # n /\ o # t /\ mine' = n /\ theirs' = t /\ n # t
    BY <1>3, <1>4, <1>5 DEF GiveUp, Shared
  <2>2. ArgsTypeOK'
    BY <1>1, <1>3, <1>4, <2>1, SMTT(20) DEF ArgsTypeOK
  <2>3. Final' = f
    BY <1>4, <2>1 DEF Final, Window, k_num_args, Arg
  <2>4. (Spliced(before, Final) \/ Kept(before, Final) \/ before = Final)'
    BY <2>1, <2>3 DEF Spliced, Kept
  <2>5. \A x \in 0..(k_num_args(doomed)' - 1) : Arg(doomed, x)' \in Elem /\ ~ x < 0
    <3>1. Full(o)'
      BY <1>1, <1>3
    <3>2. \A x \in 0..(k_num_args(doomed)' - 1) : Arg(doomed, x)' \in Elem
      BY <2>1, <3>1 DEF Full, k_num_args, Arg
    <3>3. k_num_args(doomed)' \in Int
      <4>1. pos_first'[o] \in Nat /\ pos_end'[o] \in Nat
        OBVIOUS
      <4> QED
        BY <2>1, <4>1 DEF k_num_args
    <3>4. \A x \in 0..(k_num_args(doomed)' - 1) : ~ x < 0
      BY <3>3
    <3> QED
      BY <3>2, <3>4
  <2>6. 0 <= k_num_args(doomed)'
    <3>1. pos_first'[o] \in Nat /\ pos_end'[o] \in Nat /\ pos_first'[o] <= pos_end'[o]
      OBVIOUS
    <3> QED
      BY <2>1, <3>1 DEF k_num_args
  <2>7. \A m \in ({mine, theirs, k} \ {NULL})' : Full(m)'
    BY <1>4, <2>1
  <2>8. Disposing'
    BY <2>1, <2>4, <2>5, <2>6, <2>7 DEF Disposing
  <2>9. \A m \in Array, q \in Slot, v \in Elem : Names(m, q, v)' <=> Names(m, q, v)
    BY <1>1, <1>3, <1>4, <2>1 DEF Names, Used, Settled
  <2>10. Counted'
    BY <2>1, <2>9, StillCounted DEF InTemp
  <2> QED
    BY <2>1, <2>2, <2>8, <2>10 DEF ArgsInv, Phase
<1>6. CASE ~ (k # mine /\ ~ Shared)
  <2>1. /\ doomed' = NULL /\ pc' = "idle" /\ k' = NULL /\ temp' = <<>>
        /\ (o = n \/ o = t) /\ mine' = n /\ theirs' = t
    BY <1>3, <1>4, <1>6 DEF Return, Shared
  <2>2. ArgsTypeOK'
    BY <1>1, <2>1 DEF ArgsTypeOK
  <2>3. \A m \in ({mine, theirs} \ {NULL})' : Full(m)'
    BY <1>4, <2>1
  <2>4. \A m \in Array, q \in Slot, v \in Elem : Names(m, q, v)' <=> Names(m, q, v)
    BY <1>1, <1>3, <1>4, <2>1 DEF Names, Used, Settled
  <2>5. Counted'
    BY <2>1, <2>4, StillCounted DEF InTemp
  <2> QED
    BY <2>1, <2>2, <2>3, <2>5 DEF ArgsInv, Phase
<1> QED
  BY <1>5, <1>6

\* Disposing of one argument, or the end of it.
LEMMA DisposeStep ==
  ASSUME ArgsInv, Dispose
  PROVE  ArgsInv'
<1>1. pc = "dispose" /\ panicked = "no" /\ ArgsTypeOK /\ Counted /\ Disposing
  BY PhaseIs DEF Dispose, Running, ArgsInv
<1>2. PICK n \in Array : n = doomed
  BY <1>1 DEF Disposing
<1>3. PICK K \in Array : K = k
  BY <1>1 DEF Disposing
<1>4. n # mine /\ n # theirs /\ n # K /\ i \in Nat /\ (K # mine => K # theirs)
  BY <1>1, <1>2, <1>3 DEF Disposing, ArgsTypeOK
<1>5. PICK F \in Nat : F = pos_first[n]
  BY <1>1, WindowSlots
<1>6. PICK W \in Nat : W = k_num_args(n)
  BY <1>1, WindowSlots
<1>7. i <= W /\ \A x \in 0..(W - 1) : IF x < i THEN Arg(n, x) = NULL ELSE Arg(n, x) \in Elem
  BY <1>1, <1>2, <1>6 DEF Disposing
<1>8. pos_end[n] = F + W
  BY <1>1, <1>5, <1>6, WindowSlots
<1>9. /\ \A m \in {mine, theirs, K} \ {NULL} : Full(m)
      /\ Spliced(before, Final) \/ Kept(before, Final) \/ before = Final
  BY <1>1, <1>3 DEF Disposing
<1>10. MAX_GARBAGE_ARG_LEN \in Nat /\ NULL \notin Elem /\ NULL \notin Array
  BY ArgsAssumption DEF ArgsAssumption
<1>11. /\ a \in [Array -> [Slot -> Elem \cup {NULL}]] /\ refs \in [Elem -> Int]
       /\ mine \in Array /\ theirs \in Array \cup {NULL}
  BY <1>1 DEF ArgsTypeOK
<1>12. CASE i < k_num_args(doomed)
  <2>1. i \in 0..(W - 1) /\ i + 1 \in Nat /\ i + 1 <= W
    <3>1. i < W
      BY <1>2, <1>6, <1>12
    <3> QED
      BY <1>4, <3>1
  <2>2. ~ i >= k_num_args(doomed)
    BY <1>2, <1>6, <2>1
  <2>3. PICK p \in Slot : p = F + i
    BY <1>1, <1>5, <1>6, <2>1, WindowSlots
  <2>4. F <= p /\ p < F + W
    BY <1>4, <2>1, <2>3
  <2>5. Used(n, p)
    BY <1>2, <1>3, <1>4, <1>5, <1>8, <1>10, <2>4 DEF Used
  <2>6. PICK w \in Elem : w = Arg(n, i)
    <3>1. ~ i < i
      BY <1>4
    <3> QED
      BY <1>7, <2>1, <3>1
  <2>7. Readable(n, i) /\ a[n][p] = w
    <3>1. Used(n, pos_first[n] + i) /\ i \in 0..(k_num_args(n) - 1)
      BY <1>5, <1>6, <2>1, <2>3, <2>5
    <3> QED
      BY <1>1, <1>5, <2>3, <2>6, <3>1, CountedReadable DEF Arg
  <2>8. /\ a' = [a EXCEPT ![n][p] = NULL] /\ refs' = [refs EXCEPT ![w] = @ - 1] /\ i' = i + 1
        /\ UNCHANGED <<pos_first, pos_end, mine, theirs, callVars, pc, panicked>>
    BY <1>2, <1>5, <2>2, <2>3, <2>6, <2>7 DEF Dispose, Dec
  <2>9. /\ a' \in [Array -> [Slot -> Elem \cup {NULL}]]
        /\ \A m \in Array, q \in Slot : a'[m][q] = IF m = n /\ q = p THEN NULL ELSE a[m][q]
    BY <1>11, <2>8
  <2>10. refs' \in [Elem -> Int] /\ \A v \in Elem : refs'[v] = IF v = w THEN refs[v] - 1 ELSE refs[v]
    BY <1>11, <2>8
  <2>11. ArgsTypeOK'
    BY <1>1, <2>1, <2>8, <2>9, <2>10 DEF ArgsTypeOK, callVars
  <2>12. \A m \in {mine, theirs, K} \ {NULL} : /\ m \in Array /\ m # n
    BY <1>4, <1>11
  <2>13. Final' = Final
    BY <1>1, <1>3, <1>9, <2>8, <2>9, <2>12, FinalKept DEF callVars
  <2>14. \A m \in ({mine, theirs, k} \ {NULL})' : Full(m)'
    <3>1. \A m \in {mine, theirs, K} \ {NULL} : Full(m)'
      BY <1>1, <1>9, <2>8, <2>9, <2>12, FullKept
    <3> QED
      BY <1>3, <2>8, <3>1 DEF callVars
  <2>15. (Spliced(before, Final) \/ Kept(before, Final) \/ before = Final)'
    BY <1>9, <2>8, <2>13 DEF Spliced, Kept, callVars
  <2>16. ASSUME NEW x \in 0..(W - 1)
         PROVE  IF x < i + 1 THEN Arg(doomed, x)' = NULL ELSE Arg(doomed, x)' \in Elem
    <3>1. F + x \in Slot
      BY <1>1, <1>5, <1>6, WindowSlots
    <3>2. (F + x = p <=> x = i) /\ (x < i + 1 <=> x < i \/ x = i)
      BY <1>4, <1>5, <2>3
    <3>3. Arg(doomed, x)' = IF x = i THEN NULL ELSE Arg(n, x)
      BY <1>2, <1>5, <2>8, <2>9, <3>1, <3>2 DEF Arg, callVars
    <3> QED
      BY <1>7, <3>2, <3>3
  <2>17. k_num_args(doomed)' = W
    BY <1>2, <1>6, <2>8 DEF k_num_args, callVars
  <2>18. Disposing'
    BY <1>1, <2>1, <2>8, <2>14, <2>15, <2>16, <2>17 DEF Disposing, callVars
  <2>19. \A m \in Array, q \in Slot, v \in Elem : m # n \/ q # p => (Names(m, q, v)' <=> Names(m, q, v))
    BY <1>1, <2>8, <2>9 DEF Names, Used, Settled, callVars
  <2>20. ASSUME NEW v \in Elem
         PROVE  /\ InTemp(v)' = InTemp(v) /\ InTemp(v) \in Nat
                /\ refs'[v] + (IF Names(n, p, v) THEN 1 ELSE 0)
                     = refs[v] + (IF Names(n, p, v)' THEN 1 ELSE 0)
    <3>1. (Names(n, p, v) <=> v = w) /\ ~ Names(n, p, v)'
      BY <1>10, <2>5, <2>7, <2>9 DEF Names
    <3>2. InTemp(v)' = InTemp(v) /\ InTemp(v) \in Nat
      BY <1>1, <2>8 DEF InTemp
    <3>3. refs[v] \in Int
      BY <1>11
    <3> QED
      BY <2>10, <3>1, <3>2, <3>3
  <2>21. Counted'
    BY <1>1, <1>11, <2>10, <2>19, <2>20, OneSlotCounted
  <2> QED
    BY <1>1, <2>8, <2>11, <2>18, <2>21 DEF ArgsInv, Phase
<1>13. CASE i >= k_num_args(doomed)
  <2>1. i = W /\ ~ i < k_num_args(doomed)
    <3>1. i >= W
      BY <1>2, <1>6, <1>13
    <3> QED
      BY <1>2, <1>4, <1>6, <1>7, <3>1
  <2>2. /\ i' = 0 /\ mine' = K /\ UNCHANGED <<heapVars, theirs, panicked>>
        /\ IF k # mine /\ ~ Shared THEN GiveUp ELSE Return
    BY <1>3, <2>1 DEF Dispose
  <2>3. PICK f : f = Final
    OBVIOUS
  <2>4. f = [mine |-> Window(K)', theirs |-> IF theirs = NULL THEN <<>> ELSE Window(theirs)',
             owned |-> theirs # NULL, shared |-> theirs = K]
    BY <1>3, <2>2, <2>3 DEF Final, Window, k_num_args, Arg, heapVars
  <2>5. \A m \in {mine, theirs, K} \ {NULL} : Full(m)'
    BY <1>9, <2>2 DEF Full, k_num_args, Arg, heapVars
  <2>6. ASSUME NEW m \in Array, NEW q \in Slot, NEW v \in Elem
        PROVE  Names(m, q, v) <=> /\ m \in {mine, theirs, K}
                                  /\ pos_first'[m] <= q /\ q < pos_end'[m] /\ a[m][q] = v
    <3>1. CASE m = n
      <4>1. ASSUME F <= q, q < F + W PROVE a[n][q] = NULL
        <5>1. PICK x \in 0..(W - 1) : q = F + x
          <6>1. q \in Int
            BY <1>10 DEF Slot
          <6>2. q - F \in 0..(W - 1) /\ q = F + (q - F)
            BY <4>1, <6>1
          <6> QED
            BY <6>2
        <5> QED
          BY <1>5, <1>7, <2>1, <5>1 DEF Arg
      <4> QED
        BY <1>4, <1>5, <1>8, <1>10, <3>1, <4>1 DEF Names, Used
    <3>2. CASE m # n
      BY <1>1, <1>2, <1>3, <1>10, <2>2, <3>2 DEF Names, Used, Settled, heapVars
    <3> QED
      BY <3>1, <3>2
  <2>7. /\ pos_first' \in [Array -> 0..MAX_GARBAGE_ARG_LEN] /\ pos_end' \in [Array -> 0..MAX_GARBAGE_ARG_LEN]
        /\ \A m \in Array : pos_first'[m] <= pos_end'[m]
    BY <1>1, <2>2 DEF ArgsTypeOK, heapVars
  <2> QED
    BY <1>1, <1>3, <1>4, <1>9, <2>2, <2>3, <2>4, <2>5, <2>6, <2>7, Finished DEF heapVars
<1>14. i < k_num_args(doomed) \/ i >= k_num_args(doomed)
  BY <1>2, <1>4, <1>6
<1> QED
  BY <1>12, <1>13, <1>14

-----------------------------------------------------------------------------
(* Trimming.                                                               *)

\* Dropping one argument, or the end of it.
LEMMA TrimStepStep ==
  ASSUME ArgsInv, TrimStep
  PROVE  ArgsInv' /\ (pc' = "idle" => Kept(before, Seen'))
<1>1. pc = "trim" /\ panicked = "no" /\ ArgsTypeOK /\ Counted /\ Trimming
  BY PhaseIs DEF TrimStep, Running, ArgsInv
<1>2. PICK o \in Seq(Elem) : o = Old
  BY <1>1 DEF Trimming
<1>3. PICK L \in Nat : L = Len(o)
  BY <1>2
<1>4. PICK P \in Nat : P = call.left
  BY <1>1 DEF Trimming
<1>5. PICK Q \in Nat : Q = call.right
  BY <1>1 DEF Trimming
<1>6. P <= Q /\ Q <= L /\ i \in Nat /\ i <= L /\ (i < P \/ i >= Q)
  BY <1>1, <1>2, <1>3, <1>4, <1>5 DEF Trimming, ArgsTypeOK
<1>7. PICK n \in Array : n = k
  BY <1>1 DEF Trimming, OwnersSee
<1>8. PICK F \in Nat : F = pos_first[n]
  BY <1>1, WindowSlots
<1>9. k_num_args(n) = L
  BY <1>1, <1>2, <1>3, <1>7 DEF Trimming
<1>10. pos_end[n] = F + L /\ pos_end[n] \in Nat /\ pos_end[n] <= MAX_GARBAGE_ARG_LEN
  BY <1>1, <1>8, <1>9, WindowSlots
<1>11. \A x \in 0..(L - 1) : Arg(n, x) = IF x < i /\ (x < P \/ x >= Q) THEN NULL ELSE o[x + 1]
  BY <1>1, <1>2, <1>3, <1>4, <1>5, <1>7 DEF Trimming
<1>12. \A x \in 1..L : o[x] \in Elem
  BY <1>2, <1>3
<1>13. MAX_GARBAGE_ARG_LEN \in Nat /\ NULL \notin Elem /\ NULL \notin Array
  BY ArgsAssumption DEF ArgsAssumption
<1>14. /\ a \in [Array -> [Slot -> Elem \cup {NULL}]] /\ refs \in [Elem -> Int]
       /\ mine \in Array /\ theirs \in Array \cup {NULL} /\ pos_first \in [Array -> 0..MAX_GARBAGE_ARG_LEN]
       /\ pos_end \in [Array -> 0..MAX_GARBAGE_ARG_LEN] /\ \A m \in Array : pos_first[m] <= pos_end[m]
  BY <1>1 DEF ArgsTypeOK
<1>15. /\ doomed = NULL /\ OwnersSee /\ (n = mine => theirs # mine)
  BY <1>1, <1>7 DEF Trimming, Shared
<1>16. PICK t : t = before.theirs
  OBVIOUS
<1>17. /\ n # mine => n # theirs /\ Reads(mine, o)
       /\ theirs \notin {NULL, n} => Reads(theirs, t)
  BY <1>2, <1>7, <1>15, <1>16 DEF OwnersSee
<1>18. CASE i < k_num_args(k)
  <2>1. i \in 0..(L - 1) /\ i + 1 \in 1..L
    <3>1. i < L
      BY <1>7, <1>9, <1>18
    <3> QED
      BY <1>3, <1>6, <3>1
  <2>2. PICK p \in Slot : p = F + i
    BY <1>1, <1>8, <1>9, <2>1, WindowSlots
  <2>3. F <= p /\ p < F + L
    BY <1>3, <1>6, <2>1, <2>2
  <2>4. Used(n, p)
    BY <1>1, <1>7, <1>8, <1>10, <1>13, <2>3 DEF Used, Settled
  <2>5. PICK w \in Elem : w = Arg(n, i) /\ w = o[i + 1]
    <3>1. ~ i < i
      BY <1>6
    <3> QED
      BY <1>11, <1>12, <2>1, <3>1
  <2>6. Readable(n, i) /\ a[n][p] = w
    <3>1. Used(n, pos_first[n] + i) /\ i \in 0..(k_num_args(n) - 1)
      BY <1>8, <1>9, <2>1, <2>2, <2>4
    <3> QED
      BY <1>1, <1>8, <2>2, <2>5, <3>1, CountedReadable DEF Arg
  <2>7. ~ i >= L
    BY <1>3, <2>1
  <2>8. PICK j \in Nat : j = IF i + 1 = P THEN Q ELSE i + 1
    BY <2>1
  <2>9. /\ a' = [a EXCEPT ![n][p] = NULL] /\ refs' = [refs EXCEPT ![w] = @ - 1] /\ i' = j
        /\ UNCHANGED <<pos_first, pos_end, mine, theirs, callVars, pc, panicked>>
    BY <1>4, <1>5, <1>7, <1>8, <1>9, <2>2, <2>5, <2>6, <2>7, <2>8 DEF TrimStep, Dec
  <2>10. j <= L /\ (j < P \/ j >= Q)
    BY <1>3, <1>4, <1>5, <1>6, <2>1, <2>8
  <2>11. /\ a' \in [Array -> [Slot -> Elem \cup {NULL}]]
         /\ \A m \in Array, q \in Slot : a'[m][q] = IF m = n /\ q = p THEN NULL ELSE a[m][q]
    BY <1>14, <2>9
  <2>12. refs' \in [Elem -> Int] /\ \A v \in Elem : refs'[v] = IF v = w THEN refs[v] - 1 ELSE refs[v]
    BY <1>14, <2>9
  <2>13. ArgsTypeOK'
    BY <1>1, <2>8, <2>9, <2>11, <2>12 DEF ArgsTypeOK, callVars
  <2>14. ASSUME NEW x \in 0..(L - 1)
         PROVE  Arg(k, x)' = IF x < j /\ (x < P \/ x >= Q) THEN NULL ELSE o[x + 1]
    <3>1. F + x \in Slot
      BY <1>1, <1>8, <1>9, WindowSlots
    <3>2. F + x = p <=> x = i
      BY <1>6, <1>8, <2>2
    <3>3. Arg(k, x)' = IF x = i THEN NULL ELSE Arg(n, x)
      BY <1>7, <1>8, <2>9, <2>11, <3>1, <3>2 DEF Arg, callVars
    <3>4. x < j /\ (x < P \/ x >= Q) <=> (x < i /\ (x < P \/ x >= Q)) \/ x = i
      BY <1>4, <1>5, <1>6, <2>8
    <3> QED
      BY <1>11, <3>3, <3>4
  <2>15. OwnersSee'
    <3>1. n # mine => Reads(mine, o)'
      <4>1. n # mine => mine \in Array /\ \A q \in Slot : a'[mine][q] = a[mine][q]
        BY <1>14, <2>11
      <4>2. PICK m : m = mine
        OBVIOUS
      <4>3. ASSUME n # m PROVE Reads(m, o)'
        <5>1. m \in Array /\ Reads(m, o) /\ \A q \in Slot : a'[m][q] = a[m][q]
          BY <1>17, <4>1, <4>2, <4>3
        <5> QED
          BY <1>1, <2>9, <5>1, ReadsKept
      <4> QED
        BY <2>9, <4>2, <4>3 DEF Reads, k_num_args, Arg
    <3>2. theirs \notin {NULL, n} => Reads(theirs, t)'
      <4>1. theirs \notin {NULL, n} => theirs \in Array /\ \A q \in Slot : a'[theirs][q] = a[theirs][q]
        BY <1>14, <2>11
      <4>2. PICK m : m = theirs
        OBVIOUS
      <4>3. ASSUME m \notin {NULL, n} PROVE Reads(m, t)'
        <5>1. m \in Array /\ Reads(m, t) /\ \A q \in Slot : a'[m][q] = a[m][q]
          BY <1>17, <4>1, <4>2, <4>3
        <5> QED
          BY <1>1, <2>9, <5>1, ReadsKept
      <4> QED
        BY <2>9, <4>2, <4>3 DEF Reads, k_num_args, Arg
    <3>3. before' = before /\ mine' = mine /\ theirs' = theirs /\ k' = n /\ before'.theirs = t
      BY <1>7, <1>16, <2>9 DEF callVars
    <3> QED
      BY <1>2, <1>7, <1>15, <1>16, <1>17, <3>1, <3>2, <3>3 DEF OwnersSee, Shared, Old, Reads, k_num_args, Arg
  <2>16. Trimming'
    <3>1. k_num_args(k)' = L
      BY <1>7, <1>9, <2>9 DEF k_num_args, callVars
    <3>2. Old' = o /\ call' = call /\ doomed' = NULL /\ k' = n /\ Shared' = Shared /\ mine' = mine
      BY <1>2, <1>7, <1>15, <2>9 DEF Old, callVars, Shared
    <3> QED
      BY <1>1, <1>2, <1>3, <1>4, <1>5, <1>7, <2>9, <2>10, <2>14, <2>15, <3>1, <3>2 DEF Trimming
  <2>17. \A m \in Array, q \in Slot, v \in Elem : m # n \/ q # p => (Names(m, q, v)' <=> Names(m, q, v))
    BY <1>1, <2>9, <2>11 DEF Names, Used, Settled, callVars
  <2>18. ASSUME NEW v \in Elem
         PROVE  /\ InTemp(v)' = InTemp(v) /\ InTemp(v) \in Nat
                /\ refs'[v] + (IF Names(n, p, v) THEN 1 ELSE 0)
                     = refs[v] + (IF Names(n, p, v)' THEN 1 ELSE 0)
    <3>1. (Names(n, p, v) <=> v = w) /\ ~ Names(n, p, v)'
      BY <1>13, <2>4, <2>6, <2>11 DEF Names
    <3>2. InTemp(v)' = InTemp(v) /\ InTemp(v) \in Nat
      BY <1>1, <2>9 DEF InTemp
    <3>3. refs[v] \in Int
      BY <1>14
    <3> QED
      BY <2>12, <3>1, <3>2, <3>3
  <2>19. Counted'
    BY <1>1, <1>14, <2>12, <2>17, <2>18, OneSlotCounted
  <2>20. ArgsInv'
    BY <1>1, <2>9, <2>13, <2>16, <2>19 DEF ArgsInv, Phase
  <2> QED
    BY <1>1, <2>9, <2>20
<1>19. CASE i >= k_num_args(k)
  <2>1. i = L /\ ~ i < k_num_args(k)
    <3>1. i >= L
      BY <1>7, <1>9, <1>19
    <3>2. i = L /\ ~ i < L
      BY <1>3, <1>6, <3>1
    <3> QED
      BY <1>7, <1>9, <3>2
  <2>2. /\ i' = 0 /\ mine' = n /\ UNCHANGED <<a, refs, theirs, panicked>>
        /\ IF k # mine /\ ~ Shared THEN GiveUp ELSE Return
        /\ pos_first' = [pos_first EXCEPT ![n] = F + P]
        /\ pos_end'   = [pos_end EXCEPT ![n] = F + Q]
    BY <1>4, <1>5, <1>7, <1>8, <2>1 DEF TrimStep
  <2>3. F + P \in 0..MAX_GARBAGE_ARG_LEN /\ F + Q \in 0..MAX_GARBAGE_ARG_LEN /\ F + P <= F + Q
    <3>1. F \in Nat /\ P \in Nat /\ Q \in Nat /\ L \in Nat /\ F + L <= MAX_GARBAGE_ARG_LEN
      BY <1>3, <1>4, <1>5, <1>8, <1>10
    <3> QED
      BY <1>6, <1>13, <3>1
  <2>4. /\ pos_first' \in [Array -> 0..MAX_GARBAGE_ARG_LEN] /\ pos_end' \in [Array -> 0..MAX_GARBAGE_ARG_LEN]
        /\ \A m \in Array : m # n => pos_first'[m] = pos_first[m] /\ pos_end'[m] = pos_end[m]
        /\ pos_first'[n] = F + P /\ pos_end'[n] = F + Q
    BY <1>14, <2>2, <2>3
  <2>5. \A m \in Array : pos_first'[m] <= pos_end'[m]
    BY <1>14, <2>3, <2>4
  <2>6. PICK M \in Nat : M = Q - P /\ P + M = Q
    BY <1>4, <1>5, <1>6
  <2>7. k_num_args(n)' = M
    <3>1. (F + Q) - (F + P) = M
      BY <1>4, <1>5, <1>8, <2>6
    <3> QED
      BY <2>4, <3>1 DEF k_num_args
  <2>8. PICK s : s = SubSeq(o, P + 1, Q)
    OBVIOUS
  <2>9. s \in Seq(Elem) /\ Len(s) = M /\ \A j \in 1..M : s[j] = o[P + j]
    <3>1. PICK c \in Int : c = P + 1
      BY <1>4
    <3>2. \A j \in c..Q : o[j] \in Elem
      <4>1. \A j \in c..Q : j \in 1..L
        BY <1>3, <1>4, <1>5, <1>6, <3>1
      <4> QED
        BY <1>12, <4>1
    <3>3. /\ SubSeq(o, c, Q) \in Seq(Elem) /\ Len(SubSeq(o, c, Q)) = IF c <= Q THEN Q - c + 1 ELSE 0
          /\ \A j \in 1..(Q - c + 1) : SubSeq(o, c, Q)[j] = o[c + j - 1]
      BY <1>5, <3>2, SubSeqProperties
    <3>4. Q - c + 1 = M /\ (IF c <= Q THEN Q - c + 1 ELSE 0) = M /\ \A j \in 1..M : c + j - 1 = P + j
      <4>1. P \in Nat /\ Q \in Nat /\ M \in Nat /\ P + M = Q /\ c = P + 1
        BY <1>4, <1>5, <2>6, <3>1
      <4>2. Q - c + 1 = M
        BY <4>1
      <4>3. (IF c <= Q THEN Q - c + 1 ELSE 0) = M
        BY <4>1
      <4>4. \A j \in 1..M : c + j - 1 = P + j
        BY <4>1
      <4> QED
        BY <4>2, <4>3, <4>4
    <3> QED
      BY <2>8, <3>1, <3>3, <3>4
  <2>10. ASSUME NEW x \in 0..(M - 1) PROVE Arg(n, x)' = s[x + 1]
    <3>1. PICK y \in 0..(L - 1) : y = P + x /\ ~ (y < P \/ y >= Q) /\ P + (x + 1) = y + 1 /\ x + 1 \in 1..M
      <4>1. P + x \in 0..(L - 1) /\ ~ (P + x < P \/ P + x >= Q) /\ P + (x + 1) = (P + x) + 1 /\ x + 1 \in 1..M
        <5>1. P \in Nat /\ Q \in Nat /\ M \in Nat /\ L \in Nat /\ P + M = Q /\ Q <= L
          BY <1>3, <1>4, <1>5, <1>6, <2>6
        <5> QED
          BY <5>1
      <4> QED
        BY <4>1
    <3>2. (F + P) + x = F + y
      <4>1. P \in Nat /\ F \in Nat /\ y = P + x /\ x \in Int
        BY <1>4, <1>8, <3>1
      <4> QED
        BY <4>1
    <3>3. Arg(n, x)' = Arg(n, y)
      BY <1>8, <2>2, <2>4, <3>2 DEF Arg
    <3> QED
      BY <1>11, <2>9, <3>1, <3>3
  <2>11. Window(n)' = s
    <3>1. k_num_args(n)' = Len(s) /\ \A x \in 0..(Len(s) - 1) : Arg(n, x)' = s[x + 1]
      BY <2>7, <2>9, <2>10
    <3> QED
      BY <2>9, <3>1, WindowIs
  <2>12. Full(n)'
    <3>1. \A x \in 0..(M - 1) : s[x + 1] \in Elem
      BY <2>9
    <3> QED
      BY <2>7, <2>10, <3>1 DEF Full
  <2>13. ASSUME NEW m \in Array, NEW u, m # n, Reads(m, u) PROVE Full(m)' /\ Window(m)' = u
    <3>1. Window(m) = u /\ Full(m)
      BY <1>1, <2>13, Windowed
    <3> QED
      BY <1>1, <2>2, <2>4, <2>13, <3>1, FullKept
  <2>14. \A m \in {mine, theirs, n} \ {NULL} : Full(m)'
    BY <1>14, <1>17, <2>12, <2>13
  <2>15. PICK T : T = IF theirs = NULL THEN <<>> ELSE Window(theirs)'
    OBVIOUS
  <2>16. T = t /\ n # theirs
    <3>1. theirs = NULL => t = <<>>
      BY <1>15, <1>16 DEF OwnersSee
    <3>2. n # theirs
      BY <1>15, <1>17
    <3>3. PICK m : m = theirs
      OBVIOUS
    <3>4. m # NULL => Window(m)' = t
      BY <1>14, <1>17, <2>13, <3>2, <3>3
    <3>5. m # NULL => Window(theirs)' = t
      BY <2>2, <3>3, <3>4 DEF Window, k_num_args, Arg
    <3> QED
      BY <2>15, <3>1, <3>2, <3>3, <3>5
  <2>17. PICK f : f = [mine |-> Window(n)', theirs |-> T, owned |-> theirs # NULL, shared |-> theirs = n]
    OBVIOUS
  <2>18. Kept(before, f)
    <3>1. /\ f.mine = SubSeq(before.mine, P + 1, Q) /\ f.theirs = before.theirs /\ ~ f.shared
          /\ f.owned = before.owned
      BY <1>2, <1>15, <1>16, <2>8, <2>11, <2>16, <2>17 DEF Old, OwnersSee
    <3>2. P \in 0..Len(before.mine) /\ Q \in 0..Len(before.mine) /\ P <= Q
      <4>1. P \in 0..L /\ Q \in 0..L /\ P <= Q
        BY <1>3, <1>4, <1>5, <1>6
      <4> QED
        BY <1>2, <1>3, <4>1 DEF Old
    <3> QED
      BY <3>1, <3>2 DEF Kept
  <2>19. ASSUME NEW m \in Array, NEW q \in Slot, NEW v \in Elem
         PROVE  Names(m, q, v) <=> /\ m \in {mine, theirs, n}
                                   /\ pos_first'[m] <= q /\ q < pos_end'[m] /\ a[m][q] = v
    <3>1. CASE m = n
      <4>1. q \in Int
        BY <1>13 DEF Slot
      <4>2. PICK y \in Int : q = F + y /\ y = q - F
        BY <1>8, <4>1
      <4>3. Names(n, q, v) <=> F <= q /\ q < F + L /\ a[n][q] = v
        BY <1>1, <1>7, <1>8, <1>10, <1>13 DEF Names, Used, Settled
      <4>4. (F <= q <=> 0 <= y) /\ (q < F + L <=> y < L) /\ (F + P <= q <=> P <= y) /\ (q < F + Q <=> y < Q)
        <5>1. F \in Nat /\ P \in Nat /\ Q \in Nat /\ L \in Nat /\ y \in Int /\ q = F + y
          BY <1>3, <1>4, <1>5, <1>8, <4>2
        <5>2. F <= q <=> 0 <= y
          BY <5>1
        <5>3. q < F + L <=> y < L
          BY <5>1
        <5>4. F + P <= q <=> P <= y
          BY <5>1
        <5>5. q < F + Q <=> y < Q
          BY <5>1
        <5> QED
          BY <5>2, <5>3, <5>4, <5>5
      <4>5. ASSUME 0 <= y, y < L PROVE a[n][q] = v => P <= y /\ y < Q
        <5>1. y \in 0..(L - 1) /\ y < i
          BY <1>3, <2>1, <4>2, <4>5
        <5>2. a[n][q] = IF y < P \/ y >= Q THEN NULL ELSE o[y + 1]
          BY <1>8, <1>11, <4>2, <5>1 DEF Arg
        <5>3. ~ (y < P \/ y >= Q) => P <= y /\ y < Q
          BY <1>4, <1>5, <4>2
        <5> QED
          BY <1>13, <5>2, <5>3
      <4>6. P <= y /\ y < Q => 0 <= y /\ y < L
        BY <1>3, <1>4, <1>5, <1>6, <4>2
      <4> QED
        BY <2>4, <3>1, <4>3, <4>4, <4>5, <4>6
    <3>2. CASE m # n
      BY <1>1, <1>7, <1>13, <1>15, <2>4, <3>2 DEF Names, Used, Settled
    <3> QED
      BY <3>1, <3>2
  <2>20. f = [mine |-> Window(n)', theirs |-> IF theirs = NULL THEN <<>> ELSE Window(theirs)',
              owned |-> theirs # NULL, shared |-> theirs = n]
    BY <2>15, <2>17
  <2>21. ArgsInv'
    BY <1>1, <1>7, <1>17, <2>2, <2>4, <2>5, <2>14, <2>18, <2>19, <2>20, Finished
  <2>22. Seen' = f
    BY <2>2, <2>20 DEF Seen, Shared, Window, k_num_args, Arg
  <2> QED
    BY <2>18, <2>21, <2>22
<1>20. i < k_num_args(k) \/ i >= k_num_args(k)
  BY <1>3, <1>6, <1>7, <1>9
<1> QED
  BY <1>18, <1>19, <1>20

-----------------------------------------------------------------------------
(* How a call begins.                                                      *)

\* The windows of the owners between calls.
LEMMA IdleWindows ==
  ASSUME ArgsInv, Idle
  PROVE  /\ ArgsTypeOK /\ Counted /\ k = NULL /\ doomed = NULL /\ temp = <<>> /\ panicked = "no" /\ pc = "idle"
         /\ NULL \notin Array /\ NULL \notin Elem /\ mine \in Array /\ theirs \in Array \cup {NULL}
         /\ Full(mine) /\ Reads(mine, Window(mine))
         /\ Window(mine) \in Seq(Elem) /\ Len(Window(mine)) = k_num_args(mine)
         /\ theirs # NULL => Full(theirs) /\ Reads(theirs, Window(theirs))
         /\ theirs = mine => Window(theirs) = Window(mine)
         /\ \A m \in Array, q \in Slot : Used(m, q) <=> /\ m \in {mine, theirs}
                                                        /\ pos_first[m] <= q /\ q < pos_end[m]
         /\ \A v \in Elem : InTemp(v) = 0
<1>1. ArgsTypeOK /\ Counted /\ pc = "idle" /\ panicked = "no"
  BY DEF ArgsInv, Idle
<1>2. k = NULL /\ doomed = NULL /\ temp = <<>> /\ \A n \in {mine, theirs} \ {NULL} : Full(n)
  BY <1>1, PhaseIs DEF ArgsInv
<1>3. NULL \notin Array /\ NULL \notin Elem
  BY ArgsAssumption DEF ArgsAssumption
<1>4. mine \in Array /\ theirs \in Array \cup {NULL}
  BY <1>1 DEF ArgsTypeOK
<1>5. Full(mine) /\ Reads(mine, Window(mine))
  BY <1>1, <1>2, <1>3, <1>4, Windowed
<1>6. Window(mine) \in Seq(Elem) /\ Len(Window(mine)) = k_num_args(mine)
  BY <1>5 DEF Reads
<1>7. theirs # NULL => Full(theirs) /\ Reads(theirs, Window(theirs))
  BY <1>1, <1>2, <1>4, Windowed
<1>8. \A m \in Array, q \in Slot : Used(m, q) <=> /\ m \in {mine, theirs}
                                                   /\ pos_first[m] <= q /\ q < pos_end[m]
  BY <1>2, <1>3 DEF Used
<1>9. \A v \in Elem : InTemp(v) = 0
  BY <1>1 DEF InTemp
<1> QED
  BY <1>1, <1>2, <1>3, <1>4, <1>5, <1>6, <1>7, <1>8, <1>9

\* A call that leaves the nodes of the owners alone notes what they see.
LEMMA SeenNow ==
  ASSUME ArgsInv, Idle, before' = Seen, UNCHANGED <<mine, theirs>>,
         k' \in Array, k' # mine => k' # theirs,
         \A m \in Array : m \in {mine, theirs} =>
           /\ pos_first'[m] = pos_first[m] /\ pos_end'[m] = pos_end[m]
           /\ \A q \in Slot : a'[m][q] = a[m][q]
  PROVE  OwnersSee' /\ Old' = Window(mine) /\ Reads(mine, Old)'
<1>1. PICK s : s = Window(mine)
  OBVIOUS
<1>2. PICK t : t = IF theirs = NULL THEN <<>> ELSE Window(theirs)
  OBVIOUS
<1>3. PICK n \in Array : n = mine
  BY IdleWindows
<1>4. PICK o \in Array \cup {NULL} : o = theirs
  BY IdleWindows
<1>5. Reads(n, s) /\ (o # NULL => Reads(o, t)) /\ (o = n => t = s) /\ ArgsTypeOK /\ NULL \notin Array
  BY <1>1, <1>2, <1>3, <1>4, IdleWindows
<1>6. /\ before'.mine = s /\ before'.theirs = t /\ before'.owned = (o # NULL) /\ before'.shared = (o = n)
      /\ mine' = n /\ theirs' = o
  BY <1>1, <1>2, <1>3, <1>4 DEF Seen, Shared
<1>7. Reads(n, s)'
  <2>1. n \in {mine, theirs}
    BY <1>3
  <2>2. pos_first'[n] = pos_first[n] /\ pos_end'[n] = pos_end[n] /\ \A q \in Slot : a'[n][q] = a[n][q]
    BY <2>1
  <2> QED
    BY <1>5, <2>2, ReadsKept
<1>8. o # NULL => Reads(o, t)'
  <2> SUFFICES ASSUME o # NULL PROVE Reads(o, t)'
    OBVIOUS
  <2>1. o \in Array /\ Reads(o, t)
    BY <1>5
  <2> QED
    BY <1>4, <1>5, <2>1, ReadsKept
<1>9. Old' = s
  BY <1>6 DEF Old
<1>10. Reads(mine, Old)'
  BY <1>6, <1>7, <1>9 DEF Reads, k_num_args, Arg
<1>11. o # NULL => Reads(theirs, before.theirs)'
  BY <1>6, <1>8 DEF Reads, k_num_args, Arg
<1>12. (Shared => before.theirs = Old)'
  BY <1>5, <1>6, <1>9 DEF Shared
<1>13. o = NULL => before'.theirs = <<>>
  BY <1>2, <1>4, <1>6
<1>14. (before.owned = (theirs # NULL) /\ before.shared = Shared)'
  BY <1>6 DEF Shared
<1>15. (k \in Array /\ (k # mine => k # theirs /\ Reads(mine, Old)))'
  BY <1>10
<1>16. (theirs = NULL => before.theirs = <<>>)'
  BY <1>6, <1>13
<1>17. (theirs \notin {NULL, k} => Reads(theirs, before.theirs))'
  BY <1>6, <1>11
<1> QED
  BY <1>1, <1>9, <1>10, <1>12, <1>14, <1>15, <1>16, <1>17 DEF OwnersSee

\* k_insert_elems_vararg makes its copy.
LEMMA InsertBegins ==
  ASSUME NEW pos \in Nat, NEW over \in Nat, NEW elems \in Lists(MaxElems),
         ArgsInv, K_insert_elems(pos, over, elems)
  PROVE  ArgsInv'
<1>1. Idle /\ pos + over <= k_num_args(mine)
  BY DEF K_insert_elems
<1>2. PICK n \in Array : n = mine
  BY <1>1, IdleWindows
<1>3. PICK s \in Seq(Elem) : s = Window(n)
  BY <1>1, <1>2, IdleWindows
<1>4. PICK L \in Nat : L = Len(s)
  BY <1>3
<1>5. k_num_args(mine) = L /\ Reads(n, s)
  BY <1>1, <1>2, <1>3, <1>4, IdleWindows
<1>6. ArgsTypeOK /\ Counted
  BY <1>1, IdleWindows
<1>7. CASE CopyFails
  BY <1>1, <1>7, CopyFailsStep
<1>8. CASE /\ Fits(k_num_args(mine)) /\ CopyTo(mine, Acquired, 0) /\ doomed' = Acquired
           /\ Begin([pos |-> pos, over |-> over, elems |-> elems], mine, "resize") /\ i' = pos
  <2>1. PICK m \in Array : m = Acquired /\ m \notin {mine, theirs, doomed}
    BY <1>6, AcquiredOther
  <2>2. m # n /\ m # theirs
    BY <1>2, <2>1
  <2>3. /\ call' = [pos |-> pos, over |-> over, elems |-> elems] /\ k' = n /\ doomed' = m
        /\ pc' = "resize" /\ before' = Seen /\ temp' = <<>> /\ UNCHANGED <<mine, theirs, panicked>>
    BY <1>2, <1>8, <2>1 DEF Begin
  <2>4. Fits(Len(s) + 0) /\ Len(s) + 0 = L
    <3>1. L + 0 = L
      BY <1>4
    <3> QED
      BY <1>4, <1>5, <1>8, <3>1
  <2>5. CopyTo(n, m, 0)
    BY <1>2, <1>8, <2>1
  <2>6. /\ a' \in [Array -> [Slot -> Elem \cup {NULL}]]
        /\ pos_first' \in [Array -> 0..MAX_GARBAGE_ARG_LEN]
        /\ pos_end' \in [Array -> 0..MAX_GARBAGE_ARG_LEN]
        /\ \A o \in Array : pos_first'[o] <= pos_end'[o]
        /\ refs' \in [Elem -> Int]
        /\ \A o \in Array : o # m =>
             a'[o] = a[o] /\ pos_first'[o] = pos_first[o] /\ pos_end'[o] = pos_end[o]
        /\ pos_first'[m] = POS_FIRST /\ pos_end'[m] = POS_FIRST + Len(s) + 0
        /\ \A x \in 0..(Len(s) - 1) : POS_FIRST + x \in Slot /\ a'[m][POS_FIRST + x] = s[x + 1]
        /\ \A v \in Elem : refs'[v] = refs[v] + Count(s, v)
    BY <1>5, <1>6, <2>2, <2>4, <2>5, Copied, SMTT(20)
  <2>7. pos_end'[m] = POS_FIRST + Len(s) /\ POS_FIRST \in Nat
    <3>1. POS_FIRST + L + 0 = POS_FIRST + L /\ POS_FIRST \in Nat
      BY <1>4, ArgsAssumption DEF ArgsAssumption
    <3> QED
      BY <1>4, <2>6, <3>1
  <2>8. ArgsTypeOK'
    <3>1. /\ mine' \in Array /\ theirs' \in Array \cup {NULL}
          /\ k' \in Array \cup {NULL} /\ doomed' \in Array \cup {NULL}
          /\ i' \in Nat /\ panicked' # "assert"
      BY <1>1, <1>6, <1>8, <2>3 DEF ArgsTypeOK, Idle
    <3>2. temp' \in Seq(Elem)
      BY <2>3
    <3> QED
      BY <2>6, <3>1, <3>2 DEF ArgsTypeOK
  <2>9. OwnersSee' /\ Old' = s /\ Reads(mine, Old)'
    <3>1. \A o \in Array : o \in {mine, theirs} =>
           /\ pos_first'[o] = pos_first[o] /\ pos_end'[o] = pos_end[o]
           /\ \A q \in Slot : a'[o][q] = a[o][q]
      BY <2>1, <2>6
    <3> QED
      BY <1>1, <1>2, <1>3, <2>3, <3>1, SeenNow
  <2>10. Reads(doomed, Old)'
    <3>1. k_num_args(m)' = L
      <4>1. (POS_FIRST + L) - POS_FIRST = L
        BY <1>4, <2>7
      <4> QED
        BY <1>4, <2>6, <2>7, <4>1 DEF k_num_args
    <3>2. \A x \in 0..(Len(s) - 1) : Arg(m, x)' = s[x + 1]
      BY <2>6 DEF Arg
    <3>3. Reads(m, s)'
      BY <1>3, <1>4, <3>1, <3>2 DEF Reads
    <3> QED
      BY <2>3, <2>9, <3>3 DEF Reads, k_num_args, Arg
  <2>11. Inserting'
    <3>1. LastGoodArg' = pos + over
      BY <2>3 DEF LastGoodArg
    <3>2. (LastGoodArg <= Len(Old) /\ Fits(Len(Old)))'
      BY <1>1, <1>4, <1>5, <1>8, <2>9, <3>1 DEF Fits
    <3>3. (doomed \in Array \ {mine, theirs, k})'
      BY <1>2, <2>2, <2>3
    <3> QED
      BY <1>2, <1>3, <2>3, <2>9, <2>10, <3>2, <3>3 DEF Inserting
  <2>12. Phase'
    <3>1. Edit'
      BY <1>2, <1>8, <2>3, <2>9 DEF Edit, Reads, k_num_args, Arg
    <3> QED
      BY <2>3, <2>11, <3>1 DEF Phase, Editing
  <2>13. Counted'
    <3>1. \A o \in Array, q \in Slot : o # m => a'[o][q] = a[o][q] /\ (Used(o, q)' <=> Used(o, q))
      <4>1. \A o \in Array, q \in Slot : o # m => (Used(o, q)' <=> o \in {mine, theirs} /\ pos_first[o] <= q /\ q < pos_end[o])
        BY <1>1, <1>2, <2>3, <2>6, IdleWindows DEF Used, Settled
      <4> QED
        BY <1>1, <2>6, <4>1, IdleWindows
    <3>2. \A q \in Slot : /\ ~ Used(m, q)
                          /\ Used(m, q)' <=> POS_FIRST <= q /\ q < POS_FIRST + Len(s)
      <4>1. \A q \in Slot : ~ Used(m, q)
        BY <1>1, <2>1, IdleWindows
      <4>2. m # NULL
        BY <1>1, IdleWindows
      <4>3. \A q \in Slot : Used(m, q)' <=> POS_FIRST <= q /\ q < POS_FIRST + Len(s)
        BY <2>2, <2>3, <2>6, <2>7, <4>2 DEF Used, Settled
      <4> QED
        BY <4>1, <4>3
    <3>3. \A v \in Elem : refs'[v] = refs[v] + Count(s, v) /\ InTemp(v) = 0 /\ InTemp(v)' = 0
      BY <1>1, <2>3, <2>6, IdleWindows DEF InTemp
    <3>4. POS_FIRST + Len(s) <= MAX_GARBAGE_ARG_LEN
      BY <1>4, <1>5, <1>8 DEF Fits
    <3> QED
      BY <1>6, <2>6, <3>1, <3>2, <3>3, <3>4, CopyCounted
  <2> QED
    BY <2>8, <2>12, <2>13 DEF ArgsInv
<1> QED
  BY <1>7, <1>8 DEF K_insert_elems

\* updateTrimArgs and k_without_first_n_arg begin, with a copy or without.
LEMMA TrimBegins ==
  ASSUME NEW left \in Nat, NEW right \in Nat, NEW always \in BOOLEAN,
         ArgsInv, Trim(left, right, always)
  PROVE  ArgsInv'
<1>1. Idle /\ left <= right /\ right <= k_num_args(mine)
  BY DEF Trim
<1>2. PICK n \in Array : n = mine
  BY <1>1, IdleWindows
<1>3. PICK s \in Seq(Elem) : s = Window(n)
  BY <1>1, <1>2, IdleWindows
<1>4. PICK L \in Nat : L = Len(s)
  BY <1>3
<1>5. k_num_args(mine) = L /\ Reads(n, s)
  BY <1>1, <1>2, <1>3, <1>4, IdleWindows
<1>6. ArgsTypeOK /\ Counted
  BY <1>1, IdleWindows
<1>7. PICK j \in Nat : j = IF left = 0 THEN right ELSE 0
  OBVIOUS
<1>8. /\ j <= L /\ (j < left \/ j >= right)
      /\ \A x \in 0..(L - 1) : ~ (x < j /\ (x < left \/ x >= right))
  BY <1>1, <1>4, <1>5, <1>7
<1>9. PICK c : c = [left |-> left, right |-> right]
  OBVIOUS
\* Once the edited node m, mine or a copy of it, reads s.
<1>10. ASSUME NEW m \in Array, call' = c, k' = m, pc' = "trim", before' = Seen, i' = j,
              UNCHANGED <<mine, theirs, doomed, panicked>>,
              m # n => m # theirs, m = n => theirs # n, Reads(m, s)',
              \A o \in Array : o \in {n, theirs} =>
                /\ pos_first'[o] = pos_first[o] /\ pos_end'[o] = pos_end[o]
                /\ \A q \in Slot : a'[o][q] = a[o][q]
       PROVE  Phase'
  <2>1. OwnersSee' /\ Old' = s
    BY <1>1, <1>2, <1>3, <1>10, SeenNow
  <2>2. k_num_args(k)' = L /\ \A x \in 0..(L - 1) : Arg(k, x)' = s[x + 1]
    BY <1>4, <1>10 DEF Reads, k_num_args, Arg
  <2>3. doomed' = NULL
    BY <1>1, <1>10, IdleWindows
  <2>4. (k = mine => ~ Shared)'
    BY <1>2, <1>10 DEF Shared
  <2>5. call'.left = left /\ call'.right = right /\ Len(Old)' = L
    BY <1>4, <1>9, <1>10, <2>1
  <2>6. \A x \in 0..(L - 1) :
          Arg(k, x)' = IF x < j /\ (x < left \/ x >= right) THEN NULL ELSE s[x + 1]
    BY <1>8, <2>2
  <2>7. Trimming'
    BY <1>1, <1>3, <1>5, <1>8, <1>10, <2>1, <2>2, <2>3, <2>4, <2>5, <2>6 DEF Trimming
  <2> QED
    BY <1>10, <2>7 DEF Phase
<1>11. CASE CopyFails
  BY <1>1, <1>11, CopyFailsStep
<1>12. CASE /\ Fits(k_num_args(mine)) /\ CopyTo(mine, Acquired, 0) /\ Begin(c, Acquired, "trim")
            /\ i' = j /\ UNCHANGED doomed
  <2>1. PICK m \in Array : m = Acquired /\ m \notin {mine, theirs, doomed}
    BY <1>6, AcquiredOther
  <2>2. m # n /\ m # theirs
    BY <1>2, <2>1
  <2>3. /\ call' = c /\ k' = m /\ pc' = "trim" /\ before' = Seen /\ temp' = <<>>
        /\ UNCHANGED <<mine, theirs, panicked>>
    BY <1>12, <2>1 DEF Begin
  <2>4. Fits(Len(s) + 0) /\ Len(s) + 0 = L
    <3>1. L + 0 = L
      BY <1>4
    <3> QED
      BY <1>4, <1>5, <1>12, <3>1
  <2>5. CopyTo(n, m, 0)
    BY <1>2, <1>12, <2>1
  <2>6. /\ a' \in [Array -> [Slot -> Elem \cup {NULL}]]
        /\ pos_first' \in [Array -> 0..MAX_GARBAGE_ARG_LEN]
        /\ pos_end' \in [Array -> 0..MAX_GARBAGE_ARG_LEN]
        /\ \A o \in Array : pos_first'[o] <= pos_end'[o]
        /\ refs' \in [Elem -> Int]
        /\ \A o \in Array : o # m =>
             a'[o] = a[o] /\ pos_first'[o] = pos_first[o] /\ pos_end'[o] = pos_end[o]
        /\ pos_first'[m] = POS_FIRST /\ pos_end'[m] = POS_FIRST + Len(s) + 0
        /\ \A x \in 0..(Len(s) - 1) : POS_FIRST + x \in Slot /\ a'[m][POS_FIRST + x] = s[x + 1]
        /\ \A v \in Elem : refs'[v] = refs[v] + Count(s, v)
    BY <1>5, <1>6, <2>2, <2>4, <2>5, Copied, SMTT(20)
  <2>7. pos_end'[m] = POS_FIRST + Len(s) /\ POS_FIRST \in Nat
    <3>1. POS_FIRST + L + 0 = POS_FIRST + L /\ POS_FIRST \in Nat
      BY <1>4, ArgsAssumption DEF ArgsAssumption
    <3> QED
      BY <1>4, <2>6, <3>1
  <2>8. ArgsTypeOK'
    <3>1. /\ mine' \in Array /\ theirs' \in Array \cup {NULL}
          /\ k' \in Array \cup {NULL} /\ doomed' \in Array \cup {NULL}
          /\ i' \in Nat /\ panicked' # "assert"
      BY <1>1, <1>6, <1>7, <1>12, <2>3 DEF ArgsTypeOK, Idle
    <3>2. temp' \in Seq(Elem)
      BY <2>3
    <3> QED
      BY <2>6, <3>1, <3>2 DEF ArgsTypeOK
  <2>9. Reads(m, s)'
    <3>1. k_num_args(m)' = L
      <4>1. (POS_FIRST + L) - POS_FIRST = L
        BY <1>4, <2>7
      <4> QED
        BY <1>4, <2>6, <2>7, <4>1 DEF k_num_args
    <3>2. \A x \in 0..(Len(s) - 1) : Arg(m, x)' = s[x + 1]
      BY <2>6 DEF Arg
    <3> QED
      BY <1>3, <1>4, <3>1, <3>2 DEF Reads
  <2>10. Phase'
    <3>1. \A o \in Array : o \in {n, theirs} =>
            /\ pos_first'[o] = pos_first[o] /\ pos_end'[o] = pos_end[o]
            /\ \A q \in Slot : a'[o][q] = a[o][q]
      BY <2>2, <2>6
    <3> QED
      BY <1>10, <1>12, <2>2, <2>3, <2>9, <3>1
  <2>11. Counted'
    <3>1. \A o \in Array, q \in Slot : o # m => a'[o][q] = a[o][q] /\ (Used(o, q)' <=> Used(o, q))
      <4>1. \A o \in Array, q \in Slot : o # m => (Used(o, q)' <=> o \in {mine, theirs} /\ pos_first[o] <= q /\ q < pos_end[o])
        BY <1>1, <1>2, <1>12, <2>3, <2>6, IdleWindows DEF Used, Settled
      <4> QED
        BY <1>1, <2>6, <4>1, IdleWindows
    <3>2. \A q \in Slot : /\ ~ Used(m, q)
                          /\ Used(m, q)' <=> POS_FIRST <= q /\ q < POS_FIRST + Len(s)
      <4>1. \A q \in Slot : ~ Used(m, q)
        BY <1>1, <2>1, IdleWindows
      <4>2. m # NULL
        BY <1>1, IdleWindows
      <4>3. \A q \in Slot : Used(m, q)' <=> POS_FIRST <= q /\ q < POS_FIRST + Len(s)
        BY <2>2, <2>3, <2>6, <2>7, <4>2 DEF Used, Settled
      <4> QED
        BY <4>1, <4>3
    <3>3. \A v \in Elem : refs'[v] = refs[v] + Count(s, v) /\ InTemp(v) = 0 /\ InTemp(v)' = 0
      BY <1>1, <2>3, <2>6, IdleWindows DEF InTemp
    <3>4. POS_FIRST + Len(s) <= MAX_GARBAGE_ARG_LEN
      BY <1>4, <1>5, <1>12 DEF Fits
    <3> QED
      BY <1>6, <2>6, <3>1, <3>2, <3>3, <3>4, CopyCounted
  <2> QED
    BY <2>8, <2>10, <2>11 DEF ArgsInv
<1>13. CASE ~ Shared /\ Begin(c, mine, "trim") /\ i' = j /\ UNCHANGED <<heapVars, doomed>>
  <2>1. /\ call' = c /\ k' = n /\ pc' = "trim" /\ before' = Seen /\ temp' = <<>>
        /\ UNCHANGED <<mine, theirs, panicked, a, pos_first, pos_end, refs, doomed>>
    BY <1>2, <1>13 DEF Begin, heapVars
  <2>2. ArgsTypeOK'
    <3>1. temp' \in Seq(Elem)
      BY <2>1
    <3> QED
      BY <1>1, <1>6, <1>7, <1>13, <2>1, <3>1 DEF ArgsTypeOK, Idle
  <2>3. Reads(n, s)'
    BY <1>5, <2>1 DEF Reads, k_num_args, Arg
  <2>4. Phase'
    BY <1>2, <1>10, <1>13, <2>1, <2>3 DEF Shared
  <2>5. \A m \in Array, q \in Slot, v \in Elem : Names(m, q, v)' <=> Names(m, q, v)
    <3>1. \A m \in Array, q \in Slot : Used(m, q)' <=> m \in {mine, theirs} /\ pos_first[m] <= q /\ q < pos_end[m]
      BY <1>1, <1>2, <2>1, IdleWindows DEF Used, Settled
    <3> QED
      BY <1>1, <2>1, <3>1, IdleWindows DEF Names
  <2>6. Counted'
    <3>1. \A v \in Elem : InTemp(v)' = InTemp(v)
      BY <1>1, <2>1, IdleWindows DEF InTemp
    <3> QED
      BY <1>6, <2>1, <2>5, <3>1, StillCounted
  <2> QED
    BY <2>2, <2>4, <2>6 DEF ArgsInv
<1> QED
  BY <1>7, <1>9, <1>11, <1>12, <1>13 DEF Trim

\* The copy, or the room, that the edited node gets.
LEMMA ResizeStep ==
  ASSUME ArgsInv, Resize
  PROVE  ArgsInv'
<1>1. pc = "resize" /\ panicked = "no" /\ ArgsTypeOK /\ Counted /\ Inserting /\ temp = <<>>
  BY PhaseIs DEF Resize, Running, ArgsInv
<1>2. PICK L, G, P, E, B, D \in Nat, A \in Int :
        /\ P <= G /\ G + B = L /\ P + E = D /\ G + A = D
        /\ L = Len(Old) /\ G = LastGoodArg /\ P = call.pos /\ E = Len(call.elems)
        /\ B = Behind /\ A = Added
  BY <1>1, InsertSums
<1>3. /\ L \in Nat /\ G \in Nat /\ P \in Nat /\ E \in Nat /\ B \in Nat /\ D \in Nat /\ A \in Int
      /\ P <= G /\ G + B = L /\ P + E = D /\ G + A = D
  BY <1>2
<1>4. PICK o \in Seq(Elem) : o = Old /\ Len(o) = L
  BY <1>1, <1>2 DEF Inserting
<1>5. PICK n \in Array : n = k /\ n = mine
  BY <1>1, PhaseIs, EditIs DEF Inserting, OwnersSee, ArgsInv
<1>6. Reads(n, o) /\ i = P
  BY <1>1, <1>2, <1>4, <1>5, PhaseIs, EditIs DEF ArgsInv
<1>7. PICK d \in Array : d = doomed /\ d # n /\ d # theirs /\ Reads(d, o)
  BY <1>1, <1>4, <1>5 DEF Inserting
<1>8. MAX_GARBAGE_ARG_LEN \in Nat /\ NULL \notin Elem /\ NULL \notin Array /\ POS_FIRST \in Nat
  BY ArgsAssumption DEF ArgsAssumption
<1>9. PICK X \in Nat : X = IF A > 0 THEN A ELSE 0
  BY <1>3
<1>10. \A x \in 0..(L - 1) : ~ (P <= x /\ x < P)
  BY <1>3
<1>11. PICK t : t = before.theirs
  OBVIOUS
\* Once the edited node m has the arguments of n, and room for X more.
<1>12. ASSUME NEW m \in Array, k' = m, pc' = "overwrite",
              UNCHANGED <<mine, theirs, call, doomed, i, temp, before, panicked>>,
              m # theirs \/ (m = n /\ A = 0), m # d, m # n => A # 0, m = n => A = 0 \/ (A > 0 /\ theirs # n),
              k_num_args(m)' = L + X, \A x \in 0..(L - 1) : Arg(m, x)' = o[x + 1],
              \A y \in Array : y # m => /\ pos_first'[y] = pos_first[y] /\ pos_end'[y] = pos_end[y]
                                        /\ \A q \in Slot : a'[y][q] = a[y][q]
       PROVE  Phase'
  <2>1. /\ Old' = o /\ LastGoodArg' = G /\ Added' = A /\ call' = call /\ Len(Old)' = L
        /\ before' = before /\ Shared' = Shared /\ mine' = mine
    BY <1>2, <1>4, <1>12 DEF Old, LastGoodArg, Added, Shared
  <2>2. Reads(doomed, Old)'
    <3>1. Reads(d, o)'
      <4>1. pos_first'[d] = pos_first[d] /\ pos_end'[d] = pos_end[d] /\ \A q \in Slot : a'[d][q] = a[d][q]
        BY <1>7, <1>12
      <4> QED
        BY <1>1, <1>7, <4>1, ReadsKept
    <3> QED
      BY <1>7, <1>12, <2>1, <3>1 DEF Reads, k_num_args, Arg
  <2>3. OwnersSee'
    <3>1. OwnersSee
      BY <1>1 DEF Inserting
    <3>2. m # n => Reads(mine, Old)'
      <4> SUFFICES ASSUME m # n PROVE Reads(mine, Old)'
        OBVIOUS
      <4>1. Reads(n, o)'
        BY <1>1, <1>6, <1>12, ReadsKept
      <4> QED
        BY <1>5, <1>12, <2>1, <4>1 DEF Reads, k_num_args, Arg
    <3>3. theirs \notin {NULL, m} => Reads(theirs, before.theirs)'
      <4> SUFFICES ASSUME theirs \notin {NULL, m} PROVE Reads(theirs, before.theirs)'
        OBVIOUS
      <4>1. PICK h \in Array : h = theirs
        BY <1>1 DEF ArgsTypeOK
      <4>2. Reads(h, t)
        <5>1. CASE h = n
          BY <1>4, <1>5, <1>6, <1>11, <3>1, <4>1, <5>1 DEF OwnersSee, Shared
        <5>2. CASE h # n
          BY <1>5, <1>11, <3>1, <4>1, <5>2 DEF OwnersSee
        <5> QED
          BY <5>1, <5>2
      <4>3. Reads(h, t)'
        <5>1. pos_first'[h] = pos_first[h] /\ pos_end'[h] = pos_end[h] /\ \A q \in Slot : a'[h][q] = a[h][q]
          BY <1>12, <4>1
        <5> QED
          BY <1>1, <4>1, <4>2, <5>1, ReadsKept
      <4> QED
        BY <1>11, <1>12, <4>1, <4>3 DEF Reads, k_num_args, Arg
    <3>4. (k \in Array /\ (k # mine => k # theirs /\ Reads(mine, Old)))'
      BY <1>5, <1>12, <3>2
    <3>5. (theirs \notin {NULL, k} => Reads(theirs, before.theirs))'
      BY <1>12, <3>3
    <3> QED
      BY <1>4, <1>12, <2>1, <3>1, <3>4, <3>5 DEF OwnersSee
  <2>4. Inserting'
    <3>1. (doomed \in Array \ {mine, theirs, k})'
      BY <1>5, <1>7, <1>12
    <3>2. (k = mine /\ pc # "resize" => Added = 0 \/ (Added > 0 /\ ~ Shared))'
      BY <1>5, <1>12, <2>1 DEF Shared
    <3>3. (k # mine => Added # 0)'
      BY <1>5, <1>12, <2>1
    <3>4. LastGoodArg' <= Len(Old)' /\ Fits(Len(Old))'
      BY <1>1, <1>2, <2>1 DEF Inserting, Fits
    <3> QED
      BY <1>1, <1>4, <2>1, <2>2, <2>3, <3>1, <3>2, <3>3, <3>4 DEF Inserting
  <2>5. Stretched'
    BY <1>9, <1>12, <2>1 DEF Stretched, k_num_args
  <2>6. \A x \in 0..(L - 1) : Arg(k, x)' = IF P <= x /\ x < P THEN NULL ELSE o[x + 1]
    BY <1>10, <1>12 DEF Arg
  <2>7. Edit'
    BY <1>2, <1>3, <1>6, <1>12, <2>1, <2>5, <2>6 DEF Edit
  <2> QED
    BY <1>1, <1>12, <2>4, <2>7 DEF Phase, Editing
<1>13. CASE Panic("no room")
  BY <1>13, SameState DEF Panic
<1>14. CASE /\ Added < 0 \/ (Added > 0 /\ Shared)
            /\ ~ (Added > 0 /\ ~ Fits(k_num_args(k) + Added))
            /\ CopyTo(k, Acquired, IF Added > 0 THEN Added ELSE 0) /\ k' = Acquired
            /\ pc' = "overwrite" /\ UNCHANGED <<mine, theirs, call, doomed, i, temp, before, panicked>>
  <2>1. PICK m \in Array : m = Acquired /\ m \notin {mine, theirs, doomed}
    BY <1>1, AcquiredOther
  <2>2. m # n /\ m # theirs /\ m # d /\ k' = m
    BY <1>5, <1>7, <1>14, <2>1
  <2>3. CopyTo(n, m, X)
    BY <1>2, <1>5, <1>9, <1>14, <2>1
  <2>4. Fits(Len(o) + X)
    <3>1. A > 0 => Fits(L + A)
      BY <1>2, <1>4, <1>5, <1>6, <1>14 DEF Reads
    <3>2. Fits(L)
      BY <1>1, <1>2 DEF Inserting
    <3>3. ~ A > 0 => L + X = L
      BY <1>3, <1>9
    <3> QED
      BY <1>4, <1>9, <3>1, <3>2, <3>3
  <2>5. /\ a' \in [Array -> [Slot -> Elem \cup {NULL}]]
        /\ pos_first' \in [Array -> 0..MAX_GARBAGE_ARG_LEN]
        /\ pos_end' \in [Array -> 0..MAX_GARBAGE_ARG_LEN]
        /\ \A y \in Array : pos_first'[y] <= pos_end'[y]
        /\ refs' \in [Elem -> Int]
        /\ \A y \in Array : y # m =>
             a'[y] = a[y] /\ pos_first'[y] = pos_first[y] /\ pos_end'[y] = pos_end[y]
        /\ pos_first'[m] = POS_FIRST /\ pos_end'[m] = POS_FIRST + Len(o) + X
        /\ \A x \in 0..(Len(o) - 1) : POS_FIRST + x \in Slot /\ a'[m][POS_FIRST + x] = o[x + 1]
        /\ \A v \in Elem : refs'[v] = refs[v] + Count(o, v)
    BY <1>1, <1>6, <2>2, <2>3, <2>4, Copied, SMTT(20)
  <2>6. ArgsTypeOK'
    BY <1>1, <1>14, <2>2, <2>5 DEF ArgsTypeOK
  <2>7. k_num_args(m)' = L + X /\ \A x \in 0..(L - 1) : Arg(m, x)' = o[x + 1]
    <3>1. (POS_FIRST + L + X) - POS_FIRST = L + X
      BY <1>3, <1>8, <1>9
    <3> QED
      BY <1>4, <2>5, <3>1 DEF k_num_args, Arg
  <2>8. A # 0
    BY <1>2, <1>14
  <2>9. Phase'
    BY <1>12, <1>14, <2>2, <2>5, <2>7, <2>8
  <2>10. Counted'
    <3>0. pos_end'[m] = POS_FIRST + L + X /\ Old' = o /\ Len(Old)' = L
      BY <1>4, <1>14, <2>5 DEF Old
    <3>1. \A y \in Array, q \in Slot : y # m => a'[y][q] = a[y][q] /\ (Used(y, q)' <=> Used(y, q))
      BY <1>1, <1>5, <1>14, <2>2, <2>5 DEF Used, Settled
    <3>2. ASSUME NEW q \in Slot
          PROVE  /\ ~ Used(m, q)
                 /\ Used(m, q)' <=> POS_FIRST <= q /\ q < POS_FIRST + L
      <4>1. ~ Used(m, q)
        BY <1>5, <2>1, <2>2 DEF Used
      <4>2. Used(m, q)' <=> POS_FIRST <= q /\ q < POS_FIRST + L + X /\ q - POS_FIRST < L
        BY <1>8, <1>14, <2>2, <2>5, <3>0 DEF Used, Settled
      <4>3. q \in Int
        BY <1>8 DEF Slot
      <4>4. (q < POS_FIRST + L + X /\ q - POS_FIRST < L) <=> q < POS_FIRST + L
        BY <1>3, <1>8, <1>9, <4>3
      <4> QED
        BY <4>1, <4>2, <4>4
    <3>3. \A v \in Elem : refs'[v] = refs[v] + Count(o, v) /\ InTemp(v) = 0 /\ InTemp(v)' = 0
      BY <1>1, <1>14, <2>5 DEF InTemp
    <3>4. POS_FIRST + Len(o) <= MAX_GARBAGE_ARG_LEN
      BY <1>1, <1>4 DEF Inserting, Fits
    <3>5. \A q \in Slot : /\ ~ Used(m, q)
                          /\ Used(m, q)' <=> POS_FIRST <= q /\ q < POS_FIRST + Len(o)
      BY <1>4, <3>2
    <3> QED
      BY <1>1, <2>5, <3>1, <3>3, <3>4, <3>5, CopyCounted
  <2> QED
    BY <2>6, <2>9, <2>10 DEF ArgsInv
<1>15. CASE /\ ~ (Added < 0 \/ (Added > 0 /\ Shared)) /\ ~ pos_end[k] + Added > MAX_GARBAGE_ARG_LEN
            /\ pos_end' = [pos_end EXCEPT ![k] = @ + Added] /\ pc' = "overwrite"
            /\ UNCHANGED <<a, pos_first, refs, mine, theirs, callVars, i, panicked>>
  <2>1. A \in Nat /\ X = A /\ (A = 0 \/ (A > 0 /\ theirs # n))
    <3>1. ~ (A < 0 \/ (A > 0 /\ theirs = n))
      BY <1>2, <1>5, <1>15 DEF Shared
    <3> QED
      BY <1>3, <1>9, <3>1
  <2>2. PICK F \in Nat : F = pos_first[n]
    BY <1>1, WindowSlots
  <2>3. pos_end[n] = F + L /\ k_num_args(n) = L
    BY <1>1, <1>4, <1>6, <2>2, WindowSlots DEF Reads
  <2>4. pos_end' = [pos_end EXCEPT ![n] = (F + L) + A] /\ ~ (F + L) + A > MAX_GARBAGE_ARG_LEN
    BY <1>2, <1>5, <1>15, <2>3
  <2>5. (F + L) + A \in 0..MAX_GARBAGE_ARG_LEN /\ F <= (F + L) + A /\ ((F + L) + A) - F = L + A
    BY <1>3, <1>8, <2>1, <2>2, <2>4
  <2>6. /\ pos_end' \in [Array -> 0..MAX_GARBAGE_ARG_LEN] /\ pos_end'[n] = (F + L) + A
        /\ \A y \in Array : y # n => pos_end'[y] = pos_end[y]
    BY <1>1, <2>4, <2>5 DEF ArgsTypeOK
  <2>7. ArgsTypeOK'
    <3>1. \A y \in Array : pos_first'[y] <= pos_end'[y]
      BY <1>1, <1>15, <2>2, <2>5, <2>6 DEF ArgsTypeOK
    <3> QED
      BY <1>1, <1>15, <2>6, <3>1 DEF ArgsTypeOK, callVars
  <2>8. k_num_args(n)' = L + X /\ \A x \in 0..(L - 1) : Arg(n, x)' = o[x + 1]
    BY <1>4, <1>6, <1>15, <2>1, <2>2, <2>5, <2>6 DEF Reads, Arg, k_num_args
  <2>9. Phase'
    BY <1>5, <1>7, <1>12, <1>15, <2>1, <2>6, <2>8 DEF callVars
  <2>10. \A m \in Array, q \in Slot, v \in Elem : Names(m, q, v)' <=> Names(m, q, v)
    <3>1. ASSUME NEW q \in Slot PROVE Used(n, q)' <=> Used(n, q)
      <4>1. Used(n, q) <=> F <= q /\ q < F + L
        BY <1>1, <1>5, <1>8, <2>2, <2>3 DEF Used, Settled
      <4>2. Used(n, q)' <=> F <= q /\ q < (F + L) + A /\ q - F < L
        BY <1>2, <1>5, <1>8, <1>15, <2>2, <2>6 DEF Used, Settled, callVars, Old
      <4>3. q \in Int
        BY <1>8 DEF Slot
      <4>4. (q < (F + L) + A /\ q - F < L) <=> q < F + L
        BY <1>3, <2>1, <2>2, <4>3
      <4> QED
        BY <4>1, <4>2, <4>4
    <3>2. \A m \in Array, q \in Slot : m # n => (Used(m, q)' <=> Used(m, q))
      BY <1>5, <1>15, <2>6 DEF Used, callVars
    <3> QED
      BY <1>15, <3>1, <3>2 DEF Names
  <2>11. Counted'
    BY <1>1, <1>15, <2>10, StillCounted DEF InTemp
  <2> QED
    BY <2>7, <2>9, <2>11 DEF ArgsInv
<1> QED
  BY <1>13, <1>14, <1>15 DEF Resize

-----------------------------------------------------------------------------
(* The functions that are done in one step.                                *)

\* The caller's node, which it does not share, has the arguments new; the other
\* owner sees what it saw.
Rewritten(new) == [mine |-> new, theirs |-> Seen.theirs, owned |-> Seen.owned, shared |-> FALSE]

\* k_set_arg and k_replace_arg.
LEMMA ReplaceStep ==
  ASSUME NEW x \in Nat, NEW v \in Elem, ArgsInv, K_replace_arg(x, v)
  PROVE  /\ ArgsInv'
         /\ panicked' = "no" =>
              Seen' = Rewritten([Window(mine) EXCEPT ![x + 1] = v])
<1>1. Idle /\ x < k_num_args(mine)
  BY DEF K_replace_arg
<1>2. PICK n \in Array : n = mine
  BY <1>1, IdleWindows
<1>3. PICK s \in Seq(Elem) : s = Window(n)
  BY <1>1, <1>2, IdleWindows
<1>4. PICK L \in Nat : L = Len(s)
  BY <1>3
<1>5. k_num_args(n) = L /\ Reads(n, s)
  BY <1>1, <1>2, <1>3, <1>4, IdleWindows
<1>6. ArgsTypeOK /\ Counted /\ NULL \notin Array /\ NULL \notin Elem /\ k = NULL /\ doomed = NULL
  BY <1>1, IdleWindows
<1>7. x \in 0..(L - 1) /\ x + 1 \in 1..L
  BY <1>1, <1>2, <1>5
<1>8. PICK w \in Elem : w = Arg(n, x) /\ w = s[x + 1]
  BY <1>3, <1>4, <1>5, <1>7 DEF Reads
<1>9. PICK F \in Nat : F = pos_first[n]
  BY <1>6, WindowSlots
<1>10. pos_end[n] = F + L
  BY <1>5, <1>6, <1>9, WindowSlots
<1>11. /\ a \in [Array -> [Slot -> Elem \cup {NULL}]] /\ refs \in [Elem -> Int]
       /\ pos_first \in [Array -> 0..MAX_GARBAGE_ARG_LEN] /\ pos_end \in [Array -> 0..MAX_GARBAGE_ARG_LEN]
       /\ MAX_GARBAGE_ARG_LEN \in Nat /\ POS_FIRST \in Nat
  <2>1. MAX_GARBAGE_ARG_LEN \in Nat /\ POS_FIRST \in Nat
    BY ArgsAssumption DEF ArgsAssumption
  <2> QED
    BY <1>6, <2>1 DEF ArgsTypeOK
<1>12. \A u \in Elem : Count(s, u) \in Nat
  BY CountNat
<1>13. CASE CopyFails
  <2>1. ArgsInv' /\ panicked' # "no"
    BY <1>1, <1>13, CopyFailsStep
  <2> QED
    BY <2>1
<1>14. CASE /\ Shared /\ Fits(k_num_args(mine)) /\ mine' = Acquired
            /\ a' = [Filled(mine, mine') EXCEPT ![mine'][POS_FIRST + x] = v]
            /\ pos_first' = [pos_first EXCEPT ![mine'] = POS_FIRST]
            /\ pos_end'   = [pos_end EXCEPT ![mine'] = POS_FIRST + k_num_args(mine)]
            /\ refs' = [Bump(Bump(refs, Window(mine)), <<v>>) EXCEPT ![Arg(mine, x)] = @ - 1]
            /\ UNCHANGED <<theirs, callVars, pc, i, panicked>>
  <2>1. PICK m \in Array : m = Acquired /\ m \notin {mine, theirs, doomed}
    BY <1>6, AcquiredOther
  <2>2. m # n /\ theirs = n /\ mine' = m
    BY <1>2, <1>14, <2>1 DEF Shared
  <2>3. PICK z : z = [s EXCEPT ![x + 1] = v]
    OBVIOUS
  <2>4. /\ z \in Seq(Elem) /\ Len(z) = L
        /\ \A y \in 0..(L - 1) : z[y + 1] = IF y = x THEN v ELSE s[y + 1]
        /\ \A u \in Elem : Count(z, u) + (IF w = u THEN 1 ELSE 0) = Count(s, u) + (IF v = u THEN 1 ELSE 0)
    <3>1. z \in Seq(Elem) /\ Len(z) = L
      BY <1>4, <1>7, <2>3, ExceptSeq
    <3>2. ASSUME NEW y \in 0..(L - 1) PROVE z[y + 1] = IF y = x THEN v ELSE s[y + 1]
      <4>1. y + 1 \in DOMAIN s /\ (y + 1 = x + 1 <=> y = x)
        BY <1>3, <1>4
      <4> QED
        BY <2>3, <4>1
    <3>3. \A u \in Elem : Count(z, u) + (IF w = u THEN 1 ELSE 0) = Count(s, u) + (IF v = u THEN 1 ELSE 0)
      <4>1. PICK j \in 1..Len(s) : j = x + 1
        BY <1>4, <1>7
      <4>2. \A u \in Elem : Count([s EXCEPT ![j] = v], u) + (IF s[j] = u THEN 1 ELSE 0)
                            = Count(s, u) + (IF v = u THEN 1 ELSE 0)
        BY <1>3, CountExcept
      <4>3. z = [s EXCEPT ![j] = v] /\ s[j] = w
        BY <1>8, <2>3, <4>1
      <4> QED
        BY <4>2, <4>3
    <3> QED
      BY <3>1, <3>2, <3>3
  <2>5. \A u \in Elem : Count(z, u) \in Nat
    BY <2>4, CountNat
  <2>6. POS_FIRST + L <= MAX_GARBAGE_ARG_LEN
    BY <1>2, <1>5, <1>14 DEF Fits
  <2>7. PICK r : r = [p \in Slot |-> IF p \in POS_FIRST..(POS_FIRST + L - 1)
                                       THEN Arg(n, p - POS_FIRST) ELSE a[m][p]]
    OBVIOUS
  <2>8. \A y \in 0..(L - 1) : POS_FIRST + y \in Slot /\ POS_FIRST + y \in POS_FIRST..(POS_FIRST + L - 1)
                              /\ (POS_FIRST + y) - POS_FIRST = y
    BY <1>4, <1>11, <2>6 DEF Slot
  <2>9. r \in [Slot -> Elem \cup {NULL}] /\ \A y \in 0..(L - 1) : r[POS_FIRST + y] = s[y + 1]
    <3>1. ASSUME NEW p \in Slot, p \in POS_FIRST..(POS_FIRST + L - 1) PROVE Arg(n, p - POS_FIRST) \in Elem
      <4>1. PICK y \in 0..(L - 1) : y = p - POS_FIRST /\ y + 1 \in 1..L
        <5>1. p - POS_FIRST \in 0..(L - 1) /\ (p - POS_FIRST) + 1 \in 1..L
          BY <1>4, <1>11, <3>1
        <5> QED
          BY <5>1
      <4> QED
        BY <1>3, <1>4, <1>5, <4>1 DEF Reads
    <3>2. \A p \in Slot : a[m][p] \in Elem \cup {NULL}
      BY <1>11
    <3>3. r \in [Slot -> Elem \cup {NULL}]
      BY <2>7, <3>1, <3>2
    <3>4. ASSUME NEW y \in 0..(L - 1) PROVE r[POS_FIRST + y] = s[y + 1]
      <4>1. r[POS_FIRST + y] = Arg(n, y)
        BY <2>7, <2>8
      <4> QED
        BY <1>4, <1>5, <4>1 DEF Reads
    <3> QED
      BY <3>3, <3>4
  <2>10. a' = [[a EXCEPT ![m] = r] EXCEPT ![m][POS_FIRST + x] = v]
    <3>1. Filled(mine, m) = [a EXCEPT ![m] = r]
      BY <1>2, <1>5, <2>7 DEF Filled
    <3> QED
      BY <1>14, <2>2, <3>1
  <2>11. /\ a' \in [Array -> [Slot -> Elem \cup {NULL}]]
         /\ \A o \in Array : o # m => a'[o] = a[o]
         /\ \A y \in 0..(L - 1) : a'[m][POS_FIRST + y] = z[y + 1]
    <3>1. PICK g : g = [r EXCEPT ![POS_FIRST + x] = v]
      OBVIOUS
    <3>2. g \in [Slot -> Elem \cup {NULL}]
      BY <2>9, <3>1
    <3>3. \A y \in 0..(L - 1) : g[POS_FIRST + y] = z[y + 1]
      <4> SUFFICES ASSUME NEW y \in 0..(L - 1) PROVE g[POS_FIRST + y] = z[y + 1]
        OBVIOUS
      <4>1. POS_FIRST + y = POS_FIRST + x <=> y = x
        BY <1>7, <1>11
      <4>2. g[POS_FIRST + y] = IF y = x THEN v ELSE r[POS_FIRST + y]
        BY <2>8, <2>9, <3>1, <4>1
      <4> QED
        BY <2>4, <2>9, <4>2
    <3>4. a' = [a EXCEPT ![m] = g]
      BY <1>11, <2>10, <3>1
    <3> QED
      BY <1>11, <3>2, <3>3, <3>4
  <2>12. /\ pos_first' = [pos_first EXCEPT ![m] = POS_FIRST]
         /\ pos_end'   = [pos_end EXCEPT ![m] = POS_FIRST + L]
    BY <1>2, <1>5, <1>14, <2>2
  <2>13. /\ pos_first' \in [Array -> 0..MAX_GARBAGE_ARG_LEN] /\ pos_end' \in [Array -> 0..MAX_GARBAGE_ARG_LEN]
         /\ \A o \in Array : o # m => pos_first'[o] = pos_first[o] /\ pos_end'[o] = pos_end[o]
         /\ pos_first'[m] = POS_FIRST /\ pos_end'[m] = POS_FIRST + L /\ POS_FIRST <= POS_FIRST + L
    BY <1>11, <2>6, <2>12
  <2>14. refs' \in [Elem -> Int] /\ \A u \in Elem : refs'[u] = refs[u] + Count(z, u)
    <3>1. refs' = [u \in Elem |-> IF u = w THEN ((refs[u] + Count(s, u)) + Count(<<v>>, u)) - 1
                                           ELSE (refs[u] + Count(s, u)) + Count(<<v>>, u)]
      BY <1>2, <1>3, <1>8, <1>14 DEF Bump
    <3>2. \A u \in Elem : Count(<<v>>, u) = IF u = v THEN 1 ELSE 0
      BY CountOne
    <3>3. ASSUME NEW u \in Elem PROVE refs'[u] = refs[u] + Count(z, u) /\ refs'[u] \in Int
      <4>1. PICK c \in Nat : c = Count(s, u)
        BY <1>12
      <4>2. PICK e \in Nat : e = Count(z, u)
        BY <2>5
      <4>3. PICK b \in Int : b = refs[u]
        BY <1>11
      <4>4. e + (IF w = u THEN 1 ELSE 0) = c + (IF v = u THEN 1 ELSE 0)
        BY <2>4, <4>1, <4>2
      <4>5. refs'[u] = IF u = w THEN ((b + c) + (IF u = v THEN 1 ELSE 0)) - 1 ELSE (b + c) + (IF u = v THEN 1 ELSE 0)
        BY <3>1, <3>2, <4>1, <4>3
      <4>6. refs'[u] = b + e
        BY <4>4, <4>5
      <4> QED
        BY <4>2, <4>3, <4>6
    <3> QED
      BY <3>1, <3>3
  <2>15. ArgsTypeOK'
    <3>1. \A o \in Array : pos_first'[o] <= pos_end'[o]
      BY <1>6, <2>13 DEF ArgsTypeOK
    <3> QED
      BY <1>1, <1>6, <1>14, <2>2, <2>11, <2>13, <2>14, <3>1 DEF ArgsTypeOK, callVars, Idle
  <2>16. Full(m)' /\ Full(n)'
    <3>1. Full(n)
      BY <1>1, <1>2, IdleWindows
    <3>2. Full(n)'
      BY <1>6, <2>2, <2>11, <2>13, <3>1, FullKept
    <3>3. k_num_args(m)' = L
      BY <1>4, <1>11, <2>13 DEF k_num_args
    <3>4. \A y \in 0..(L - 1) : z[y + 1] \in Elem
      BY <1>4, <2>4
    <3>5. Full(m)'
      BY <2>11, <2>13, <3>3, <3>4 DEF Full, Arg
    <3> QED
      BY <3>2, <3>5
  <2>17. Phase'
    <3>1. \A o \in ({mine, theirs} \ {NULL})' : Full(o)'
      BY <1>14, <2>2, <2>16
    <3> QED
      BY <1>1, <1>6, <1>14, <3>1, IdleWindows DEF Phase, callVars
  <2>18. Counted'
    <3>1. \A o \in Array, q \in Slot : o # m => a'[o][q] = a[o][q] /\ (Used(o, q)' <=> Used(o, q))
      <4>1. \A o \in Array, q \in Slot : o # m => (Used(o, q)' <=> o \in {mine, theirs} /\ pos_first[o] <= q /\ q < pos_end[o])
        BY <1>2, <1>6, <1>14, <2>2, <2>13 DEF Used, callVars
      <4> QED
        BY <1>1, <2>11, <4>1, IdleWindows
    <3>2. \A q \in Slot : /\ ~ Used(m, q)
                          /\ Used(m, q)' <=> POS_FIRST <= q /\ q < POS_FIRST + L
      <4>1. \A q \in Slot : ~ Used(m, q)
        BY <1>1, <2>1, IdleWindows
      <4>2. \A q \in Slot : Used(m, q)' <=> POS_FIRST <= q /\ q < POS_FIRST + L
        BY <1>6, <1>14, <2>2, <2>13 DEF Used, callVars
      <4> QED
        BY <4>1, <4>2
    <3>3. \A u \in Elem : refs'[u] = refs[u] + Count(z, u) /\ InTemp(u) = 0 /\ InTemp(u)' = 0
      BY <1>1, <1>14, <2>14, IdleWindows DEF InTemp
    <3>4. \A q \in Slot : /\ ~ Used(m, q)
                          /\ Used(m, q)' <=> POS_FIRST <= q /\ q < POS_FIRST + Len(z)
      BY <2>4, <3>2
    <3>5. POS_FIRST + Len(z) <= MAX_GARBAGE_ARG_LEN /\ \A y \in 0..(Len(z) - 1) : a'[m][POS_FIRST + y] = z[y + 1]
      BY <2>4, <2>6, <2>11
    <3> QED
      BY <1>6, <2>4, <2>14, <3>1, <3>3, <3>4, <3>5, CopyCounted
  <2>19. Window(m)' = z /\ Window(n)' = s
    <3>1. k_num_args(m)' = L /\ \A y \in 0..(L - 1) : Arg(m, y)' = z[y + 1]
      <4>1. (POS_FIRST + L) - POS_FIRST = L
        BY <1>4, <1>11
      <4> QED
        BY <2>11, <2>13, <4>1 DEF k_num_args, Arg
    <3>2. Window(m)' = z
      BY <2>4, <3>1, WindowIs
    <3>3. Full(n)
      BY <1>1, <1>2, IdleWindows
    <3>4. Window(n)' = Window(n)
      BY <1>6, <2>2, <2>11, <2>13, <3>3, FullKept
    <3> QED
      BY <1>3, <3>2, <3>4
  <2>20. Seen' = Rewritten(z)
    <3>1. Window(mine)' = z /\ Window(theirs)' = s /\ theirs' = n /\ n # NULL /\ ~ Shared'
      BY <1>6, <1>14, <2>2, <2>19 DEF Window, k_num_args, Arg, Shared
    <3>2. Window(theirs) = s
      BY <1>3, <2>2
    <3>3. Seen' = [mine |-> z, theirs |-> s, owned |-> TRUE, shared |-> FALSE]
      BY <3>1 DEF Seen, Shared
    <3>4. Seen = [mine |-> Window(mine), theirs |-> s, owned |-> TRUE, shared |-> Shared]
      BY <2>2, <3>1, <3>2 DEF Seen
    <3> QED
      BY <3>3, <3>4 DEF Rewritten
  <2>21. ArgsInv'
    BY <2>15, <2>17, <2>18 DEF ArgsInv
  <2> QED
    BY <1>2, <1>3, <2>3, <2>20, <2>21
<1>15. CASE /\ ~ Shared
            /\ a' = [a EXCEPT ![mine][pos_first[mine] + x] = v]
            /\ refs' = [Bump(refs, <<v>>) EXCEPT ![Arg(mine, x)] = @ - 1]
            /\ UNCHANGED <<pos_first, pos_end, mine, theirs, callVars, pc, i, panicked>>
  <2>1. PICK p \in Slot : p = F + x /\ F <= p /\ p < F + L
    <3>1. F + x \in Slot
      BY <1>5, <1>6, <1>7, <1>9, WindowSlots
    <3>2. F <= F + x /\ F + x < F + L
      BY <1>4, <1>7, <1>9
    <3> QED
      BY <3>1, <3>2
  <2>2. a' = [a EXCEPT ![n][p] = v]
    BY <1>2, <1>9, <1>15, <2>1
  <2>3. /\ a' \in [Array -> [Slot -> Elem \cup {NULL}]]
        /\ \A m \in Array, q \in Slot : a'[m][q] = IF m = n /\ q = p THEN v ELSE a[m][q]
    BY <1>11, <2>2
  <2>4. refs' \in [Elem -> Int]
        /\ \A u \in Elem : refs'[u] + (IF u = w THEN 1 ELSE 0) = refs[u] + (IF u = v THEN 1 ELSE 0)
    <3>1. refs' = [u \in Elem |-> IF u = w THEN (refs[u] + Count(<<v>>, u)) - 1 ELSE refs[u] + Count(<<v>>, u)]
      BY <1>2, <1>8, <1>15 DEF Bump
    <3>2. \A u \in Elem : Count(<<v>>, u) = IF u = v THEN 1 ELSE 0
      BY CountOne
    <3>3. ASSUME NEW u \in Elem
          PROVE  refs'[u] \in Int /\ refs'[u] + (IF u = w THEN 1 ELSE 0) = refs[u] + (IF u = v THEN 1 ELSE 0)
      <4>1. PICK b \in Int : b = refs[u]
        BY <1>11
      <4>2. refs'[u] = IF u = w THEN (b + (IF u = v THEN 1 ELSE 0)) - 1 ELSE b + (IF u = v THEN 1 ELSE 0)
        BY <3>1, <3>2, <4>1
      <4> QED
        BY <4>1, <4>2
    <3> QED
      BY <3>1, <3>3
  <2>5. ArgsTypeOK'
    BY <1>1, <1>6, <1>15, <2>3, <2>4 DEF ArgsTypeOK, callVars, Idle
  <2>6. ASSUME NEW m \in Array, Full(m) PROVE Full(m)'
    <3>1. k_num_args(m)' = k_num_args(m)
      BY <1>15 DEF k_num_args
    <3>2. \A y \in 0..(k_num_args(m) - 1) : pos_first[m] + y \in Slot
      BY <1>6, WindowSlots
    <3>3. \A y \in 0..(k_num_args(m) - 1) : Arg(m, y)' \in Elem
      BY <1>15, <2>3, <2>6, <3>2 DEF Full, Arg
    <3> QED
      BY <3>1, <3>3 DEF Full
  <2>7. Phase'
    <3>1. \A o \in ({mine, theirs} \ {NULL})' : Full(o)'
      BY <1>1, <1>15, <2>6, IdleWindows
    <3> QED
      BY <1>1, <1>6, <1>15, <3>1, IdleWindows DEF Phase, callVars
  <2>8. Used(n, p)
    BY <1>1, <1>2, <1>9, <1>10, <2>1, IdleWindows
  <2>9. \A m \in Array, q \in Slot : Used(m, q)' <=> Used(m, q)
    BY <1>6, <1>15 DEF Used, callVars
  <2>10. \A m \in Array, q \in Slot, u \in Elem : m # n \/ q # p => (Names(m, q, u)' <=> Names(m, q, u))
    BY <2>3, <2>9 DEF Names
  <2>11. ASSUME NEW u \in Elem
         PROVE  /\ InTemp(u)' = InTemp(u) /\ InTemp(u) \in Nat
                /\ refs'[u] + (IF Names(n, p, u) THEN 1 ELSE 0)
                     = refs[u] + (IF Names(n, p, u)' THEN 1 ELSE 0)
    <3>1. (Names(n, p, u) <=> u = w) /\ (Names(n, p, u)' <=> u = v)
      BY <1>8, <1>9, <2>1, <2>3, <2>8, <2>9 DEF Names, Arg
    <3>2. InTemp(u)' = InTemp(u) /\ InTemp(u) \in Nat
      BY <1>1, <1>15, IdleWindows DEF InTemp
    <3> QED
      BY <2>4, <3>1, <3>2
  <2>12. Counted'
    BY <1>6, <1>11, <2>4, <2>10, <2>11, OneSlotCounted
  <2>13. PICK z : z = [s EXCEPT ![x + 1] = v]
    OBVIOUS
  <2>14. Window(n)' = z
    <3>1. z \in Seq(Elem) /\ Len(z) = L
      BY <1>4, <1>7, <2>13, ExceptSeq
    <3>2. k_num_args(n)' = L
      BY <1>5, <1>15 DEF k_num_args
    <3>3. ASSUME NEW y \in 0..(L - 1) PROVE Arg(n, y)' = z[y + 1]
      <4>1. y + 1 \in DOMAIN s /\ (y + 1 = x + 1 <=> y = x)
        BY <1>3, <1>4
      <4>2. F + y \in Slot
        BY <1>5, <1>6, <1>9, WindowSlots
      <4>3. F + y = p <=> y = x
        BY <1>9, <2>1
      <4>4. Arg(n, y)' = IF y = x THEN v ELSE Arg(n, y)
        BY <1>9, <1>15, <2>3, <4>2, <4>3 DEF Arg
      <4> QED
        BY <1>4, <1>5, <2>13, <4>1, <4>4 DEF Reads
    <3> QED
      BY <3>1, <3>2, <3>3, WindowIs
  <2>15. ASSUME NEW o \in Array, o # n, Full(o) PROVE Window(o)' = Window(o)
    BY <1>6, <1>15, <2>3, <2>15, FullKept
  <2>16. Seen' = Rewritten(z)
    <3>1. PICK o : o = theirs
      OBVIOUS
    <3>2. o # NULL => Window(o)' = Window(o)
      BY <1>1, <1>2, <1>15, <2>15, <3>1, IdleWindows DEF Shared
    <3>3. theirs' = o /\ mine' = n /\ ~ Shared' /\ (o # NULL => Window(theirs)' = Window(theirs)) /\ Window(mine)' = z
      BY <1>2, <1>15, <2>14, <3>1, <3>2 DEF Window, k_num_args, Arg, Shared
    <3>4. Seen' = [mine |-> z, theirs |-> IF o = NULL THEN <<>> ELSE Window(theirs), owned |-> o # NULL, shared |-> FALSE]
      BY <3>1, <3>3 DEF Seen, Shared
    <3>5. Seen = [mine |-> Window(mine), theirs |-> IF o = NULL THEN <<>> ELSE Window(theirs), owned |-> o # NULL, shared |-> Shared]
      BY <3>1 DEF Seen
    <3> QED
      BY <3>4, <3>5 DEF Rewritten
  <2>17. ArgsInv'
    BY <2>5, <2>7, <2>12 DEF ArgsInv
  <2> QED
    BY <1>2, <1>3, <2>13, <2>16, <2>17
<1> QED
  BY <1>13, <1>14, <1>15 DEF K_replace_arg

\* k_add_front_arg.
LEMMA AddFrontStep ==
  ASSUME NEW v \in Elem, ArgsInv, K_add_front_arg(v)
  PROVE  ArgsInv' /\ (panicked' = "no" => Seen' = Rewritten(<<v>> \o Window(mine)))
<1>1. Idle /\ ~ Shared
  BY DEF K_add_front_arg
<1>2. PICK n \in Array : n = mine
  BY <1>1, IdleWindows
<1>3. ArgsTypeOK /\ Counted /\ NULL \notin Array /\ NULL \notin Elem /\ k = NULL /\ doomed = NULL
  BY <1>1, IdleWindows
<1>4. PICK F \in Nat : F = pos_first[n]
  BY <1>3, WindowSlots
<1>5. PICK E \in Nat : E = pos_end[n]
  BY <1>3, WindowSlots
<1>6. F <= E /\ E <= MAX_GARBAGE_ARG_LEN /\ MAX_GARBAGE_ARG_LEN \in Nat /\ k_num_args(n) = E - F
  <2>1. E <= MAX_GARBAGE_ARG_LEN /\ MAX_GARBAGE_ARG_LEN \in Nat
    BY <1>3, <1>5, WindowSlots
  <2> QED
    BY <1>3, <1>4, <1>5, <2>1 DEF ArgsTypeOK, k_num_args
<1>7. /\ a \in [Array -> [Slot -> Elem \cup {NULL}]] /\ refs \in [Elem -> Int]
      /\ pos_first \in [Array -> 0..MAX_GARBAGE_ARG_LEN] /\ pos_end \in [Array -> 0..MAX_GARBAGE_ARG_LEN]
  BY <1>3 DEF ArgsTypeOK
<1>8. CASE Panic("no room")
  <2>1. ArgsInv' /\ panicked' # "no"
    BY <1>8, SameState DEF Panic
  <2> QED
    BY <2>1
<1>9. CASE /\ pos_first[mine] > 0
           /\ pos_first' = [pos_first EXCEPT ![mine] = @ - 1]
           /\ a' = [a EXCEPT ![mine][pos_first[mine] - 1] = v] /\ Inc(v)
           /\ UNCHANGED <<pos_end, mine, theirs, callVars, pc, i, panicked>>
  <2>1. PICK p \in Nat : p = F - 1
    BY <1>2, <1>4, <1>9
  <2>2. F = p + 1 /\ p < F /\ p <= E /\ p < E /\ p < MAX_GARBAGE_ARG_LEN
    BY <1>4, <1>5, <1>6, <2>1
  <2>3. p \in Slot /\ p \in 0..MAX_GARBAGE_ARG_LEN
    BY <1>6, <2>2 DEF Slot
  <2>4. pos_first' = [pos_first EXCEPT ![n] = p] /\ a' = [a EXCEPT ![n][p] = v]
    BY <1>2, <1>4, <1>9, <2>1
  <2>5. /\ a' \in [Array -> [Slot -> Elem \cup {NULL}]]
        /\ \A m \in Array, q \in Slot : a'[m][q] = IF m = n /\ q = p THEN v ELSE a[m][q]
    BY <1>7, <2>3, <2>4
  <2>6. /\ pos_first' \in [Array -> 0..MAX_GARBAGE_ARG_LEN] /\ pos_first'[n] = p
        /\ \A m \in Array : m # n => pos_first'[m] = pos_first[m]
    BY <1>7, <2>3, <2>4
  <2>7. refs' \in [Elem -> Int] /\ \A u \in Elem : refs'[u] = refs[u] + (IF u = v THEN 1 ELSE 0)
    BY <1>7, <1>9 DEF Inc
  <2>8. ArgsTypeOK'
    <3>1. \A m \in Array : pos_first'[m] <= pos_end'[m]
      BY <1>3, <1>5, <1>9, <2>2, <2>6 DEF ArgsTypeOK
    <3> QED
      BY <1>1, <1>3, <1>9, <2>5, <2>6, <2>7, <3>1 DEF ArgsTypeOK, callVars, Idle
  <2>9. Full(n)'
    <3>1. k_num_args(n)' = E - p
      BY <1>5, <1>9, <2>6 DEF k_num_args
    <3>2. ASSUME NEW x \in 0..((E - p) - 1) PROVE a'[n][p + x] \in Elem
      <4>1. CASE x = 0
        BY <2>1, <2>3, <2>5, <4>1
      <4>2. CASE x # 0
        <5>1. PICK y \in 0..((E - F) - 1) : F + y = p + x
          <6>1. x - 1 \in 0..((E - F) - 1) /\ F + (x - 1) = p + x
            BY <1>5, <2>1, <2>2, <4>2
          <6> QED
            BY <6>1
        <5>2. F + y \in Slot /\ F + y # p
          BY <1>5, <1>6, <2>1, <2>2 DEF Slot
        <5>3. Full(n)
          BY <1>1, <1>2, IdleWindows
        <5>4. a[n][F + y] \in Elem
          BY <1>4, <1>6, <5>3 DEF Full, Arg
        <5> QED
          BY <2>5, <5>1, <5>2, <5>4
      <4> QED
        BY <4>1, <4>2
    <3> QED
      BY <2>6, <3>1, <3>2 DEF Full, Arg
  <2>10. Phase'
    <3>1. ASSUME theirs # NULL PROVE Full(theirs)'
      <4>1. PICK o \in Array : o = theirs /\ o # n
        BY <1>1, <1>2, <3>1, IdleWindows DEF Shared
      <4>2. Full(o)
        BY <1>1, <3>1, <4>1, IdleWindows
      <4>3. Full(o)'
        BY <1>3, <1>9, <2>5, <2>6, <4>1, <4>2, FullKept
      <4> QED
        BY <1>9, <4>1, <4>3 DEF Full, k_num_args, Arg
    <3>2. Full(mine)'
      BY <1>2, <1>9, <2>9 DEF Full, k_num_args, Arg
    <3>3. \A o \in ({mine, theirs} \ {NULL})' : Full(o)'
      BY <1>9, <3>1, <3>2 DEF Full, k_num_args, Arg
    <3> QED
      BY <1>1, <1>3, <1>9, <3>3, IdleWindows DEF Phase, callVars
  <2>11. \A m \in Array, q \in Slot : Used(m, q)' <=> m \in {mine, theirs} /\ pos_first'[m] <= q /\ q < pos_end[m]
    BY <1>1, <1>3, <1>9 DEF Used, callVars
  <2>12. \A m \in Array, q \in Slot : Used(m, q) <=> m \in {mine, theirs} /\ pos_first[m] <= q /\ q < pos_end[m]
    BY <1>1, IdleWindows
  <2>13. ASSUME NEW q \in Slot, q # p PROVE p <= q <=> F <= q
    BY <2>1, <2>2, <2>13 DEF Slot
  <2>14. \A m \in Array, q \in Slot : m # n \/ q # p => (Used(m, q)' <=> Used(m, q))
    BY <1>4, <2>6, <2>11, <2>12, <2>13
  <2>15. \A m \in Array, q \in Slot, u \in Elem : m # n \/ q # p => (Names(m, q, u)' <=> Names(m, q, u))
    BY <2>5, <2>14 DEF Names
  <2>16. ~ Used(n, p) /\ Used(n, p)'
    <3>1. ~ F <= p /\ p <= p /\ p < E
      BY <2>1, <2>2
    <3> QED
      BY <1>2, <1>4, <1>5, <2>3, <2>6, <2>11, <2>12, <3>1
  <2>17. ASSUME NEW u \in Elem
         PROVE  /\ InTemp(u)' = InTemp(u) /\ InTemp(u) \in Nat
                /\ refs'[u] + (IF Names(n, p, u) THEN 1 ELSE 0)
                     = refs[u] + (IF Names(n, p, u)' THEN 1 ELSE 0)
    <3>1. ~ Names(n, p, u) /\ (Names(n, p, u)' <=> u = v)
      BY <2>3, <2>5, <2>16 DEF Names
    <3>2. InTemp(u)' = InTemp(u) /\ InTemp(u) \in Nat
      BY <1>1, <1>9, IdleWindows DEF InTemp
    <3>3. PICK b \in Int : b = refs[u]
      BY <1>7
    <3>4. refs'[u] = b + (IF u = v THEN 1 ELSE 0)
      BY <2>7, <3>3
    <3>5. refs'[u] + 0 = b + (IF u = v THEN 1 ELSE 0)
      BY <3>4
    <3> QED
      BY <3>1, <3>2, <3>3, <3>5
  <2>18. Counted'
    BY <1>3, <1>7, <2>3, <2>7, <2>15, <2>17, OneSlotCounted
  <2>19. PICK s \in Seq(Elem) : s = Window(n) /\ Reads(n, s)
    BY <1>1, <1>2, IdleWindows
  <2>20. PICK L \in Nat : L = Len(s) /\ L = E - F
    BY <1>6, <2>19 DEF Reads
  <2>21. PICK z : z = <<v>> \o s
    OBVIOUS
  <2>22. z \in Seq(Elem) /\ Len(z) = 1 + L /\ \A j \in 1..(1 + L) : z[j] = IF j <= 1 THEN v ELSE s[j - 1]
    <3>1. PICK u \in Seq(Elem) : u = <<v>>
      <4>1. <<v>> \in Seq(Elem)
        OBVIOUS
      <4> QED
        BY <4>1
    <3>2. /\ u \o s \in Seq(Elem) /\ Len(u \o s) = Len(u) + Len(s)
          /\ \A j \in 1..(Len(u) + Len(s)) : (u \o s)[j] = IF j <= Len(u) THEN u[j] ELSE s[j - Len(u)]
      BY ConcatProperties, Zenon
    <3>3. Len(u) = 1 /\ u[1] = v
      BY <3>1
    <3>4. \A j \in 1..(1 + L) : j <= 1 => j = 1
      BY <2>20
    <3>5. /\ z \in Seq(Elem) /\ Len(z) = 1 + L
          /\ \A j \in 1..(1 + L) : z[j] = IF j <= 1 THEN u[j] ELSE s[j - 1]
      BY <2>20, <2>21, <3>1, <3>2, <3>3
    <3> QED
      BY <3>3, <3>4, <3>5
  <2>23. Window(n)' = z
    <3>1. k_num_args(n)' = 1 + L
      <4>1. E - p = 1 + L
        BY <1>5, <2>1, <2>2, <2>20
      <4> QED
        BY <1>5, <1>9, <2>6, <4>1 DEF k_num_args
    <3>2. ASSUME NEW y \in 0..((1 + L) - 1) PROVE Arg(n, y)' = z[y + 1]
      <4>1. Arg(n, y)' = a'[n][p + y]
        BY <2>6 DEF Arg
      <4>2. CASE y = 0
        <5>1. y + 1 = 1 /\ p + y = p /\ 1 \in 1..(1 + L)
          BY <2>20, <4>2
        <5> QED
          BY <2>3, <2>5, <2>22, <4>1, <5>1
      <4>3. CASE y # 0
        <5>1. PICK x \in 0..(L - 1) : y = x + 1 /\ F + x = p + y
          <6>1. y - 1 \in 0..(L - 1) /\ y = (y - 1) + 1 /\ F + (y - 1) = p + y
            BY <2>1, <2>2, <2>20, <4>3
          <6> QED
            BY <6>1
        <5>2. F + x \in Slot /\ F + x # p /\ y + 1 \in 1..(1 + L) /\ ~ y + 1 <= 1 /\ (y + 1) - 1 = x + 1
          <6>1. F + x < E
            <7>1. F \in Nat /\ E \in Nat /\ L \in Nat /\ L = E - F /\ x \in Int /\ x < L
              BY <1>4, <1>5, <2>20
            <7> QED
              BY <7>1
          <6> QED
            BY <1>6, <2>1, <2>2, <2>20, <5>1, <6>1 DEF Slot
        <5>3. z[y + 1] = s[x + 1]
          BY <2>22, <5>2
        <5>4. Arg(n, x) = s[x + 1]
          BY <2>19, <2>20 DEF Reads
        <5> QED
          BY <1>4, <2>5, <4>1, <5>1, <5>2, <5>3, <5>4 DEF Arg
      <4> QED
        BY <4>2, <4>3
    <3>3. k_num_args(n)' = Len(z) /\ \A y \in 0..(Len(z) - 1) : Arg(n, y)' = z[y + 1]
      BY <2>22, <3>1, <3>2
    <3> QED
      BY <2>22, <3>3, WindowIs
  <2>24. Seen' = Rewritten(z)
    <3>1. PICK o : o = theirs
      OBVIOUS
    <3>2. ASSUME o # NULL PROVE Window(o)' = Window(o)
      <4>1. o \in Array /\ o # n /\ Full(o)
        BY <1>1, <1>2, <3>1, <3>2, IdleWindows DEF Shared
      <4> QED
        BY <1>3, <1>9, <2>5, <2>6, <4>1, FullKept
    <3>3. theirs' = o /\ mine' = n /\ ~ Shared' /\ (o # NULL => Window(theirs)' = Window(theirs)) /\ Window(mine)' = z
      BY <1>1, <1>2, <1>9, <2>23, <3>1, <3>2 DEF Window, k_num_args, Arg, Shared
    <3>4. Seen' = [mine |-> z, theirs |-> IF o = NULL THEN <<>> ELSE Window(theirs), owned |-> o # NULL, shared |-> FALSE]
      BY <3>1, <3>3 DEF Seen, Shared
    <3>5. Seen = [mine |-> Window(mine), theirs |-> IF o = NULL THEN <<>> ELSE Window(theirs), owned |-> o # NULL, shared |-> Shared]
      BY <3>1 DEF Seen
    <3> QED
      BY <3>4, <3>5 DEF Rewritten
  <2>25. ArgsInv'
    BY <2>8, <2>10, <2>18 DEF ArgsInv
  <2> QED
    BY <1>2, <2>19, <2>21, <2>24, <2>25
<1> QED
  BY <1>8, <1>9 DEF K_add_front_arg

\* Another owner takes hold of the node.
LEMMA ShareStep ==
  ASSUME ArgsInv, Share
  PROVE  ArgsInv'
<1>1. Idle /\ theirs = NULL /\ theirs' = mine /\ UNCHANGED <<heapVars, mine, callVars, pc, i, panicked>>
  BY DEF Share
<1>2. ArgsTypeOK /\ Counted /\ NULL \notin Array /\ k = NULL /\ doomed = NULL /\ mine \in Array
  BY <1>1, IdleWindows
<1>3. ArgsTypeOK'
  BY <1>1, <1>2 DEF ArgsTypeOK, heapVars, callVars, Idle
<1>4. Full(mine)'
  BY <1>1, IdleWindows DEF heapVars, Full, k_num_args, Arg
<1>5. Phase'
  <2>1. \A o \in ({mine, theirs} \ {NULL})' : Full(o)'
    BY <1>1, <1>4 DEF Full, k_num_args, Arg
  <2> QED
    BY <1>1, <2>1, IdleWindows DEF Phase, callVars
<1>6. \A m \in Array, q \in Slot : Used(m, q)' <=> Used(m, q)
  <2>1. \A m \in Array, q \in Slot : Used(m, q)' <=> m \in {mine} /\ pos_first[m] <= q /\ q < pos_end[m]
    BY <1>1, <1>2 DEF Used, heapVars, callVars
  <2>2. \A m \in Array, q \in Slot : Used(m, q) <=> m \in {mine} /\ pos_first[m] <= q /\ q < pos_end[m]
    BY <1>1, <1>2 DEF Used
  <2> QED
    BY <2>1, <2>2
<1>7. \A m \in Array, q \in Slot, v \in Elem : Names(m, q, v)' <=> Names(m, q, v)
  BY <1>1, <1>6 DEF Names, heapVars
<1>8. Counted'
  BY <1>1, <1>2, <1>7, StillCounted DEF InTemp, heapVars, callVars
<1> QED
  BY <1>3, <1>5, <1>8 DEF ArgsInv

\* It lets go of what it has.
LEMMA UnshareStep ==
  ASSUME ArgsInv, Unshare
  PROVE  ArgsInv'
<1>1. Idle /\ theirs # NULL /\ theirs' = NULL /\ UNCHANGED <<heapVars, mine, panicked>>
  BY DEF Unshare
<1>2. ArgsTypeOK /\ Counted /\ NULL \notin Array /\ NULL \notin Elem /\ k = NULL /\ doomed = NULL /\ mine \in Array
  BY <1>1, IdleWindows
<1>3. Full(mine)'
  BY <1>1, IdleWindows DEF heapVars, Full, k_num_args, Arg
<1>4. Window(mine)' = Window(mine)
  BY <1>1 DEF Window, k_num_args, Arg, heapVars
<1>5. \A m \in Array, q \in Slot : Used(m, q) <=> m \in {mine, theirs} /\ pos_first[m] <= q /\ q < pos_end[m]
  BY <1>1, IdleWindows
<1>6. CASE Shared /\ UNCHANGED <<callVars, pc, i>>
  <2>1. ArgsTypeOK'
    BY <1>1, <1>2, <1>6 DEF ArgsTypeOK, heapVars, callVars, Idle
  <2>2. Phase'
    <3>1. \A o \in ({mine, theirs} \ {NULL})' : Full(o)'
      BY <1>1, <1>3 DEF Full, k_num_args, Arg
    <3> QED
      BY <1>1, <1>6, <3>1, IdleWindows DEF Phase, callVars
  <2>3. \A m \in Array, q \in Slot : Used(m, q)' <=> Used(m, q)
    <3>1. \A m \in Array, q \in Slot : Used(m, q)' <=> m \in {mine} /\ pos_first[m] <= q /\ q < pos_end[m]
      BY <1>1, <1>2, <1>6 DEF Used, heapVars, callVars
    <3>2. \A m \in Array, q \in Slot : Used(m, q) <=> m \in {mine} /\ pos_first[m] <= q /\ q < pos_end[m]
      BY <1>5, <1>6 DEF Shared
    <3> QED
      BY <3>1, <3>2
  <2>4. \A m \in Array, q \in Slot, v \in Elem : Names(m, q, v)' <=> Names(m, q, v)
    BY <1>1, <2>3 DEF Names, heapVars
  <2>5. Counted'
    BY <1>1, <1>2, <1>6, <2>4, StillCounted DEF InTemp, heapVars, callVars
  <2> QED
    BY <2>1, <2>2, <2>5 DEF ArgsInv
<1>7. CASE /\ ~ Shared /\ doomed' = theirs /\ pc' = "dispose" /\ i' = 0 /\ k' = mine
           /\ before' = [Seen EXCEPT !.theirs = <<>>, !.owned = FALSE] /\ UNCHANGED <<call, temp>>
  <2>1. PICK d \in Array : d = theirs /\ d # mine /\ d # NULL
    BY <1>1, <1>2, <1>7, IdleWindows DEF Shared
  <2>2. ArgsTypeOK'
    BY <1>1, <1>2, <1>7, <2>1 DEF ArgsTypeOK, heapVars, Idle
  <2>3. Full(d) /\ k_num_args(d) \in Nat
    BY <1>1, <1>2, <2>1, IdleWindows, WindowSlots
  <2>4. Disposing'
    <3>1. (before = Final)'
      <4>1. before' = [mine |-> Window(mine), theirs |-> <<>>, owned |-> FALSE, shared |-> FALSE]
        <5>1. Seen = [mine |-> Window(mine), theirs |-> Window(theirs), owned |-> TRUE, shared |-> FALSE]
          BY <1>1, <1>7 DEF Seen, Shared
        <5> QED
          BY <1>7, <5>1
      <4>2. Final' = [mine |-> Window(mine), theirs |-> <<>>, owned |-> FALSE, shared |-> FALSE]
        <5>1. Window(k)' = Window(mine)
          BY <1>1, <1>7 DEF Window, k_num_args, Arg, heapVars
        <5> QED
          BY <1>1, <1>2, <1>7, <5>1 DEF Final
      <4> QED
        BY <4>1, <4>2
    <3>2. (doomed \in Array \ {mine, theirs, k})' /\ (k \in Array /\ (k # mine => k # theirs))'
      BY <1>1, <1>2, <1>7, <2>1
    <3>3. (i <= k_num_args(doomed))'
      <4>1. k_num_args(doomed)' = k_num_args(d)
        BY <1>1, <1>7, <2>1 DEF k_num_args, heapVars
      <4> QED
        BY <1>7, <2>3, <4>1
    <3>4. (\A x \in 0..(k_num_args(doomed) - 1) : IF x < i THEN Arg(doomed, x) = NULL ELSE Arg(doomed, x) \in Elem)'
      <4>1. \A x \in 0..(k_num_args(d) - 1) : ~ x < 0 /\ Arg(d, x) \in Elem
        BY <2>3 DEF Full
      <4> QED
        BY <1>1, <1>7, <2>1, <4>1 DEF k_num_args, Arg, heapVars
    <3>5. (\A n \in {mine, theirs, k} \ {NULL} : Full(n))'
      BY <1>1, <1>3, <1>7 DEF Full, k_num_args, Arg
    <3> QED
      BY <3>1, <3>2, <3>3, <3>4, <3>5 DEF Disposing
  <2>5. Phase'
    BY <1>7, <2>4 DEF Phase
  <2>6. \A m \in Array, q \in Slot : Used(m, q)' <=> Used(m, q)
    <3>1. \A m \in Array, q \in Slot : Used(m, q)' <=> m \in {mine, theirs} /\ pos_first[m] <= q /\ q < pos_end[m]
      BY <1>1, <1>2, <1>7, <2>1 DEF Used, Settled, heapVars
    <3> QED
      BY <1>5, <3>1
  <2>7. \A m \in Array, q \in Slot, v \in Elem : Names(m, q, v)' <=> Names(m, q, v)
    BY <1>1, <2>6 DEF Names, heapVars
  <2>8. Counted'
    BY <1>1, <1>2, <1>7, <2>7, StillCounted DEF InTemp, heapVars, Idle
  <2> QED
    BY <2>2, <2>5, <2>8 DEF ArgsInv
<1> QED
  BY <1>6, <1>7 DEF Unshare

-----------------------------------------------------------------------------
(* The beginning.                                                          *)

\* The invariant holds of a node as k_new has made it.
LEMMA ArgsBegins ==
  ASSUME ArgsInit
  PROVE  ArgsInv
<1>1. PICK s \in Lists(MAX_GARBAGE_ARG_LEN - POS_FIRST) :
        /\ a = [n \in Array |-> [p \in Slot |-> IF n = mine /\ p - POS_FIRST + 1 \in DOMAIN s
                                                 THEN s[p - POS_FIRST + 1] ELSE NULL]]
        /\ pos_end = [n \in Array |-> IF n = mine THEN POS_FIRST + Len(s) ELSE POS_FIRST]
        /\ refs = Bump([v \in Elem |-> 0], s)
  BY DEF ArgsInit
<1>2. /\ mine \in Array /\ pos_first = [n \in Array |-> POS_FIRST] /\ theirs = NULL /\ pc = "idle"
      /\ k = NULL /\ doomed = NULL /\ i = 0 /\ temp = <<>> /\ panicked = "no"
  BY DEF ArgsInit
<1>3. POS_FIRST \in Nat /\ MAX_GARBAGE_ARG_LEN \in Nat /\ POS_FIRST <= MAX_GARBAGE_ARG_LEN /\ NULL \notin Array
  BY ArgsAssumption DEF ArgsAssumption
<1>4. PICK L \in 0..(MAX_GARBAGE_ARG_LEN - POS_FIRST) : s \in [1..L -> Elem]
  BY <1>1 DEF Lists
<1>5. s \in Seq(Elem) /\ Len(s) = L /\ DOMAIN s = 1..L /\ L \in Nat /\ POS_FIRST + L <= MAX_GARBAGE_ARG_LEN
  <2>1. L \in Nat /\ POS_FIRST + L <= MAX_GARBAGE_ARG_LEN
    BY <1>3, <1>4
  <2>2. s \in Seq(Elem) /\ Len(s) = L /\ DOMAIN s = 1..L
    BY <1>4, <2>1
  <2> QED
    BY <2>1, <2>2
<1>6. ASSUME NEW p \in Slot PROVE p - POS_FIRST + 1 \in 1..L <=> POS_FIRST <= p /\ p < POS_FIRST + L
  BY <1>3, <1>5 DEF Slot
<1>7. \A v \in Elem : refs[v] = Count(s, v) /\ Count(s, v) \in Nat
  <2>1. \A v \in Elem : Count(s, v) \in Nat
    BY <1>5, CountNat
  <2>2. \A v \in Elem : refs[v] = 0 + Count(s, v)
    BY <1>1 DEF Bump
  <2> QED
    BY <2>1, <2>2
<1>8. /\ a \in [Array -> [Slot -> Elem \cup {NULL}]]
      /\ \A x \in 0..(L - 1) : POS_FIRST + x \in Slot /\ a[mine][POS_FIRST + x] = s[x + 1]
  <2>1. \A y \in 1..L : s[y] \in Elem
    BY <1>4
  <2>2. a \in [Array -> [Slot -> Elem \cup {NULL}]]
    BY <1>1, <1>5, <2>1
  <2>3. ASSUME NEW x \in 0..(L - 1)
        PROVE  POS_FIRST + x \in Slot /\ (POS_FIRST + x) - POS_FIRST + 1 = x + 1 /\ x + 1 \in 1..L
    BY <1>3, <1>5 DEF Slot
  <2> QED
    BY <1>1, <1>2, <1>5, <2>2, <2>3
<1>9. /\ pos_end[mine] = POS_FIRST + L /\ pos_first[mine] = POS_FIRST /\ k_num_args(mine) = L
      /\ \A n \in Array : pos_end[n] \in 0..MAX_GARBAGE_ARG_LEN /\ pos_first[n] <= pos_end[n]
  <2>1. POS_FIRST + L \in 0..MAX_GARBAGE_ARG_LEN /\ POS_FIRST <= POS_FIRST + L /\ (POS_FIRST + L) - POS_FIRST = L
        /\ POS_FIRST \in 0..MAX_GARBAGE_ARG_LEN
    BY <1>3, <1>5
  <2>2. pos_end = [n \in Array |-> IF n = mine THEN POS_FIRST + L ELSE POS_FIRST]
    BY <1>1, <1>5
  <2> QED
    BY <1>2, <2>1, <2>2 DEF k_num_args
<1>10. ArgsTypeOK
  <2>1. refs \in [Elem -> Int]
    <3>1. refs = [v \in Elem |-> [u \in Elem |-> 0][v] + Count(s, v)]
      BY <1>1 DEF Bump
    <3> QED
      BY <1>7, <3>1
  <2>2. pos_first \in [Array -> 0..MAX_GARBAGE_ARG_LEN]
    BY <1>2, <1>3
  <2>3. pos_end \in [Array -> 0..MAX_GARBAGE_ARG_LEN]
    BY <1>1, <1>9
  <2>4. temp \in Seq(Elem)
    BY <1>2
  <2> QED
    BY <1>2, <1>8, <1>9, <2>1, <2>2, <2>3, <2>4 DEF ArgsTypeOK
<1>11. Full(mine)
  <2>1. \A x \in 0..(L - 1) : x + 1 \in 1..L
    BY <1>5
  <2> QED
    BY <1>4, <1>8, <1>9, <2>1 DEF Full, Arg
<1>12. Phase
  BY <1>2, <1>11 DEF Phase
<1>13. ASSUME NEW v \in Elem PROVE Naming(v) = {} \cup Slice(mine, POS_FIRST, s, v)
  <2>1. ASSUME NEW n \in Array, NEW p \in Slot
        PROVE  Names(n, p, v) <=> InSlice(n, p, mine, POS_FIRST, s, v)
    <3>1. Used(n, p) <=> n = mine /\ POS_FIRST <= p /\ p < POS_FIRST + L
      BY <1>2, <1>3, <1>9 DEF Used
    <3>2. ASSUME n = mine, POS_FIRST <= p, p < POS_FIRST + L
          PROVE  a[n][p] = v <=> InSlice(n, p, mine, POS_FIRST, s, v)
      <4>1. PICK x \in 0..(L - 1) : p = POS_FIRST + x
        <5>1. p - POS_FIRST \in 0..(L - 1) /\ p = POS_FIRST + (p - POS_FIRST)
          BY <1>3, <1>5, <3>2 DEF Slot
        <5> QED
          BY <5>1
      <4>2. \A y \in 0..(L - 1) : p = POS_FIRST + y <=> y = x
        BY <1>3, <4>1
      <4> QED
        BY <1>5, <1>8, <3>2, <4>1, <4>2 DEF InSlice
    <3>3. InSlice(n, p, mine, POS_FIRST, s, v) => n = mine /\ POS_FIRST <= p /\ p < POS_FIRST + L
      <4>1. \A y \in 0..(L - 1) : POS_FIRST <= POS_FIRST + y /\ POS_FIRST + y < POS_FIRST + L
        BY <1>3, <1>5
      <4> QED
        BY <1>5, <4>1 DEF InSlice
    <3> QED
      BY <3>1, <3>2, <3>3 DEF Names
  <2>2. \A e : e \in Naming(v) <=> e \in Array \X Slot /\ Names(e[1], e[2], v)
    BY DEF Naming
  <2>3. \A e : e \in Slice(mine, POS_FIRST, s, v) <=> e \in Array \X Slot /\ InSlice(e[1], e[2], mine, POS_FIRST, s, v)
    BY DEF Slice
  <2>4. \A e \in Array \X Slot : e[1] \in Array /\ e[2] \in Slot
    OBVIOUS
  <2> QED
    BY <2>1, <2>2, <2>3, <2>4
<1>14. Counted
  <2> SUFFICES ASSUME NEW v \in Elem PROVE refs[v] = Cardinality(Naming(v)) + InTemp(v)
    BY DEF Counted
  <2>1. Cardinality({} \cup Slice(mine, POS_FIRST, s, v)) = Cardinality({}) + Count(s, v)
    <3>1. {} \in SUBSET (Array \X Slot) /\ {} \cap Slice(mine, POS_FIRST, s, v) = {}
      OBVIOUS
    <3>2. POS_FIRST + Len(s) <= MAX_GARBAGE_ARG_LEN
      BY <1>5
    <3> QED
      BY <1>2, <1>3, <1>5, <3>1, <3>2, SliceAdded
  <2>2. Cardinality({}) = 0
    BY FS_EmptySet
  <2>3. InTemp(v) = 0
    BY <1>2 DEF InTemp
  <2>4. Cardinality(Naming(v)) = 0 + Count(s, v)
    BY <1>13, <2>1, <2>2
  <2> QED
    BY <1>7, <2>3, <2>4
<1> QED
  BY <1>10, <1>12, <1>14 DEF ArgsInv

\* Every step keeps the invariant.
LEMMA ArgsStep ==
  ASSUME ArgsInv, [ArgsNext]_argVars
  PROVE  ArgsInv'
<1>1. CASE Begins
  <2>1. ASSUME NEW pos \in 0..MAX_GARBAGE_ARG_LEN, NEW over \in 0..MAX_GARBAGE_ARG_LEN,
               NEW s \in Lists(MaxElems), K_insert_elems(pos, over, s)
        PROVE  ArgsInv'
    <3>1. pos \in Nat /\ over \in Nat
      BY ArgsAssumption DEF ArgsAssumption
    <3> QED
      BY <2>1, <3>1, InsertBegins
  <2>2. ASSUME NEW left \in 0..MAX_GARBAGE_ARG_LEN, NEW right \in 0..MAX_GARBAGE_ARG_LEN,
               NEW always \in BOOLEAN, Trim(left, right, always)
        PROVE  ArgsInv'
    <3>1. left \in Nat /\ right \in Nat
      BY ArgsAssumption DEF ArgsAssumption
    <3> QED
      BY <2>2, <3>1, TrimBegins
  <2>3. ASSUME NEW x \in Slot, NEW v \in Elem, K_replace_arg(x, v)
        PROVE  ArgsInv'
    <3>1. x \in Nat
      BY ArgsAssumption DEF ArgsAssumption, Slot
    <3> QED
      BY <2>3, <3>1, ReplaceStep
  <2>4. ASSUME NEW v \in Elem, K_add_front_arg(v) PROVE ArgsInv'
    BY <2>4, AddFrontStep
  <2>5. Share => ArgsInv'
    BY ShareStep
  <2>6. Unshare => ArgsInv'
    BY UnshareStep
  <2> QED
    BY <1>1, <2>1, <2>2, <2>3, <2>4, <2>5, <2>6 DEF Begins
<1>2. CASE GoesOn
  BY <1>2, ResizeStep, OverwriteStep, TakeStep, PutStep, FillStep, DisposeStep, TrimStepStep DEF GoesOn
<1>3. CASE UNCHANGED argVars
  <2>1. panicked' = "assert" => TooLongToCopy
    BY <1>3 DEF argVars, ArgsInv, ArgsTypeOK
  <2> QED
    BY <1>3, <2>1, SameState DEF argVars, heapVars, callVars
<1> QED
  BY <1>1, <1>2, <1>3 DEF ArgsNext, Stopped

\* ArgsInv is an invariant.
THEOREM ArgsInductive == ArgsSpec => []ArgsInv
<1>1. ArgsInit => ArgsInv
  BY ArgsBegins
<1>2. ArgsInv /\ [ArgsNext]_argVars => ArgsInv'
  BY ArgsStep
<1> QED
  BY <1>1, <1>2, PTL DEF ArgsSpec

\* The only assertion that can fail is the one of _k_set_arg in a copy a call begins
\* with, of a node that grew in front and has more arguments than fit from slot
\* POS_FIRST.  No access of a call under way fails one.
THEOREM AccessesAlwaysHold == ArgsSpec => []AccessesHold
<1>1. ASSUME ArgsInv PROVE AccessesHold
  <2> SUFFICES ASSUME panicked = "assert"
               PROVE  pc = "idle" /\ pos_first[mine] < POS_FIRST /\ ~ Fits(k_num_args(mine))
    BY DEF AccessesHold
  <2>1. pc = "idle" /\ ~ Fits(k_num_args(mine))
    BY <1>1 DEF ArgsInv, ArgsTypeOK, TooLongToCopy
  <2>2. PICK f, e \in 0..MAX_GARBAGE_ARG_LEN : f = pos_first[mine] /\ e = pos_end[mine]
    BY <1>1 DEF ArgsInv, ArgsTypeOK
  <2>3. ~ POS_FIRST + (e - f) <= MAX_GARBAGE_ARG_LEN
    BY <2>1, <2>2 DEF Fits, k_num_args
  <2>4. f < POS_FIRST
    BY <2>3, ArgsAssumption DEF ArgsAssumption
  <2> QED
    BY <2>1, <2>2, <2>4
<1> QED
  BY <1>1, ArgsInductive, PTL

\* The arguments a node had when k_insert_elems_vararg began keep a reference until
\* it is through, as the first copy holds them.
THEOREM OverwrittenStayLiveHolds == ArgsSpec => []OverwrittenStayLive
<1>1. ASSUME ArgsInv PROVE OverwrittenStayLive
  <2> SUFFICES ASSUME pc \in {"overwrite", "take", "put", "fill"}, NEW v \in Range(before.mine)
               PROVE  refs[v] > 0
    BY DEF OverwrittenStayLive
  <2>1. ArgsTypeOK /\ Counted /\ Inserting
    BY <1>1, PhaseIs DEF ArgsInv
  <2>2. PICK n \in Array : n = doomed /\ n # k /\ n # NULL /\ Reads(n, Old)
    <3>1. NULL \notin Array
      BY ArgsAssumption DEF ArgsAssumption
    <3> QED
      BY <2>1, <3>1 DEF Inserting
  <2>3. PICK s \in Seq(Elem) : s = before.mine
    BY <2>1 DEF Inserting, Old
  <2>4. PICK L \in Nat : L = Len(s)
    BY <2>3
  <2>5. k_num_args(n) = L /\ \A x \in 0..(L - 1) : Arg(n, x) = s[x + 1]
    BY <2>2, <2>3, <2>4 DEF Reads, Old
  <2>6. PICK j \in 1..L : v = s[j]
    BY <2>3, <2>4 DEF Range
  <2>7. PICK x \in 0..(L - 1) : x + 1 = j
    <3>1. j - 1 \in 0..(L - 1) /\ (j - 1) + 1 = j
      BY <2>4
    <3> QED
      BY <3>1
  <2>8. PICK F \in Nat : F = pos_first[n]
    BY <2>1, WindowSlots
  <2>9. F + x \in Slot /\ F + x < pos_end[n]
    BY <2>1, <2>5, <2>8, WindowSlots
  <2>10. F <= F + x
    BY <2>8
  <2>11. v \in Elem
    BY <2>3, <2>4, <2>6
  <2>12. Names(n, F + x, v)
    BY <2>2, <2>5, <2>6, <2>7, <2>8, <2>9, <2>10 DEF Names, Used, Arg
  <2> QED
    BY <2>1, <2>9, <2>11, <2>12, CountedLive
<1> QED
  BY <1>1, ArgsInductive, PTL

\* Between calls the count of each argument is the number of slots in use that name it.
THEOREM SlotsAlwaysCounted == ArgsSpec => []SlotsCounted
<1>1. ASSUME ArgsInv PROVE SlotsCounted
  <2> SUFFICES ASSUME Idle, NEW v \in Elem
               PROVE  refs[v] = Cardinality({e \in {mine, theirs} \X Slot :
                        e[1] # NULL /\ e[2] >= pos_first[e[1]] /\ e[2] < pos_end[e[1]] /\ a[e[1]][e[2]] = v})
    BY DEF SlotsCounted, Idle
  <2>1. /\ Counted /\ ArgsTypeOK /\ NULL \notin Array /\ mine \in Array /\ theirs \in Array \cup {NULL} /\ InTemp(v) = 0
        /\ \A m \in Array, q \in Slot : Used(m, q) <=> /\ m \in {mine, theirs}
                                                       /\ pos_first[m] <= q /\ q < pos_end[m]
    BY <1>1, IdleWindows
  <2>2. Cardinality(Naming(v)) \in Nat
    BY NamingPairs, FS_CardinalityType
  <2>3. refs[v] = Cardinality(Naming(v))
    <3>1. refs[v] = Cardinality(Naming(v)) + 0
      BY <2>1 DEF Counted
    <3> QED
      BY <2>2, <3>1
  <2>4. PICK W : W = {e \in {mine, theirs} \X Slot :
                        e[1] # NULL /\ e[2] >= pos_first[e[1]] /\ e[2] < pos_end[e[1]] /\ a[e[1]][e[2]] = v}
    OBVIOUS
  <2>5. ASSUME NEW m \in Array, NEW q \in Slot
        PROVE  <<m, q>> \in W <=> Names(m, q, v)
    <3>1. m # NULL
      BY <2>1
    <3>2. PICK F \in Nat : F = pos_first[m]
      BY <2>1, WindowSlots
    <3>3. q >= F <=> F <= q
      OBVIOUS
    <3> QED
      BY <2>1, <2>4, <3>1, <3>2, <3>3 DEF Names
  <2>6. ASSUME NEW e PROVE e \in W <=> e \in Naming(v)
    <3>1. e \in W => e \in Array \X Slot
      BY <2>1, <2>4
    <3>2. e \in Naming(v) => e \in Array \X Slot
      BY DEF Naming
    <3>3. ASSUME e \in Array \X Slot PROVE e \in W <=> e \in Naming(v)
      <4>1. PICK m \in Array, q \in Slot : e = <<m, q>>
        BY <3>3
      <4> QED
        BY <2>5, <4>1, NamingPairs
    <3> QED
      BY <3>1, <3>2, <3>3
  <2>7. W = Naming(v)
    BY <2>6
  <2> QED
    BY <2>3, <2>4, <2>7
<1> QED
  BY <1>1, ArgsInductive, PTL

-----------------------------------------------------------------------------
(* What ArgSequence promises.                                              *)

\* The window of a node is a sequence that fits its array.
LEMMA WindowFits ==
  ASSUME NEW n \in Array, ArgsTypeOK, Full(n)
  PROVE  Window(n) \in Seq(Elem) /\ Len(Window(n)) <= MAX_GARBAGE_ARG_LEN
<1>1. Reads(n, Window(n))
  BY Windowed
<1>2. PICK M \in Nat : M = k_num_args(n)
  BY WindowSlots
<1>3. M <= MAX_GARBAGE_ARG_LEN
  BY <1>2, WindowSlots
<1> QED
  BY <1>1, <1>2, <1>3 DEF Reads

\* The caller of a call that is over sees no more arguments than an array has slots.
LEMMA SeenFits ==
  ASSUME ArgsInv, pc = "idle"
  PROVE  Seen.mine \in Seq(Elem) /\ Len(Seen.mine) <= MAX_GARBAGE_ARG_LEN
<1>1. ArgsTypeOK /\ mine \in Array /\ Full(mine)
  <2>1. ArgsTypeOK /\ mine \in Array /\ NULL \notin Array
    BY ArgsAssumption DEF ArgsInv, ArgsTypeOK, ArgsAssumption
  <2> QED
    BY <2>1, PhaseIs DEF ArgsInv
<1> QED
  BY <1>1, WindowFits DEF Seen

\* A change of what both owners see is the change of ArgSequence.
LEMMA BecomesPromised ==
  ASSUME NEW new, NEW inPlace \in BOOLEAN, Len(new) <= MAX_GARBAGE_ARG_LEN,
         Now'.mine = new, Now'.theirs = IF Now.shared /\ inPlace THEN new ELSE Now.theirs,
         Now'.shared = (Now.shared /\ inPlace), Now'.owned = Now.owned, panicked' = panicked
  PROVE  Promised!Becomes(new, inPlace)
  BY DEF Promised!Becomes

\* An insertion is a splice of ArgSequence.
LEMMA SplicedPromised ==
  ASSUME Spliced(Now, Now'), Len(Now'.mine) <= MAX_GARBAGE_ARG_LEN, panicked' = panicked
  PROVE  Promised!SeqNext
<1>1. PICK b : b = Now
  OBVIOUS
<1>2. PICK f : f = Now'
  OBVIOUS
<1>3. Spliced(b, f)
  BY <1>1, <1>2 DEF Spliced
<1>4. PICK pos \in 0..MAX_GARBAGE_ARG_LEN, over \in 0..MAX_GARBAGE_ARG_LEN, s \in Lists(MaxElems) :
        /\ pos + over <= Len(b.mine)
        /\ f.mine = SubSeq(b.mine, 1, pos) \o s \o SubSeq(b.mine, pos + over + 1, Len(b.mine))
        /\ f.theirs = IF b.shared /\ Len(s) = over THEN f.mine ELSE b.theirs
        /\ f.shared = (b.shared /\ Len(s) = over) /\ f.owned = b.owned
  BY <1>3 DEF Spliced
<1>5. PICK n \in 0..MaxElems : s \in [1..n -> Elem]
  BY <1>4 DEF Lists
<1>6. Promised!Becomes(f.mine, Len(s) = over)
  BY <1>1, <1>2, <1>4 DEF Promised!Becomes
<1>7. Promised!Splice(pos, over, s)
  BY <1>1, <1>4, <1>6 DEF Promised!Splice
<1> QED
  BY <1>5, <1>7 DEF Promised!SeqNext

\* A trim is one of ArgSequence.
LEMMA KeptPromised ==
  ASSUME Kept(Now, Now'), Now'.shared \in BOOLEAN, Len(Now'.mine) <= MAX_GARBAGE_ARG_LEN, panicked' = panicked
  PROVE  Promised!SeqNext
<1>1. PICK left \in 0..Len(Now.mine), right \in 0..Len(Now.mine) :
        /\ left <= right /\ Now'.mine = SubSeq(Now.mine, left + 1, right)
        /\ Now'.theirs = Now.theirs /\ ~ Now'.shared /\ Now'.owned = Now.owned
  BY DEF Kept
<1>2. Promised!Keep(left, right)
  BY <1>1 DEF Promised!Keep, Promised!Becomes
<1> QED
  BY <1>1, <1>2 DEF Promised!SeqNext

\* A step within a call, or the beginning of one, is none to the owners.
LEMMA WithinCall ==
  ASSUME panicked' = panicked, \/ pc' = "idle" /\ pc = "idle" /\ Seen' = Seen
                               \/ pc' # "idle" /\ pc # "idle" /\ before' = before
                               \/ pc' # "idle" /\ pc = "idle" /\ before' = Seen
  PROVE  UNCHANGED Promised!seqVars
<1>1. Now' = Now
  BY DEF Now
<1> QED
  BY <1>1 DEF Promised!seqVars

\* A call that stops the program changes nothing else.
LEMMA PanicPromised ==
  ASSUME NEW why, Panic(why), why # "no"
  PROVE  Promised!SeqNext
<1>1. Now' = Now
  BY DEF Now, Panic, Seen, Window, k_num_args, Arg, Shared
<1>2. Promised!Panic
  BY <1>1 DEF Promised!Panic, Panic
<1> QED
  BY <1>2 DEF Promised!SeqNext

\* Insertions and trims begin without the owners noticing.
LEMMA BeginsPromised ==
  ASSUME NEW n, NEW c, NEW at, Idle, at # "idle", Begin(c, n, at)
  PROVE  UNCHANGED Promised!seqVars
  BY WithinCall DEF Begin, Idle

\* The assertions hold, so that each step within a call is one the owners do
\* not notice.
LEMMA EditPromised ==
  ASSUME ArgsInv', Resize \/ Overwrite \/ Take \/ PutBack \/ Fill
  PROVE  [panicked = "no" /\ Promised!SeqNext]_(Promised!seqVars)
<1>1. panicked' # "assert"
  <2>1. panicked' = "assert" => pc' = "idle"
    BY DEF ArgsInv, ArgsTypeOK, TooLongToCopy
  <2> QED
    BY <2>1 DEF Resize, Overwrite, Take, PutBack, Fill, Running, Panic
<1>2. panicked = "no" /\ pc # "idle"
  BY DEF Resize, Overwrite, Take, PutBack, Fill, Running
<1>3. ASSUME panicked' = panicked, pc' # "idle", before' = before
      PROVE  UNCHANGED Promised!seqVars
  BY <1>2, <1>3, WithinCall
<1>4. CASE Resize
  <2>1. Panic("no room") => Promised!SeqNext
    BY PanicPromised
  <2> QED
    BY <1>2, <1>3, <1>4, <2>1 DEF Resize, callVars
<1>5. CASE Overwrite \/ Take \/ PutBack \/ Fill
  <2>1. panicked' = panicked /\ pc' # "idle" /\ before' = before
    BY <1>1, <1>2, <1>5 DEF Overwrite, Take, PutBack, Fill, callVars
  <2> QED
    BY <1>3, <2>1
<1> QED
  BY <1>4, <1>5

\* When it is over, the caller sees no more arguments than an array has slots.
LEMMA ThenFits ==
  ASSUME ArgsInv', pc' = "idle"
  PROVE  Len(Seen'.mine) <= MAX_GARBAGE_ARG_LEN
<1>1. ArgsTypeOK'
  BY DEF ArgsInv
<1>2. PICK n \in Array : n = mine'
  BY <1>1 DEF ArgsTypeOK
<1>3. PICK F \in Int : F = pos_first'[n] /\ F \in 0..MAX_GARBAGE_ARG_LEN
  BY <1>1 DEF ArgsTypeOK
<1>4. PICK E \in Int : E = pos_end'[n] /\ E \in 0..MAX_GARBAGE_ARG_LEN
  BY <1>1 DEF ArgsTypeOK
<1>5. F <= E
  BY <1>1, <1>3, <1>4 DEF ArgsTypeOK
<1>6. PICK M \in Nat : M = E - F /\ M <= MAX_GARBAGE_ARG_LEN
  <2>1. MAX_GARBAGE_ARG_LEN \in Nat
    BY ArgsAssumption DEF ArgsAssumption
  <2>2. E - F \in Nat /\ E - F <= MAX_GARBAGE_ARG_LEN
    BY <1>3, <1>4, <1>5, <2>1
  <2> QED
    BY <2>2
<1>7. Seen'.mine = [x \in 1..M |-> Arg(n, x - 1)']
  BY <1>2, <1>3, <1>4, <1>6 DEF Seen, Window, k_num_args, Arg
<1>8. Len(Seen'.mine) = M
  BY <1>7
<1> QED
  BY <1>6, <1>8

\* At its end the owners see what the call promised.
LEMMA DisposePromised ==
  ASSUME ArgsInv, ArgsInv', Dispose
  PROVE  [panicked = "no" /\ Promised!SeqNext]_(Promised!seqVars)
<1>1. panicked' # "assert"
  <2>1. panicked' = "assert" => pc' = "idle"
    BY DEF ArgsInv, ArgsTypeOK, TooLongToCopy
  <2> QED
    BY <2>1 DEF Dispose, Running, Panic
<1>2. panicked = "no" /\ pc = "dispose" /\ Disposing
  BY PhaseIs DEF Dispose, Running, ArgsInv
<1>3. Now = before
  BY <1>2 DEF Now
<1>4. CASE pc' # "idle"
  <2>1. panicked' = panicked /\ before' = before
    BY <1>1, <1>4 DEF Dispose, Panic, GiveUp, Return, callVars
  <2> QED
    BY <1>2, <1>4, <2>1, WithinCall
<1>5. CASE pc' = "idle"
  <2>1. mine' = k /\ UNCHANGED <<heapVars, theirs, panicked>>
    BY <1>1, <1>2, <1>5 DEF Dispose, Panic
  <2>2. Seen' = Final
    BY <2>1 DEF Seen, Final, Shared, Window, k_num_args, Arg, heapVars
  <2>3. Now' = Final
    BY <1>5, <2>2 DEF Now
  <2>4. Final.mine = Seen'.mine /\ Final.shared \in BOOLEAN
    BY <2>2 DEF Final
  <2>5. Len(Seen'.mine) <= MAX_GARBAGE_ARG_LEN
    BY <1>5, ThenFits
  <2>6. CASE Spliced(before, Final)
    <3>1. Spliced(Now, Now')
      BY <1>3, <2>3, <2>6 DEF Spliced
    <3> QED
      BY <1>2, <2>1, <2>3, <2>4, <2>5, <3>1, SplicedPromised
  <2>7. CASE Kept(before, Final)
    <3>1. Kept(Now, Now')
      BY <1>3, <2>3, <2>7 DEF Kept
    <3> QED
      BY <1>2, <2>1, <2>3, <2>4, <2>5, <3>1, KeptPromised
  <2>8. CASE before = Final
    <3>1. Now' = Now /\ panicked' = panicked
      BY <1>3, <2>1, <2>3, <2>8
    <3> QED
      BY <3>1 DEF Promised!seqVars
  <2> QED
    BY <1>2, <2>6, <2>7, <2>8 DEF Disposing
<1> QED
  BY <1>4, <1>5

\* Trimming, and its end.
LEMMA TrimPromised ==
  ASSUME ArgsInv, ArgsInv', TrimStep
  PROVE  [panicked = "no" /\ Promised!SeqNext]_(Promised!seqVars)
<1>1. panicked' # "assert"
  <2>1. panicked' = "assert" => pc' = "idle"
    BY DEF ArgsInv, ArgsTypeOK, TooLongToCopy
  <2> QED
    BY <2>1 DEF TrimStep, Running, Panic
<1>2. panicked = "no" /\ pc = "trim"
  BY DEF TrimStep, Running
<1>3. panicked' = panicked /\ (pc' # "idle" => before' = before)
  BY <1>1, <1>2 DEF TrimStep, Panic, GiveUp, Return, callVars
<1>4. CASE pc' # "idle"
  BY <1>2, <1>3, <1>4, WithinCall
<1>5. CASE pc' = "idle"
  <2>1. Kept(before, Seen')
    BY <1>5, TrimStepStep
  <2>2. Now = before /\ Now' = Seen'
    BY <1>2, <1>5 DEF Now
  <2>3. Kept(Now, Now')
    BY <2>1, <2>2 DEF Kept
  <2>4. Now'.shared \in BOOLEAN /\ Len(Now'.mine) <= MAX_GARBAGE_ARG_LEN
    <3>1. Seen'.shared \in BOOLEAN
      BY DEF Seen, Shared
    <3> QED
      BY <1>5, <2>2, <3>1, ThenFits
  <2> QED
    BY <1>2, <1>3, <2>3, <2>4, KeptPromised
<1> QED
  BY <1>4, <1>5

\* k_replace_arg and k_add_front_arg.
LEMMA RewrittenPromised ==
  ASSUME NEW new, NEW inPlace, ArgsInv, ArgsInv', Idle, pc' = "idle", panicked' = panicked, Seen' = Rewritten(new),
         inPlace = FALSE
  PROVE  Promised!Becomes(new, inPlace)
<1>1. Now = Seen /\ Now' = Seen'
  BY DEF Now, Idle
<1>2. Seen.shared \in BOOLEAN
  BY DEF Seen, Shared
<1>3. Seen'.mine = new /\ Seen'.theirs = Seen.theirs /\ Seen'.owned = Seen.owned /\ Seen'.shared = FALSE
  BY DEF Rewritten
<1>4. Len(new) <= MAX_GARBAGE_ARG_LEN
  BY <1>3, ThenFits
<1> QED
  BY <1>1, <1>2, <1>3, <1>4, BecomesPromised

\* k_set_arg and k_replace_arg put one argument.
LEMMA ReplacePromised ==
  ASSUME NEW x \in Slot, NEW v \in Elem, ArgsInv, ArgsInv', K_replace_arg(x, v)
  PROVE  Promised!SeqNext
<1>1. x \in Nat /\ x + 1 \in 1..MAX_GARBAGE_ARG_LEN
  BY ArgsAssumption DEF ArgsAssumption, Slot
<1>2. Idle /\ x < k_num_args(mine)
  BY DEF K_replace_arg
<1>3. CASE CopyFails
  BY <1>3, PanicPromised DEF CopyFails
<1>4. CASE panicked' = panicked /\ pc' = pc
  <2>1. Seen' = Rewritten([Window(mine) EXCEPT ![x + 1] = v])
    BY <1>1, <1>2, <1>4, ReplaceStep DEF Idle
  <2>2. Now.mine = Window(mine)
    BY <1>2 DEF Now, Seen, Idle
  <2>3. x + 1 \in DOMAIN Window(mine)
    <3>1. PICK M \in Nat : M = k_num_args(mine)
      BY <1>2, IdleWindows, WindowSlots
    <3>2. x + 1 \in 1..M
      BY <1>1, <1>2, <3>1
    <3> QED
      BY <3>1, <3>2 DEF Window
  <2>4. PICK n \in 1..MAX_GARBAGE_ARG_LEN : n = x + 1
    BY <1>1
  <2>5. Promised!Becomes([Now.mine EXCEPT ![n] = v], FALSE)
    BY <1>2, <1>4, <2>1, <2>2, <2>4, RewrittenPromised DEF Idle
  <2>6. Promised!Put(n, v)
    BY <2>2, <2>3, <2>4, <2>5 DEF Promised!Put
  <2> QED
    BY <2>6 DEF Promised!SeqNext
<1> QED
  BY <1>3, <1>4 DEF K_replace_arg

\* k_add_front_arg puts an argument in front.
LEMMA AddFrontPromised ==
  ASSUME NEW v \in Elem, ArgsInv, ArgsInv', K_add_front_arg(v)
  PROVE  Promised!SeqNext
<1>1. Idle /\ ~ Shared
  BY DEF K_add_front_arg
<1>2. CASE Panic("no room")
  BY <1>2, PanicPromised
<1>3. CASE panicked' = panicked /\ pc' = pc
  <2>1. Seen' = Rewritten(<<v>> \o Window(mine))
    BY <1>1, <1>3, AddFrontStep DEF Idle
  <2>2. Now.mine = Window(mine) /\ ~ Now.shared
    BY <1>1 DEF Now, Seen, Idle
  <2>3. Promised!Becomes(<<v>> \o Now.mine, FALSE)
    BY <1>1, <1>3, <2>1, <2>2, RewrittenPromised DEF Idle
  <2>4. Promised!AddFront(v)
    BY <2>2, <2>3 DEF Promised!AddFront
  <2> QED
    BY <2>4 DEF Promised!SeqNext
<1> QED
  BY <1>2, <1>3 DEF K_add_front_arg

\* Another owner takes hold of the node.
LEMMA SharePromised ==
  ASSUME ArgsInv, Share
  PROVE  Promised!SeqNext
<1>1. /\ Idle /\ pc = "idle" /\ pc' = "idle" /\ panicked' = panicked /\ theirs = NULL /\ theirs' = mine /\ mine' = mine
      /\ UNCHANGED heapVars
  BY DEF Share, Idle
<1>2. mine # NULL
  BY <1>1, IdleWindows
<1>3. Window(mine)' = Window(mine) /\ Window(theirs)' = Window(mine)
  BY <1>1 DEF Window, k_num_args, Arg, heapVars
<1>4. Now = [mine |-> Window(mine), theirs |-> <<>>, owned |-> FALSE, shared |-> FALSE]
  BY <1>1, <1>2 DEF Now, Seen, Shared
<1>5. Now' = [mine |-> Window(mine), theirs |-> Window(mine), owned |-> TRUE, shared |-> TRUE]
  BY <1>1, <1>2, <1>3 DEF Now, Seen, Shared
<1>6. Promised!Share
  BY <1>1, <1>4, <1>5 DEF Promised!Share
<1> QED
  BY <1>6 DEF Promised!SeqNext

\* The other owner sees nothing any more, at once, although the node is disposed of
\* slot by slot.
LEMMA UnsharePromised ==
  ASSUME ArgsInv, Unshare
  PROVE  Promised!SeqNext
<1>1. Idle /\ pc = "idle" /\ panicked' = panicked /\ theirs # NULL /\ theirs' = NULL /\ mine' = mine /\ UNCHANGED heapVars
  BY DEF Unshare, Idle
<1>2. mine # NULL
  BY <1>1, IdleWindows
<1>3. Window(mine)' = Window(mine)
  BY <1>1 DEF Window, k_num_args, Arg, heapVars
<1>4. Now.mine = Window(mine) /\ Now.owned = TRUE
  BY <1>1 DEF Now, Seen
<1>5. Now' = [mine |-> Window(mine), theirs |-> <<>>, owned |-> FALSE, shared |-> FALSE]
  <2>1. CASE Shared
    <3>1. pc' = "idle"
      BY <1>1, <2>1 DEF Unshare, Idle
    <3> QED
      BY <1>1, <1>2, <1>3, <3>1 DEF Now, Seen, Shared
  <2>2. CASE ~ Shared
    <3>1. pc' = "dispose" /\ before' = [Seen EXCEPT !.theirs = <<>>, !.owned = FALSE]
      BY <2>2 DEF Unshare
    <3>2. Seen = [mine |-> Window(mine), theirs |-> Window(theirs), owned |-> TRUE, shared |-> FALSE]
      BY <1>1, <2>2 DEF Seen, Shared
    <3>3. before' = [mine |-> Window(mine), theirs |-> <<>>, owned |-> FALSE, shared |-> FALSE]
      BY <3>1, <3>2
    <3> QED
      BY <3>1, <3>3 DEF Now
  <2> QED
    BY <2>1, <2>2
<1>6. Promised!Unshare
  BY <1>1, <1>4, <1>5 DEF Promised!Unshare
<1> QED
  BY <1>6 DEF Promised!SeqNext

\* Every step is one that ArgSequence takes, or none.
LEMMA StepPromised ==
  ASSUME ArgsInv, ArgsInv', [ArgsNext]_argVars
  PROVE  [panicked = "no" /\ Promised!SeqNext]_(Promised!seqVars)
<1>1. CASE Begins
  <2>0. panicked = "no"
    BY <1>1 DEF Begins, K_insert_elems, Trim, K_replace_arg, K_add_front_arg, Share, Unshare, Idle
  <2>1. ASSUME NEW pos, NEW over, NEW s, K_insert_elems(pos, over, s)
        PROVE  [panicked = "no" /\ Promised!SeqNext]_(Promised!seqVars)
    <3>1. CopyFails => Promised!SeqNext
      BY PanicPromised DEF CopyFails
    <3>2. Idle
      BY <2>1 DEF K_insert_elems
    <3> QED
      BY <2>0, <2>1, <3>1, <3>2, BeginsPromised DEF K_insert_elems
  <2>2. ASSUME NEW left, NEW right, NEW always, Trim(left, right, always)
        PROVE  [panicked = "no" /\ Promised!SeqNext]_(Promised!seqVars)
    <3>1. CopyFails => Promised!SeqNext
      BY PanicPromised DEF CopyFails
    <3>2. Idle
      BY <2>2 DEF Trim
    <3>3. ASSUME NEW c, NEW n, Begin(c, n, "trim") PROVE UNCHANGED Promised!seqVars
      BY <3>2, <3>3, BeginsPromised
    <3> QED
      BY <2>0, <2>2, <3>1, <3>3 DEF Trim
  <2>3. ASSUME NEW x \in Slot, NEW v \in Elem, K_replace_arg(x, v) PROVE Promised!SeqNext
    BY <2>3, ReplacePromised
  <2>4. ASSUME NEW v \in Elem, K_add_front_arg(v) PROVE Promised!SeqNext
    BY <2>4, AddFrontPromised
  <2>5. Share => Promised!SeqNext
    BY SharePromised
  <2>6. Unshare => Promised!SeqNext
    BY UnsharePromised
  <2> QED
    BY <1>1, <2>0, <2>1, <2>2, <2>3, <2>4, <2>5, <2>6 DEF Begins
<1>2. CASE GoesOn
  BY <1>2, EditPromised, DisposePromised, TrimPromised DEF GoesOn
<1>3. CASE UNCHANGED argVars
  <2>1. Now' = Now /\ panicked' = panicked
    BY <1>3 DEF Now, Seen, Window, k_num_args, Arg, Shared, argVars, heapVars, callVars
  <2> QED
    BY <2>1 DEF Promised!seqVars
<1> QED
  BY <1>1, <1>2, <1>3 DEF ArgsNext, Stopped

\* A new node is a sequence.
LEMMA InitPromised ==
  ASSUME ArgsInit
  PROVE  Promised!SeqInit
<1>1. ArgsInv /\ pc = "idle" /\ theirs = NULL /\ panicked = "no"
  BY ArgsBegins DEF ArgsInit
<1>2. Seen.mine \in Seq(Elem) /\ Len(Seen.mine) <= MAX_GARBAGE_ARG_LEN
  BY <1>1, SeenFits
<1>3. PICK s \in Seq(Elem) : s = Seen.mine /\ Len(s) <= MAX_GARBAGE_ARG_LEN
  BY <1>2
<1>4. PICK n \in 0..MAX_GARBAGE_ARG_LEN : s \in [1..n -> Elem]
  <2>1. Len(s) \in 0..MAX_GARBAGE_ARG_LEN /\ s \in [1..Len(s) -> Elem]
    BY <1>3, ArgsAssumption DEF ArgsAssumption
  <2> QED
    BY <2>1
<1>5. mine \in Array /\ NULL \notin Array
  BY <1>1, IdleWindows DEF Idle
<1>6. Now = [mine |-> s, theirs |-> <<>>, owned |-> FALSE, shared |-> FALSE]
  BY <1>1, <1>3, <1>5 DEF Now, Seen, Shared
<1> QED
  BY <1>1, <1>4, <1>6 DEF Promised!SeqInit

\* The slots implement the sequences of ArgSequence: a call is one step of theirs,
\* taken when it returns.
THEOREM SlotsKeepPromise == ArgsSpec => KeepsPromise
<1>1. ArgsInit => Promised!SeqInit
  BY InitPromised
<1>2. ArgsInv /\ ArgsInv' /\ [ArgsNext]_argVars => [~ (panicked # "no") /\ Promised!SeqNext]_(Promised!seqVars)
  BY StepPromised
<1> QED
  BY <1>1, <1>2, ArgsInductive, PTL DEF ArgsSpec, KeepsPromise, Promised!SeqSpec
=============================================================================
