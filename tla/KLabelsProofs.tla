--------------------------- MODULE KLabelsProofs ----------------------------
(***************************************************************************)
(* Proofs about KLabels, for every heap and every set of labels.  When     *)
(* callers share only nodes whose label is a symbol, a live node keeps the *)
(* label it was made with; and whatever they share, the labels change      *)
(* nothing about the heap.                                                 *)
(***************************************************************************)
EXTENDS KLabels, KHeapProofs

-----------------------------------------------------------------------------
(* The inductive invariant.                                                *)

LabelTypes ==
  /\ klabel \in [Node -> Label \cup {NoLabel}]
  /\ given \in [Node -> Value \cup {NoLabel}]
  /\ garbage_label \in Seq(Label) /\ labels \in SUBSET Label
  /\ content \in [Label -> Value \cup {NoLabel}]
  /\ symbolLabels \in [Symbol -> Label \cup {NoLabel}]

InUse == labels \ Range(garbage_label)

\* A label is on the free list once: it is not handed out twice.
ListedOnce == \A l \in Label : Occ(garbage_label, l) <= 1

\* The labels of symbols are kept for ever.
SymbolsKept ==
  \A s \in Symbol : symbolLabels[s] # NoLabel =>
    symbolLabels[s] \in InUse /\ content[symbolLabels[s]] = s

\* A node that still has its label to give back has one to give back.  (When
\* the program stops in dispose_k_itself the label has been given back.)
Using(k) == Live(k) \/ (panicked = "no" /\ Carries(k))
UsersLabelled ==
  \A k \in Node : Using(k) => klabel[k] \in InUse /\ content[klabel[k]] \in Value

\* The label of a string or an integer belongs to one node.
LiteralsUnshared ==
  \A j, k \in Node : Using(j) /\ Using(k) /\ j # k /\ klabel[j] = klabel[k] => IsSymbol(klabel[k])

TablesInv == ListedOnce /\ SymbolsKept
UsersInv  == UsersLabelled /\ LiteralsUnshared /\ LabelsIntact
LabelInv  == LabelTypes /\ TablesInv /\ UsersInv

-----------------------------------------------------------------------------
(* The heap under the labels.                                              *)

\* Whatever happens to labels, a step is a step of the heap or leaves it alone.
LEMMA LabelledStepIsCall ==
  ASSUME IInv, [LbNext]_lbVars
  PROVE  [Next]_vars
<1>1. ArgLists(MAX_GARBAGE_ARG_LEN) \subseteq ArgLists(MAX_GARBAGE_ARG_LEN + 1)
  BY HeapAssumption DEF HeapAssumption, ArgLists
<1>2. ASSUME NEW v \in Value, NEW l \in Label, NEW s \in ArgLists(MAX_GARBAGE_ARG_LEN), New(v, l, s)
      PROVE  Next
  BY <1>1, <1>2 DEF New, Next
<1>3. ASSUME NEW k \in Node, NEW s \in ArgLists(MAX_GARBAGE_ARG_LEN), NewBound(k, s)
      PROVE  Next
  BY <1>1, <1>3 DEF NewBound, Next
<1>4. ASSUME NEW k \in Node, Copying(k)
      PROVE  Next
  <2>1. CASE K_without_first_n_arg(k, 0)
    <3>1. 0 \in 0..MAX_GARBAGE_ARG_LEN
      BY HeapAssumption DEF HeapAssumption
    <3> QED
      BY <2>1, <3>1, EditIsCall DEF Edit
  <2>2. ASSUME NEW i \in DOMAIN args[k], NEW v \in Node, K_replace_arg(k, i, v)
        PROVE  Next
    BY <2>2, AssignIsCall
  <2>3. CASE UpdateTrimArgs(k, 1, Len(args[k]))
    BY <2>3, TrimIsCall
  <2>4. ASSUME NEW pos \in 0..MAX_GARBAGE_ARG_LEN, NEW count \in 0..MAX_GARBAGE_ARG_LEN,
               NEW s \in ArgLists(MAX_GARBAGE_ARG_LEN), K_insert_elems(k, pos, count, s)
        PROVE  Next
    BY <2>4, EditIsCall DEF Edit
  <2> QED
    BY <1>4, <2>1, <2>2, <2>3, <2>4 DEF Copying
<1>5. ASSUME NEW k \in Node, NEW v \in Symbol, NEW l \in Label, K_set_label(k, v, l)
      PROVE  UNCHANGED vars
  BY <1>5 DEF K_set_label
<1>6. CASE Dispose_aux
  BY <1>6 DEF Dispose_aux, Next, Cascade
<1>7. CASE Unlabelled
  <2>1. ASSUME NEW k \in Node, NEW v \in Node, K_add_front_arg(k, v)
        PROVE  Next
    BY <2>1, EditIsCall DEF Edit
  <2>2. ASSUME NEW k \in Node, NEW v \in Node, NEW i \in DOMAIN args[k], K_set_arg(k, i, v)
        PROVE  Next
    BY <2>2, AssignIsCall
  <2> QED
    BY <1>7, <2>1, <2>2 DEF Unlabelled, Next, Cascade
<1>8. CASE Stopped
  BY <1>8 DEF Stopped
<1>9. CASE UNCHANGED lbVars
  BY <1>9 DEF lbVars
<1> QED
  BY <1>2, <1>3, <1>4, <1>5, <1>6, <1>7, <1>8, <1>9 DEF LbNext

\* Labelled programs run on the heap: KLabels implements KHeap.
THEOREM LabelsUseHeap == LbSpec => Spec
<1>1. LbInit => Init
  BY DEF LbInit
<1>2. Init => IInv
  BY InitInv
<1>3. IInv /\ [LbNext]_lbVars => [Next]_vars /\ IInv'
  BY LabelledStepIsCall, NextInv
<1> QED
  BY <1>1, <1>2, <1>3, PTL DEF LbSpec, Spec

-----------------------------------------------------------------------------
(* Tables of labels.                                                       *)

\* _new_label returns a label that is not in use, and takes it off the list.
LEMMA TakeFresh ==
  ASSUME LabelTypes, ListedOnce, NEW l \in Label, NEW v \in Value, Take(l, v)
  PROVE  /\ garbage_label' \in Seq(Label) /\ labels' \in SUBSET Label
         /\ content' \in [Label -> Value \cup {NoLabel}]
         /\ ListedOnce' /\ InUse' = InUse \cup {l} /\ l \notin InUse
         /\ \A m \in Label : content'[m] = IF m = l THEN v ELSE content[m]
<1>1. garbage_label \in Seq(Label) /\ labels \in SUBSET Label
      /\ content \in [Label -> Value \cup {NoLabel}]
  BY DEF LabelTypes
<1>2. /\ garbage_label' = Popped(garbage_label) /\ labels' = labels \cup {l}
      /\ content' = [content EXCEPT ![l] = v] /\ CanTake(l)
  BY DEF Take
<1>3. CASE garbage_label = <<>>
  <2>1. l \notin labels /\ garbage_label' = garbage_label /\ Range(garbage_label) = {}
    BY <1>2, <1>3 DEF CanTake, Popped, Range
  <2> QED
    BY <1>1, <1>2, <2>1 DEF InUse, ListedOnce
<1>4. CASE garbage_label # <<>>
  <2> DEFINE q == Popped(garbage_label)
  <2>1. q \in Seq(Label) /\ garbage_label = Append(q, l)
    BY <1>1, <1>2, <1>4, PopSplit DEF CanTake
  <2> HIDE DEF q
  <2>2. \A m : Occ(Append(q, l), m) = Occ(q, m) + IF m = l THEN 1 ELSE 0
    BY <2>1, OccAppend
  <2>3. ASSUME NEW m \in Label
        PROVE  /\ Occ(q, m) \in Nat /\ Occ(q, m) <= 1
               /\ m \in Range(q) <=> m \in Range(garbage_label) /\ m # l
    <3>1. /\ Occ(garbage_label, m) = Occ(q, m) + IF m = l THEN 1 ELSE 0
          /\ Occ(garbage_label, m) <= 1
      BY <2>1, <2>2, Zenon DEF ListedOnce
    <3>2. /\ Occ(q, m) \in Nat /\ (Occ(q, m) = 0 <=> m \notin Range(q))
          /\ (Occ(garbage_label, m) = 0 <=> m \notin Range(garbage_label))
      BY <1>1, <2>1, OccNat
    <3> QED
      BY <3>1, <3>2
  <2>4. garbage_label' = q
    BY <1>2 DEF q
  <2>5. l \in Range(garbage_label)
    <3>1. Occ(Append(q, l), l) # 0
      <4>1. Occ(q, l) \in Nat
        BY <2>3
      <4> QED
        BY <2>2, <4>1
    <3> QED
      BY <1>1, <2>1, <3>1, OccNat
  <2> QED
    BY <1>1, <1>2, <2>1, <2>3, <2>4, <2>5 DEF InUse, ListedOnce
<1> QED
  BY <1>3, <1>4

\* StringLabel, Int64Label and SymbolLabel return a label in use, a new one for
\* a string or an integer, and leave the others as they are.
LEMMA LabelForStep ==
  ASSUME LabelTypes, TablesInv, NEW l \in Label, NEW v \in Value, LabelFor(v, l)
  PROVE  /\ garbage_label' \in Seq(Label) /\ labels' \in SUBSET Label
         /\ content' \in [Label -> Value \cup {NoLabel}]
         /\ symbolLabels' \in [Symbol -> Label \cup {NoLabel}]
         /\ TablesInv'
         /\ l \in InUse' /\ content'[l] = v
         /\ v \in Literal => l \notin InUse
         /\ \A m \in InUse : m \in InUse' /\ content'[m] = content[m]
<1>1. /\ garbage_label \in Seq(Label) /\ labels \in SUBSET Label
      /\ content \in [Label -> Value \cup {NoLabel}]
      /\ symbolLabels \in [Symbol -> Label \cup {NoLabel}] /\ ListedOnce
      /\ InUse \subseteq Label /\ Symbol \cap Literal = {} /\ NoLabel \notin Label
  BY LabelAssumption DEF LabelTypes, TablesInv, InUse, LabelAssumption
<1>2. ASSUME v \in Symbol, symbolLabels[v] = l, l # NoLabel, Found
      PROVE  /\ UNCHANGED <<garbage_label, labels, content, symbolLabels>>
             /\ l \in InUse /\ content[l] = v /\ TablesInv'
  <2>1. UNCHANGED <<garbage_label, labels, content, symbolLabels>>
    BY <1>2 DEF Found
  <2>2. l \in InUse /\ content[l] = v
    BY <1>2 DEF TablesInv, SymbolsKept
  <2>3. TablesInv'
    BY <2>1 DEF TablesInv, ListedOnce, SymbolsKept, InUse
  <2> QED
    BY <2>1, <2>2, <2>3
<1>3. ASSUME Take(l, v), symbolLabels' \in [Symbol -> Label \cup {NoLabel}],
             \A s \in Symbol : symbolLabels'[s] = symbolLabels[s] \/ (symbolLabels'[s] = l /\ s = v)
      PROVE  TablesInv'
  <2>1. /\ ListedOnce' /\ InUse' = InUse \cup {l} /\ l \notin InUse
        /\ \A m \in Label : content'[m] = IF m = l THEN v ELSE content[m]
    BY <1>1, <1>3, TakeFresh
  <2>2. \A s \in Symbol : symbolLabels[s] # NoLabel => symbolLabels[s] \in InUse /\ content[symbolLabels[s]] = s
    BY DEF TablesInv, SymbolsKept
  <2>3. SymbolsKept'
    BY <1>1, <1>3, <2>1, <2>2 DEF SymbolsKept
  <2> QED
    BY <2>1, <2>3 DEF TablesInv
<1>4. CASE v \in Literal /\ Take(l, v) /\ UNCHANGED symbolLabels
  <2>1. TablesInv'
    BY <1>1, <1>3, <1>4
  <2> QED
    BY <1>1, <1>4, <2>1, TakeFresh
<1>5. CASE v \in Symbol /\ symbolLabels[v] = l /\ l # NoLabel /\ Found
  BY <1>1, <1>2, <1>5 DEF InUse
<1>6. CASE /\ v \in Symbol /\ symbolLabels[v] = NoLabel
           /\ Take(l, v) /\ symbolLabels' = [symbolLabels EXCEPT ![v] = l]
  <2>1. TablesInv' /\ symbolLabels' \in [Symbol -> Label \cup {NoLabel}]
    BY <1>1, <1>3, <1>6
  <2> QED
    BY <1>1, <1>6, <2>1, TakeFresh
<1> QED
  BY <1>4, <1>5, <1>6 DEF LabelFor

-----------------------------------------------------------------------------
(* Users of labels.                                                        *)

\* Between calls the nodes in use are those in the hands of callers, and no
\* call but the last one leaves a panic behind.
LEMMA UsersBetweenCalls ==
  ASSUME Idle, NEW k \in Node
  PROVE  /\ Using(k) <=> Carries(k)
         /\ Live(k) <=> Carries(k)
         /\ Using(k)' => Carries(k)'
         /\ Live(k)' => Carries(k)'
<1>1. work = <<>> /\ panicked = "no"
  BY DEF Idle
<1>2. AuxOf(k) \notin Range(work)
  BY <1>1 DEF Range
<1> QED
  BY <1>1, <1>2 DEF Using, Live, Dead, Carries

\* A call that gives every node it acquires the label l, whose value is v, and
\* leaves the labels in use alone, keeps users labelled.
LEMMA LabelsStep ==
  ASSUME LabelInv, Idle, NEW l, NEW v \in Value, Labels(l, v),
         labels' \subseteq Label,
         l \in InUse', content'[l] = v,
         \A m \in InUse : m \in InUse' /\ content'[m] = content[m],
         v \in Literal => l \notin InUse,
         v \in Literal => \A j, k \in Taken : j = k
  PROVE  /\ klabel' \in [Node -> Label \cup {NoLabel}]
         /\ given' \in [Node -> Value \cup {NoLabel}]
         /\ UsersInv'
<1>1. /\ l \in Label
      /\ klabel \in [Node -> Label \cup {NoLabel}] /\ given \in [Node -> Value \cup {NoLabel}]
  BY DEF LabelInv, LabelTypes, InUse
<1>2. /\ klabel' = [n \in Node |-> IF n \in Taken THEN l ELSE klabel[n]]
      /\ given' = [n \in Node |-> IF n \in Taken THEN v ELSE given[n]]
  BY DEF Labels
<1>3. /\ klabel' \in [Node -> Label \cup {NoLabel}]
      /\ given' \in [Node -> Value \cup {NoLabel}]
  BY <1>1, <1>2
<1>4. ASSUME NEW k \in Node, Carries(k)', k \notin Taken
      PROVE  /\ Using(k) /\ Live(k) /\ klabel'[k] = klabel[k] /\ given'[k] = given[k]
             /\ klabel[k] \in InUse /\ content[klabel[k]] \in Value
             /\ klabel'[k] \in InUse' /\ content'[klabel'[k]] = content[klabel[k]]
             /\ content[klabel[k]] = given[k]
  <2>1. Carries(k)
    BY <1>4 DEF Taken
  <2>2. Using(k) /\ Live(k)
    BY <2>1, UsersBetweenCalls
  <2>3. klabel'[k] = klabel[k] /\ given'[k] = given[k]
    BY <1>2, <1>4
  <2>4. klabel[k] \in InUse /\ content[klabel[k]] \in Value /\ content[klabel[k]] = given[k]
    BY <2>2 DEF LabelInv, UsersInv, UsersLabelled, LabelsIntact
  <2> QED
    BY <2>2, <2>3, <2>4
<1>5. ASSUME NEW k \in Taken
      PROVE  klabel'[k] = l /\ given'[k] = v /\ content'[klabel'[k]] = v /\ klabel'[k] \in InUse'
  BY <1>2 DEF Taken
<1>6. UsersLabelled'
  <2> SUFFICES ASSUME NEW k \in Node, Using(k)'
               PROVE  klabel'[k] \in InUse' /\ content'[klabel'[k]] \in Value
    BY DEF UsersLabelled
  <2>1. Carries(k)'
    BY UsersBetweenCalls
  <2> QED
    BY <1>4, <1>5, <2>1
<1>7. LabelsIntact'
  <2> SUFFICES ASSUME NEW k \in Node, Live(k)'
               PROVE  klabel'[k] \in InUse' /\ content'[klabel'[k]] = given'[k]
    BY DEF LabelsIntact, InUse
  <2>1. Carries(k)'
    BY UsersBetweenCalls
  <2> QED
    BY <1>4, <1>5, <2>1
<1>8. LiteralsUnshared'
  <2> SUFFICES ASSUME NEW j \in Node, NEW k \in Node, Using(j)', Using(k)', j # k, klabel'[j] = klabel'[k]
               PROVE  content'[klabel'[k]] \in Symbol
    BY DEF LiteralsUnshared, IsSymbol
  <2>1. Carries(j)' /\ Carries(k)'
    BY UsersBetweenCalls
  <2>2. CASE j \in Taken /\ k \in Taken
    BY <1>5, <2>2 DEF Value
  <2>3. CASE j \in Taken /\ k \notin Taken
    BY <1>4, <1>5, <2>1, <2>3 DEF Value
  <2>4. CASE j \notin Taken /\ k \in Taken
    BY <1>4, <1>5, <2>1, <2>4 DEF Value
  <2>5. CASE j \notin Taken /\ k \notin Taken
    BY <1>4, <2>1, <2>5 DEF LabelInv, UsersInv, LiteralsUnshared, IsSymbol
  <2> QED
    BY <2>2, <2>3, <2>4, <2>5
<1> QED
  BY <1>3, <1>6, <1>7, <1>8 DEF UsersInv

\* k_new acquires one node, or none if it stops.
LEMMA NewTakesOne ==
  ASSUME IInv, NEW s, K_new(s)
  PROVE  \A j, k \in Taken : j = k
<1>1. Idle /\ work = <<>>
  BY DEF K_new, Idle
<1>2. CASE \E why : Stop(why)
  BY <1>2 DEF Stop, Taken, Carries
<1>3. ASSUME NEW n \in Node, CanAcquire(garbage_k, mallocd, n),
             garbage_k' = Popped(garbage_k), mallocd' = mallocd \cup {n}
      PROVE  Taken \subseteq {n}
  <2>1. garbage_k \in Seq(Node) /\ mallocd \in SUBSET Node
    BY DEF IInv, TypeOK
  <2>2. \A x \in Node : /\ Occ(garbage_k, x) = IF x \in Range(garbage_k) THEN 1 ELSE 0
                        /\ x \in Range(garbage_k) => x \in mallocd
    BY <1>1, PoolOnce
  <2>3. \A x \in Node : x \in Range(Popped(garbage_k)) <=> x \in Range(garbage_k) /\ x # n
    BY <1>3, <2>1, <2>2, Acquire
  <2> QED
    BY <1>3, <2>3 DEF Taken, Carries
<1>4. \/ \E why : Stop(why)
      \/ \E n \in Node : /\ CanAcquire(garbage_k, mallocd, n)
                         /\ garbage_k' = Popped(garbage_k) /\ mallocd' = mallocd \cup {n}
  BY DEF K_new
<1> QED
  BY <1>2, <1>3, <1>4

LEMMA NewLabelled ==
  ASSUME IInv, LabelInv, NEW v \in Value, NEW l \in Label, NEW s, New(v, l, s)
  PROVE  LabelInv'
<1>1. LabelFor(v, l) /\ K_new(s) /\ Labels(l, v) /\ LabelTypes /\ TablesInv /\ Idle
  BY DEF New, LabelInv, K_new
<1>2. /\ garbage_label' \in Seq(Label) /\ labels' \in SUBSET Label
      /\ content' \in [Label -> Value \cup {NoLabel}]
      /\ symbolLabels' \in [Symbol -> Label \cup {NoLabel}]
      /\ TablesInv'
      /\ l \in InUse' /\ content'[l] = v
      /\ v \in Literal => l \notin InUse
      /\ \A m \in InUse : m \in InUse' /\ content'[m] = content[m]
  BY <1>1, LabelForStep
<1>3. \A j, k \in Taken : j = k
  BY <1>1, NewTakesOne
<1>4. /\ klabel' \in [Node -> Label \cup {NoLabel}]
      /\ given' \in [Node -> Value \cup {NoLabel}]
      /\ UsersInv'
  BY <1>1, <1>2, <1>3, LabelsStep
<1> QED
  BY <1>2, <1>4 DEF LabelInv, LabelTypes

\* Copies, and nodes built with a bound label, share the label of a symbol.
LEMMA SharedLabelled ==
  ASSUME LabelInv, ~ Sharing, NEW k \in Node, Idle, Live(k), MayShare(k),
         Labels(klabel[k], content[klabel[k]]), Found
  PROVE  LabelInv'
<1>1. UNCHANGED <<garbage_label, labels, content, symbolLabels>>
  BY DEF Found
<1>2. klabel[k] \in InUse /\ content[klabel[k]] \in Symbol
  BY DEF MayShare, IsSymbol, LabelInv, UsersInv, LabelsIntact, InUse
<1>3. InUse' = InUse /\ LabelTypes /\ TablesInv'
  BY <1>1 DEF InUse, LabelInv, TablesInv, ListedOnce, SymbolsKept
<1>4. content[klabel[k]] \in Value /\ content[klabel[k]] \notin Literal
  BY <1>2, LabelAssumption DEF LabelAssumption, Value
<1>5. /\ klabel' \in [Node -> Label \cup {NoLabel}]
      /\ given' \in [Node -> Value \cup {NoLabel}]
      /\ UsersInv'
  <2>1. labels' \subseteq Label
    BY <1>1, <1>3 DEF LabelTypes
  <2> QED
    BY <1>1, <1>2, <1>3, <1>4, <2>1, LabelsStep
<1> QED
  BY <1>1, <1>3, <1>5 DEF LabelInv, LabelTypes

\* k_set_label gives one node the label of a symbol.
LEMMA SetLabelled ==
  ASSUME LabelInv, NEW k \in Node, NEW v \in Symbol, NEW l \in Label, K_set_label(k, v, l)
  PROVE  LabelInv'
<1>1. /\ LabelFor(v, l) /\ LabelTypes /\ TablesInv /\ UNCHANGED vars
      /\ klabel' = [klabel EXCEPT ![k] = l] /\ given' = [given EXCEPT ![k] = v]
      /\ v \in Value /\ v \notin Literal
  BY LabelAssumption DEF K_set_label, LabelInv, LabelAssumption, Value
<1>2. /\ garbage_label' \in Seq(Label) /\ labels' \in SUBSET Label
      /\ content' \in [Label -> Value \cup {NoLabel}]
      /\ symbolLabels' \in [Symbol -> Label \cup {NoLabel}]
      /\ TablesInv'
      /\ l \in InUse' /\ content'[l] = v
      /\ \A m \in InUse : m \in InUse' /\ content'[m] = content[m]
  BY <1>1, LabelForStep
<1>3. LabelTypes'
  BY <1>1, <1>2 DEF LabelTypes
<1>4. \A n \in Node : (Using(n)' <=> Using(n)) /\ (Live(n)' <=> Live(n))
  BY <1>1 DEF vars, Using, Live, Dead, Carries
<1>5. \A n \in Node : /\ n = k => klabel'[n] = l /\ given'[n] = v
                      /\ n # k => klabel'[n] = klabel[n] /\ given'[n] = given[n]
  BY <1>1 DEF LabelTypes
<1>6. \A n \in Node : Using(n) => klabel[n] \in InUse /\ content[klabel[n]] \in Value
  BY DEF LabelInv, UsersInv, UsersLabelled
<1>7. UsersLabelled'
  BY <1>1, <1>2, <1>4, <1>5, <1>6 DEF UsersLabelled
<1>8. LabelsIntact'
  <2> SUFFICES ASSUME NEW n \in Node, Live(n)
               PROVE  klabel'[n] \in InUse' /\ content'[klabel'[n]] = given'[n]
    BY <1>4 DEF LabelsIntact, InUse
  <2>1. klabel[n] \in InUse /\ content[klabel[n]] = given[n]
    BY DEF LabelInv, UsersInv, LabelsIntact, InUse
  <2> QED
    BY <1>2, <1>5, <2>1
<1>9. LiteralsUnshared'
  <2> SUFFICES ASSUME NEW j \in Node, NEW n \in Node, Using(j), Using(n), j # n, klabel'[j] = klabel'[n]
               PROVE  content'[klabel'[n]] \in Symbol
    BY <1>4 DEF LiteralsUnshared, IsSymbol
  <2>1. CASE j = k \/ n = k
    BY <1>2, <1>5, <2>1
  <2>2. CASE j # k /\ n # k
    <3>1. klabel[j] = klabel[n] /\ klabel[n] \in InUse /\ content[klabel[n]] \in Symbol
      BY <1>5, <1>6, <2>2 DEF LabelInv, UsersInv, LiteralsUnshared, IsSymbol
    <3> QED
      BY <1>2, <1>5, <2>2, <3>1
  <2> QED
    BY <2>1, <2>2
<1> QED
  BY <1>2, <1>3, <1>7, <1>8, <1>9 DEF LabelInv, UsersInv

\* A step that acquires nothing, leaves the labels alone and reclaims nothing
\* but nodes that were being reclaimed.
LEMMA LabelsAlone ==
  ASSUME LabelInv, UNCHANGED labelVars,
         \A k \in Node : (Using(k)' => Using(k)) /\ (Live(k)' => Live(k))
  PROVE  LabelInv'
<1>1. /\ LabelTypes' /\ TablesInv'
      /\ InUse' = InUse /\ \A l : IsSymbol(l)' = IsSymbol(l)
  BY DEF labelVars, LabelInv, LabelTypes, TablesInv, ListedOnce, SymbolsKept, InUse, IsSymbol
<1>2. UsersLabelled' /\ LabelsIntact' /\ LiteralsUnshared'
  BY <1>1 DEF labelVars, LabelInv, UsersInv, UsersLabelled, LabelsIntact, LiteralsUnshared, IsSymbol, InUse
<1> QED
  BY <1>1, <1>2 DEF LabelInv, UsersInv

LEMMA UnlabelledStep ==
  ASSUME IInv, LabelInv, Unlabelled, UNCHANGED labelVars
  PROVE  LabelInv'
<1>1. garbage_k' = garbage_k /\ mallocd' = mallocd /\ panicked = "no" /\ (Idle \/ DecStep)
  BY DEF Unlabelled, K_make_permanent, K_dispose, K_add_front_arg, K_set_arg, Disown, Own, DecStep, Idle, Stop
<1>2. ASSUME NEW k \in Node PROVE Carries(k)' = Carries(k)
  BY <1>1 DEF Carries
<1>3. ASSUME NEW k \in Node, Live(k)' PROVE Live(k)
  <2>1. Carries(k)
    BY <1>2, <1>3 DEF Live, Dead, Carries
  <2>2. CASE Idle
    BY <2>1, <2>2, UsersBetweenCalls
  <2>3. CASE DecStep
    <3> DEFINE h == Head(work).k
               d == IF Dies(h) THEN Release(h) ELSE <<>>
               t == Tail(work)
    <3>1. work # <<>> /\ Head(work).op = "Dec"
      BY <2>3 DEF DecStep
    <3>2. h \in Node /\ t \in Seq(Pending) /\ Occ(work, AuxOf(k)) = Occ(t, AuxOf(k))
      BY <3>1, WorkSplit
    <3>3. work' = t \/ work' = Release(h) \o t
      BY <2>3 DEF DecStep
    <3>4. Release(h) \in Seq(Pending)
      BY <3>2, DisposeWork DEF Release, IInv, TypeOK
    <3> HIDE DEF h, t
    <3>5. work' \in Seq(Pending) /\ (Occ(t, AuxOf(k)) # 0 => Occ(work', AuxOf(k)) # 0)
      <4>1. CASE work' = t
        BY <3>2, <4>1
      <4>2. CASE work' = Release(h) \o t
        <5>1. Occ(Release(h) \o t, AuxOf(k)) = Occ(Release(h), AuxOf(k)) + Occ(t, AuxOf(k))
          BY <3>2, <3>4, OccConcat
        <5>2. Occ(Release(h), AuxOf(k)) \in Nat /\ Occ(t, AuxOf(k)) \in Nat
          BY <3>2, <3>4, OccNat
        <5>3. Release(h) \o t \in Seq(Pending)
          BY <3>2, <3>4, ConcatProperties
        <5> QED
          BY <4>2, <5>1, <5>2, <5>3
      <4> QED
        BY <3>3, <4>1, <4>2
    <3>6. AuxOf(k) \notin Range(work')
      BY <1>3 DEF Live, Dead
    <3>7. Occ(work, AuxOf(k)) = 0
      BY <3>2, <3>5, <3>6, OccNat
    <3>8. AuxOf(k) \notin Range(work)
      <4>1. work \in Seq(Pending)
        BY DEF IInv, TypeOK
      <4> QED
        BY <3>7, <4>1, OccNat
    <3> QED
      BY <2>1, <3>8 DEF Live, Dead, Carries
  <2> QED
    BY <1>1, <2>2, <2>3
<1>4. ASSUME NEW k \in Node, Using(k)' PROVE Using(k)
  BY <1>1, <1>2, <1>3, <1>4 DEF Using
<1> QED
  BY <1>3, <1>4, LabelsAlone

LEMMA RangeAppend ==
  ASSUME NEW S, NEW s \in Seq(S), NEW x \in S
  PROVE  Range(Append(s, x)) = Range(s) \cup {x}
<1>1. /\ Len(s) \in Nat /\ DOMAIN s = 1..Len(s) /\ DOMAIN Append(s, x) = 1..(Len(s) + 1)
      /\ \A i \in 1..Len(s) : Append(s, x)[i] = s[i]
      /\ Append(s, x)[Len(s) + 1] = x
  BY AppendProperties, LenProperties
<1> QED
  BY <1>1 DEF Range

\* dispose_label gives a string or an integer back; nobody else has it.
LEMMA DisposeLabelled ==
  ASSUME IInv, LabelInv, Dispose_aux
  PROVE  LabelInv'
<1> DEFINE k == Head(work).k
<1>1. /\ work # <<>> /\ Head(work).op = "dispose_k_aux" /\ AuxStep /\ panicked = "no"
      /\ Dispose_label(k) /\ UNCHANGED <<klabel, given>>
  BY DEF Dispose_aux, AuxStep
<1>2. /\ k \in Node /\ work \in Seq(Pending) /\ Tail(work) \in Seq(Pending)
      /\ \A x : Occ(work, AuxOf(x)) = Occ(Tail(work), AuxOf(x)) + IF x = k THEN 1 ELSE 0
  BY <1>1, WorkSplit DEF IInv, TypeOK
<1>3. \/ garbage_k' = Append(garbage_k, k) /\ work' = Tail(work) /\ UNCHANGED <<mallocd, panicked>>
      \/ Stop("free_args")
  BY <1>1 DEF AuxStep
<1> HIDE DEF k
<1>4. garbage_k \in Seq(Node) /\ Range(Append(garbage_k, k)) = Range(garbage_k) \cup {k}
  <2>1. garbage_k \in Seq(Node)
    BY DEF IInv, TypeOK
  <2> QED
    BY <1>2, <2>1, RangeAppend
<1>5. AuxOf(k) \in Range(work) /\ Dead(k)
  <2>1. Occ(Tail(work), AuxOf(k)) \in Nat
    BY <1>2, OccNat
  <2>2. Occ(work, AuxOf(k)) # 0
    BY <1>2, <2>1
  <2>3. AuxOf(k) \in Range(work)
    BY <1>2, <2>2, OccNat
  <2> QED
    BY <2>3 DEF Dead
<1>6. Carries(k) /\ Using(k)
  <2>1. Occ(garbage_k, k) + Occ(work, AuxOf(k)) = IF k \in mallocd THEN 1 ELSE 0
    BY <1>2, <1>5 DEF IInv, ReclaimedOnce
  <2>2. /\ Occ(garbage_k, k) \in Nat /\ (Occ(garbage_k, k) = 0 <=> k \notin Range(garbage_k))
        /\ Occ(work, AuxOf(k)) \in Nat /\ Occ(work, AuxOf(k)) # 0
    BY <1>2, <1>5, OccNat DEF IInv, TypeOK
  <2>3. k \in mallocd /\ k \notin Range(garbage_k)
    BY <2>1, <2>2
  <2> QED
    BY <1>1, <2>3 DEF Carries, Using
<1>7. ASSUME NEW x \in Node, Live(x)' PROVE Live(x) /\ x # k
  <2>1. CASE Stop("free_args")
    BY <1>5, <1>7, <2>1 DEF Stop, Live, Dead
  <2>2. CASE garbage_k' = Append(garbage_k, k) /\ work' = Tail(work) /\ UNCHANGED <<mallocd, panicked>>
    <3>1. x \in mallocd /\ x \notin Range(garbage_k) /\ x # k
      <4>1. x \notin Range(Append(garbage_k, k)) /\ x \in mallocd
        BY <1>7, <2>2 DEF Live, Dead
      <4> QED
        BY <1>4, <4>1
    <3>2. AuxOf(x) \notin Range(Tail(work))
      BY <1>7, <2>2 DEF Live, Dead
    <3>3. Occ(work, AuxOf(x)) = 0
      <4>1. Occ(Tail(work), AuxOf(x)) = 0
        BY <1>2, <3>2, OccNat
      <4> QED
        BY <1>2, <3>1, <4>1
    <3>4. AuxOf(x) \notin Range(work)
      BY <1>2, <3>3, OccNat
    <3> QED
      BY <3>1, <3>4 DEF Live, Dead
  <2> QED
    BY <1>3, <2>1, <2>2
<1>8. ASSUME NEW x \in Node, Using(x)' PROVE Using(x) /\ x # k
  <2>1. CASE Live(x)'
    BY <1>7, <2>1 DEF Using
  <2>2. CASE panicked' = "no" /\ Carries(x)'
    <3>1. garbage_k' = Append(garbage_k, k) /\ mallocd' = mallocd
      BY <1>3, <2>2 DEF Stop
    <3>2. Carries(x) /\ x # k
      BY <1>4, <2>2, <3>1 DEF Carries
    <3> QED
      BY <1>1, <3>2 DEF Using
  <2> QED
    BY <1>8, <2>1, <2>2 DEF Using
<1> DEFINE l == klabel[k]
<1>9. /\ l \in InUse /\ l \in Label /\ content[l] \in Value
      /\ \A x \in Node : Using(x) /\ x # k => klabel[x] # l \/ content[l] \in Symbol
      /\ \A s \in Symbol : symbolLabels[s] # NoLabel =>
           symbolLabels[s] \in InUse /\ (symbolLabels[s] # l \/ content[l] \in Symbol)
  <2>1. l \in InUse /\ content[l] \in Value
    BY <1>2, <1>6 DEF LabelInv, UsersInv, UsersLabelled
  <2>2. l \in Label
    BY <2>1 DEF InUse, LabelInv, LabelTypes
  <2>3. \A x \in Node : Using(x) /\ x # k => klabel[x] # l \/ content[l] \in Symbol
    BY <1>2, <1>6 DEF LabelInv, UsersInv, LiteralsUnshared, IsSymbol
  <2>4. \A s \in Symbol : symbolLabels[s] # NoLabel => symbolLabels[s] \in InUse /\ content[symbolLabels[s]] = s
    BY DEF LabelInv, TablesInv, SymbolsKept
  <2> QED
    BY <2>1, <2>2, <2>3, <2>4
<1>10. /\ garbage_label' \in Seq(Label) /\ labels' \in SUBSET Label
      /\ content' = content /\ symbolLabels' = symbolLabels
      /\ ListedOnce'
      /\ \A m \in InUse : m # l \/ content[l] \in Symbol => m \in InUse'
  <2>1. garbage_label \in Seq(Label) /\ labels \in SUBSET Label /\ ListedOnce
    BY DEF LabelInv, LabelTypes, TablesInv
  <2>2. CASE IsSymbol(l)
    BY <1>1, <2>1, <2>2 DEF Dispose_label, Found, ListedOnce, InUse
  <2>3. CASE ~ IsSymbol(l) /\ garbage_label' = garbage_label /\ labels' = labels \ {l}
    <3>1. content' = content /\ symbolLabels' = symbolLabels
      BY <1>1, <2>3 DEF Dispose_label
    <3>2. ListedOnce'
      BY <2>1, <2>3 DEF ListedOnce
    <3>3. \A m \in InUse : m # l => m \in InUse'
      BY <2>3 DEF InUse
    <3> QED
      BY <2>1, <2>3, <3>1, <3>2, <3>3 DEF IsSymbol
  <2>4. CASE ~ IsSymbol(l) /\ garbage_label' = Append(garbage_label, l) /\ labels' = labels
    <3>1. content' = content /\ symbolLabels' = symbolLabels
      BY <1>1, <2>4 DEF Dispose_label
    <3>2. garbage_label' \in Seq(Label) /\ Range(garbage_label') = Range(garbage_label) \cup {l}
      BY <1>9, <2>1, <2>4 DEF Range
    <3>3. ASSUME NEW m \in Label PROVE Occ(garbage_label', m) <= 1
      <4>1. Occ(Append(garbage_label, l), m) = Occ(garbage_label, m) + IF m = l THEN 1 ELSE 0
        BY <1>9, <2>1, OccAppend
      <4>2. /\ Occ(garbage_label, m) \in Nat /\ Occ(garbage_label, m) <= 1
            /\ Occ(garbage_label, m) = 0 <=> m \notin Range(garbage_label)
        BY <2>1, OccNat DEF ListedOnce
      <4>3. m = l => m \notin Range(garbage_label)
        BY <1>9 DEF InUse
      <4> QED
        BY <2>4, <4>1, <4>2, <4>3
    <3>4. \A m \in InUse : m # l => m \in InUse'
      BY <2>4, <3>2 DEF InUse
    <3> QED
      BY <2>1, <2>4, <3>1, <3>2, <3>3, <3>4 DEF IsSymbol, ListedOnce
  <2> QED
    BY <1>1, <2>2, <2>3, <2>4 DEF Dispose_label
<1> HIDE DEF l
<1>11. LabelTypes' /\ TablesInv'
  <2>1. SymbolsKept'
    BY <1>9, <1>10 DEF SymbolsKept, LabelInv, TablesInv
  <2> QED
    BY <1>1, <1>10, <2>1 DEF LabelTypes, LabelInv, TablesInv
<1>12. ASSUME NEW x \in Node, Using(x), x # k
       PROVE  /\ klabel'[x] = klabel[x] /\ klabel[x] \in InUse' /\ content[klabel[x]] \in Value
  <2>1. klabel[x] \in InUse /\ content[klabel[x]] \in Value
    BY <1>12 DEF LabelInv, UsersInv, UsersLabelled
  <2> QED
    BY <1>1, <1>9, <1>10, <1>12, <2>1
<1>13. UsersLabelled'
  BY <1>8, <1>10, <1>12 DEF UsersLabelled
<1>14. LabelsIntact'
  <2> SUFFICES ASSUME NEW x \in Node, Live(x)'
               PROVE  klabel'[x] \in InUse' /\ content'[klabel'[x]] = given'[x]
    BY DEF LabelsIntact, InUse
  <2>1. Live(x) /\ Using(x) /\ x # k
    BY <1>7 DEF Using
  <2>2. content[klabel[x]] = given[x]
    BY <2>1 DEF LabelInv, UsersInv, LabelsIntact
  <2> QED
    BY <1>1, <1>10, <1>12, <2>1, <2>2
<1>15. LiteralsUnshared'
  BY <1>1, <1>8, <1>10 DEF LiteralsUnshared, IsSymbol, LabelInv, UsersInv
<1> QED
  BY <1>11, <1>13, <1>14, <1>15 DEF LabelInv, UsersInv

-----------------------------------------------------------------------------
(* Theorems.                                                               *)

LEMMA LabelInit == ASSUME LbInit PROVE LabelInv
<1>1. \A k \in Node : ~ Using(k) /\ ~ Live(k)
  BY DEF LbInit, Init, Using, Live, Dead, Carries
<1>2. LabelTypes
  BY DEF LbInit, LabelTypes
<1>3. TablesInv
  BY OccEmpty DEF LbInit, TablesInv, ListedOnce, SymbolsKept
<1>4. UsersInv
  BY <1>1 DEF UsersInv, UsersLabelled, LiteralsUnshared, LabelsIntact
<1> QED
  BY <1>2, <1>3, <1>4 DEF LabelInv

LEMMA LabelNext == ASSUME IInv, LabelInv, ~ Sharing, [LbNext]_lbVars PROVE LabelInv'
<1>1. ASSUME NEW v \in Value, NEW l \in Label, NEW s, New(v, l, s) PROVE LabelInv'
  BY <1>1, NewLabelled
<1>2. ASSUME NEW k \in Node, NEW s, NewBound(k, s) PROVE LabelInv'
  <2>1. Idle
    BY <1>2 DEF NewBound, K_new
  <2> QED
    BY <1>2, <2>1, SharedLabelled DEF NewBound
<1>3. ASSUME NEW k \in Node, Live(k), Copying(k) PROVE LabelInv'
  <2>1. \A pos, count, s : K_insert_elems(k, pos, count, s) => Idle
    BY ZenonT(60) DEF K_insert_elems
  <2>2. Idle
    BY <1>3, <2>1 DEF Copying, K_without_first_n_arg, K_replace_arg, UpdateTrimArgs
  <2> QED
    BY <1>3, <2>2, SharedLabelled DEF Copying
<1>4. ASSUME NEW k \in Node, NEW v \in Symbol, NEW l \in Label, K_set_label(k, v, l) PROVE LabelInv'
  BY <1>4, SetLabelled
<1>5. CASE Dispose_aux
  BY <1>5, DisposeLabelled
<1>6. CASE Unlabelled /\ UNCHANGED labelVars
  BY <1>6, UnlabelledStep
<1>7. CASE UNCHANGED vars /\ UNCHANGED labelVars
  <2>1. \A k \in Node : (Using(k)' => Using(k)) /\ (Live(k)' => Live(k))
    BY <1>7 DEF vars, Using, Live, Dead, Carries
  <2> QED
    BY <1>7, <2>1, LabelsAlone
<1> QED
  BY <1>1, <1>2, <1>3, <1>4, <1>5, <1>6, <1>7 DEF LbNext, lbVars, Stopped

\* When callers share symbols only, as the generated code of the tests does, a
\* live node keeps the label it was made with, whatever is built, copied, edited
\* and reclaimed around it.
THEOREM LabelsStayIntact == ~ Sharing => (LbSpec => []LabelsIntact)
<1>1. LbInit => LabelInv
  BY LabelInit
<1>2. ASSUME ~ Sharing PROVE IInv /\ LabelInv /\ [LbNext]_lbVars => LabelInv'
  BY <1>2, LabelNext
<1>3. LabelInv => LabelsIntact
  BY DEF LabelInv, UsersInv
<1>4. LbSpec => []IInv
  BY LabelsUseHeap, Inductive, PTL
<1>5. ASSUME ~ Sharing PROVE LbSpec => []LabelsIntact
  BY <1>1, <1>2, <1>3, <1>4, <1>5, PTL DEF LbSpec
<1> QED
  BY <1>5
=============================================================================
