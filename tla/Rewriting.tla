----------------------------- MODULE Rewriting ------------------------------
(***************************************************************************)
(* What a kinc program promises: term rewriting.  The configuration is a   *)
(* list of terms (the K cell) and a map from strings to terms; a step      *)
(* replaces the left sides of the first rule that matches by its right     *)
(* sides, all at once.                                                     *)
(***************************************************************************)
EXTENDS RuleSyntax, Int64, SequencesExt

CONSTANTS Rules,     \* the rules, in the order of the language definition
          LabelVars  \* names of label variables

VARIABLES cell,   \* the terms of the K cell, first one first
          store   \* the map cell

\* The left and the right sides of a list.
RECURSIVE Left(_), Right(_)
Left(items) ==
  FlattenSeq([i \in DOMAIN items |->
    IF items[i].op = "rewrite" THEN Left(items[i].lhs)
    ELSE IF items[i].op = "var" THEN <<items[i]>>
    ELSE <<Appl(items[i].label, Left(items[i].body))>>])
Right(items) ==
  FlattenSeq([i \in DOMAIN items |->
    IF items[i].op = "rewrite" THEN items[i].rhs
    ELSE IF items[i].op = "var" THEN <<items[i]>>
    ELSE <<Appl(items[i].to, Right(items[i].body))>>])

\* The list of terms ts is an instance of the list of patterns ps.
RECURSIVE Instance(_, _)
Instance(ps, ts) ==
  IF ps = <<>> THEN ts = <<>>
  ELSE IF IsList(Head(ps)) THEN TRUE
  ELSE /\ ts # <<>> /\ Instance(Tail(ps), Tail(ts))
       /\ LET p == Head(ps)
              t == Head(ts)
          IN IF p.op = "var"
               THEN p.sort = "k" \/ (t.l \in Allowable(p.sort)) # p.reverse
               ELSE p.label \in LabelVars \cup {t.l} /\ Instance(p.body, t.a)

\* What the variables of ps stand for in its instance ts: lists of terms, and
\* a label each for the label variables.
RECURSIVE Bindings(_, _)
Bindings(ps, ts) ==
  IF ps = <<>> THEN {}
  ELSE IF IsList(Head(ps)) THEN {<<Head(ps).name, ts>>}
  ELSE (IF Head(ps).op = "var" THEN {<<Head(ps).name, <<Head(ts)>>>>}
        ELSE {<<v, Head(ts).l>> : v \in {Head(ps).label} \cap LabelVars}
               \cup Bindings(Head(ps).body, Head(ts).a))
       \cup Bindings(Tail(ps), Tail(ts))

\* Built-ins are computed when the right side is built.
BoolTerm(b) == T("#bool", <<T(IF b THEN "#true" ELSE "#false", <<>>)>>)
IntTerm(i)  == T("#int", <<T(IntLabel(i), <<>>)>>)
Inside(t) == t.a[1].l
Value(l, a) == CASE l = "#not" -> BoolTerm(Inside(a[1]) = "#false")
                 [] l = "#lteInt" -> BoolTerm(Num[Inside(a[1])] <= Num[Inside(a[2])])
                 [] l \in Arithmetic -> IntTerm(IntOp(l, [i \in DOMAIN a |-> Num[Inside(a[i])]]))
                 [] l \in {"#true", "#false"} -> BoolTerm(l = "#true")
                 [] OTHER -> T(l, a)
\* The instance of the list of patterns ps under the substitution b.
RECURSIVE Substitute(_, _)
Substitute(ps, b) ==
  FlattenSeq([i \in DOMAIN ps |->
    IF ps[i].op = "var" THEN b[ps[i].name]
    ELSE <<Value(IF ps[i].label \in DOMAIN b THEN b[ps[i].label] ELSE ps[i].label,
                 Substitute(ps[i].body, b))>>])

AsFunction(pairs) == [x \in {p[1] : p \in pairs} |-> (CHOOSE p \in pairs : p[1] = x)[2]]
KeyIn(b, x) == Inside(b[x][1])

Fits(r) == Instance(Left(Rules[r].k), cell)
Fire(r) ==
  LET b0 == AsFunction(Bindings(Left(Rules[r].k), cell))
      get == Rules[r].get
      put == Rules[r].put
      b == b0 @@ [v \in {get[i].val : i \in DOMAIN get} |->
                    LET i == CHOOSE j \in DOMAIN get : get[j].val = v
                    IN <<store[KeyIn(b0, get[i].key)]>>]
  IN /\ Fits(r) /\ \A q \in 1..(r - 1) : ~ Fits(q)
     /\ \A i \in DOMAIN get : KeyIn(b0, get[i].key) \in DOMAIN store
     /\ cell' = Substitute(Right(Rules[r].k), b)
     /\ store' = [x \in {KeyIn(b0, put[i].key) : i \in DOMAIN put} |->
                    LET i == CHOOSE j \in DOMAIN put : KeyIn(b0, put[j].key) = x
                    IN Substitute(<<put[i].val>>, b)[1]] @@ store

Next == \E r \in DOMAIN Rules : Fire(r)
\* No rule can fire.
NormalForm == \A r \in DOMAIN Rules : ~ Fits(r)
=============================================================================
