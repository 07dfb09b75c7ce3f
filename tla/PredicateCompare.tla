-------------------------- MODULE PredicateCompare --------------------------
(***************************************************************************)
(* compare_predicates: how `pgrls diff` tells whether a policy clause was  *)
(* tightened or loosened.  A clause is a two-level formula over a few      *)
(* literals: a row of the table has an owner, a nullable column y, and may *)
(* or may not be matched by a subquery ("member").  The server evaluates   *)
(* it in three-valued logic; the code compares first the sets of conjuncts *)
(* and disjuncts, and then asks Z3 for implications in two-valued logic.   *)
(***************************************************************************)
EXTENDS Naturals, FiniteSets

\* "own" is owner = current_setting('app.user'), "y1" and "y2" compare y with
\* a constant, "ynull" is y IS NULL, "member" an EXISTS (SELECT ... m.y ...).
Atoms == {"true", "own", "y1", "y2", "ynull", "member"}
Literals == [atom : Atoms, not : BOOLEAN]
Pos(a) == [atom |-> a, not |-> FALSE]
Neg(a) == [atom |-> a, not |-> TRUE]

\* A conjunction of disjunctions ("and") or a disjunction of conjunctions.
\* A form with one argument, or with literals only, is written as an "and".
And2(args) == [op |-> "and", args |-> args]
Or2(args) == [op |-> "or", args |-> args]
Absent == And2({})
IsClause(e) == /\ DOMAIN e = {"op", "args"} /\ e.op \in {"and", "or"}
               /\ e.args \subseteq (SUBSET Literals) \ {{}}
               /\ e.op = "or" => /\ Cardinality(e.args) > 1
                                 /\ \E a \in e.args : Cardinality(a) > 1
-------------------------------------------------------------------------------
(* The server.                                                             *)

Rows == [own : {"T", "F", "N"}, y : 0..3, member : BOOLEAN]   \* y = 0: NULL

TrueRows(a) == {r \in Rows : CASE a = "true" -> TRUE
                               [] a = "own" -> r.own = "T"
                               [] a = "y1" -> r.y = 1
                               [] a = "y2" -> r.y = 2
                               [] a = "ynull" -> r.y = 0
                               [] a = "member" -> r.member}
NullRows(a) == {r \in Rows : \/ a = "own" /\ r.own = "N"
                             \/ a \in {"y1", "y2"} /\ r.y = 0}
FalseRows(a) == Rows \ (TrueRows(a) \cup NullRows(a))
LiteralRows == [l \in Literals |-> IF l.not THEN FalseRows(l.atom) ELSE TrueRows(l.atom)]

\* What satisfies e among S, given what satisfies each literal.
Satisfying(e, S, holds) ==
    IF e.op = "and" THEN {r \in S : \A c \in e.args : \E l \in c : r \in holds[l]}
    ELSE {r \in S : \E c \in e.args : \A l \in c : r \in holds[l]}
\* The rows the server admits: those for which e is exactly TRUE.
Admitted(e) == Satisfying(e, Rows, LiteralRows)
-------------------------------------------------------------------------------
(* The comparison.                                                         *)

\* Top-level conjuncts and disjuncts, each as a clause.
Conjuncts(e) == IF e.op = "or" THEN {e} ELSE {And2({c}) : c \in e.args}
Disjuncts(e) ==
    IF e.op = "or" THEN {And2({{l} : l \in c}) : c \in e.args}
    ELSE IF Cardinality(e.args) = 1
    THEN {And2({{l}}) : l \in UNION e.args} ELSE {e}

\* Z3's variables: the truth of own, since neither side of it is a literal,
\* the value of y, and a marker for y IS NULL that nothing ties to it.
Models == [own : BOOLEAN, y : 1..3, ynull : BOOLEAN]
TrueModels(a) == {m \in Models : CASE a = "true" -> TRUE
                                   [] a = "own" -> m.own
                                   [] a = "y1" -> m.y = 1
                                   [] a = "y2" -> m.y = 2
                                   [] a = "ynull" -> m.ynull
                                   [] a = "member" -> FALSE}
LiteralModels ==
    [l \in Literals |-> IF l.not THEN Models \ TrueModels(l.atom) ELSE TrueModels(l.atom)]
\* A subquery is not translated.
Translated(e) == \A c \in e.args : \A l \in c : l.atom # "member"
ToZ3(e) == Satisfying(e, Models, LiteralModels)

\* Mutant: the directions of the implication are swapped.
ClassifySwapped(base, head) ==
    LET b == ToZ3(base)  h == ToZ3(head) IN
    IF ~Translated(base) \/ ~Translated(head) THEN "requires_review"
    ELSE IF b = h THEN "semantic_equivalent"
    ELSE IF b \subseteq h THEN "semantic_tightened"
    ELSE IF h \subseteq b THEN "semantic_loosened" ELSE "requires_review"

ClassifyViaZ3(base, head) ==
    LET b == ToZ3(base)  h == ToZ3(head) IN
    IF ~Translated(base) \/ ~Translated(head) THEN "requires_review"
    ELSE IF b = h THEN "semantic_equivalent"
    ELSE IF h \subseteq b THEN "semantic_tightened"
    ELSE IF b \subseteq h THEN "semantic_loosened" ELSE "requires_review"

\* b is h with one element more.
OneMore(b, h) == h \subseteq b /\ Cardinality(b \ h) = 1

ComparePredicates(base, head) ==
    IF base = head THEN "unchanged"
    ELSE IF Absent \in {base, head} THEN "requires_review"
    ELSE IF OneMore(Conjuncts(head), Conjuncts(base)) THEN "tightened_and"
    ELSE IF OneMore(Conjuncts(base), Conjuncts(head)) THEN "loosened_and_drop"
    ELSE IF OneMore(Disjuncts(head), Disjuncts(base)) THEN "loosened_or"
    ELSE IF OneMore(Disjuncts(base), Disjuncts(head)) THEN "tightened_or_drop"
    ELSE ClassifyViaZ3(base, head)

EqualResults == {"unchanged", "semantic_equivalent"}
ResultGrade(result) ==
    IF result \in {"tightened_and", "tightened_or_drop", "semantic_tightened"} THEN "safe"
    ELSE IF result \in {"loosened_and_drop", "loosened_or", "semantic_loosened"}
    THEN "dangerous" ELSE "requires_review"

\* The columns of a counterexample: of the variables only y is a column whose
\* value decides a literal.  0: the model leaves y out.
Pinned(y) == {m \in Models : y \in {0, m.y}}
\* Mutant: the row of any model is reported.
AnyModel(base, head) ==
    IF ComparePredicates(base, head) # "semantic_loosened" THEN {}
    ELSE {m.y : m \in ToZ3(head) \ ToZ3(base)}
\* The rows counterexample_for may report: whatever the variables that are not
\* columns, the model satisfies head and not base.
Counterexamples(base, head) ==
    IF ComparePredicates(base, head) # "semantic_loosened" THEN {}
    ELSE {y \in 0..3 : Pinned(y) \subseteq ToZ3(head) \ ToZ3(base)}
-------------------------------------------------------------------------------
\* e is true for every value of a column and unknown when it is NULL, such as
\* y = 2 OR y <> 2: there Z3 and the server differ.
Blind(e) == /\ Translated(e)
            /\ \E r \in Rows \ Admitted(e) :
                  {m \in Models : /\ m.ynull = (r.y = 0)
                                  /\ r.y \in {0, m.y}
                                  /\ r.own # "N" => m.own = (r.own = "T")}
                  \subseteq ToZ3(e)
===============================================================================
