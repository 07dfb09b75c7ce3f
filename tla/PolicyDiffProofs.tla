--------------------------- MODULE PolicyDiffProofs ---------------------------
(***************************************************************************)
(* What `pgrls diff` says about policies is true of the server, for every  *)
(* table, policy and migration: the comparison of clauses (sets of         *)
(* conjuncts and disjuncts, then implications in two truth values) against *)
(* three-valued evaluation, and the grades of the changes against the rows *)
(* each role may read and write.                                           *)
(***************************************************************************)
EXTENDS PolicyDiff, FiniteSetTheorems, TLAPS

\* A model of Z3's that may stand for row w: it has the value of every variable
\* that w determines.
Compatible(m, w) == /\ m.ynull = (w.y = 0)
                    /\ w.y \in {0, m.y}
                    /\ w.own # "N" => m.own = (w.own = "T")

\* Every row has a compatible model, with any value of y where y is NULL.
LEMMA CompatibleExists ==
    ASSUME NEW w \in Rows, NEW y \in 1..3, w.y \in {0, y}
    PROVE  \E m \in Models : Compatible(m, w) /\ m.y = y
<1> DEFINE m == [own |-> w.own = "T", y |-> y, ynull |-> w.y = 0]
<1>1. m \in Models
  BY DEF Models
<1>2. Compatible(m, w) /\ m.y = y
  BY DEF Compatible
<1> QED
  BY <1>1, <1>2

\* A literal that is TRUE of a row is true in its compatible models.
LEMMA LiteralSound ==
    ASSUME NEW l \in Literals, l.atom # "member", NEW w \in Rows, NEW m \in Models,
           Compatible(m, w), w \in LiteralRows[l]
    PROVE  m \in LiteralModels[l]
<1>1. l.atom \in {"true", "own", "y1", "y2", "ynull"} /\ l.not \in BOOLEAN
  BY DEF Literals, Atoms
<1>2. LiteralRows[l] = IF l.not THEN FalseRows(l.atom) ELSE TrueRows(l.atom)
  BY DEF LiteralRows
<1>3. LiteralModels[l] = IF l.not THEN Models \ TrueModels(l.atom) ELSE TrueModels(l.atom)
  BY DEF LiteralModels
<1>4. /\ w.own \in {"T", "F", "N"} /\ w.y \in 0..3
      /\ m.own \in BOOLEAN /\ m.y \in 1..3 /\ m.ynull \in BOOLEAN
  BY DEF Rows, Models
<1>5. CASE l.atom = "true"
  BY <1>1, <1>2, <1>3, <1>5 DEF TrueRows, FalseRows, TrueModels
<1>6. CASE l.atom = "own"
  BY <1>1, <1>2, <1>3, <1>4, <1>6 DEF TrueRows, NullRows, FalseRows, TrueModels, Compatible
<1>7. CASE l.atom = "y1"
  BY <1>1, <1>2, <1>3, <1>4, <1>7 DEF TrueRows, NullRows, FalseRows, TrueModels, Compatible
<1>8. CASE l.atom = "y2"
  BY <1>1, <1>2, <1>3, <1>4, <1>8 DEF TrueRows, NullRows, FalseRows, TrueModels, Compatible
<1>9. CASE l.atom = "ynull"
  BY <1>1, <1>2, <1>3, <1>4, <1>9 DEF TrueRows, NullRows, FalseRows, TrueModels, Compatible
<1> QED
  BY <1>1, <1>5, <1>6, <1>7, <1>8, <1>9

\* A clause that admits a row is true in every model compatible with it: where
\* the encoding errs it is by admitting more.
LEMMA EncodingSound ==
    ASSUME NEW e, IsClause(e), Translated(e), NEW w \in Admitted(e),
           NEW m \in Models, Compatible(m, w)
    PROVE  m \in ToZ3(e)
<1>1. /\ w \in Rows /\ e.op \in {"and", "or"}
      /\ \A c \in e.args : \A l \in c : l \in Literals /\ l.atom # "member"
  BY DEF IsClause, Translated, Admitted, Satisfying
<1>2. \A c \in e.args : \A l \in c : w \in LiteralRows[l] => m \in LiteralModels[l]
  BY <1>1, LiteralSound
<1> QED
  BY <1>1, <1>2 DEF Admitted, ToZ3, Satisfying

\* For a clause that is not blind to NULL the converse holds of the models of a
\* row taken together.
LEMMA EncodingComplete ==
    ASSUME NEW e, Translated(e), ~Blind(e), NEW w \in Rows,
           \A m \in Models : Compatible(m, w) => m \in ToZ3(e)
    PROVE  w \in Admitted(e)
  BY DEF Blind, Compatible

\* Hence an implication Z3 finds between two clauses is one between the rows
\* they admit.
LEMMA ImplicationSound ==
    ASSUME NEW c, NEW d, IsClause(c), Translated(c), Translated(d), ~Blind(d),
           ToZ3(c) \subseteq ToZ3(d)
    PROVE  Admitted(c) \subseteq Admitted(d)
<1> SUFFICES ASSUME NEW w \in Admitted(c) PROVE w \in Admitted(d)
  OBVIOUS
<1>1. w \in Rows
  BY DEF Admitted, Satisfying
<1>2. \A m \in Models : Compatible(m, w) => m \in ToZ3(d)
  BY EncodingSound
<1> QED
  BY <1>1, <1>2, EncodingComplete
-------------------------------------------------------------------------------
(* The comparison.                                                         *)

\* There are finitely many literals, hence finitely many arguments of a clause.
LEMMA ArgsFinite ==
    ASSUME NEW e, IsClause(e)
    PROVE  IsFiniteSet(e.args)
<1> DEFINE f == [p \in Atoms \X BOOLEAN |-> [atom |-> p[1], not |-> p[2]]]
<1>1. IsFiniteSet(Atoms) /\ IsFiniteSet(BOOLEAN)
  <2> DEFINE a == [i \in 1..6 |-> CASE i = 1 -> "true" [] i = 2 -> "own" [] i = 3 -> "y1"
                                    [] i = 4 -> "y2" [] i = 5 -> "ynull" [] i = 6 -> "member"]
             t == [i \in 1..2 |-> i = 1]
  <2>1. a \in Surjection(1..6, Atoms)
    <3>1. a \in [1..6 -> Atoms]
      BY DEF Atoms
    <3>2. /\ a[1] = "true" /\ a[2] = "own" /\ a[3] = "y1"
          /\ a[4] = "y2" /\ a[5] = "ynull" /\ a[6] = "member"
      OBVIOUS
    <3> QED
      BY <3>1, <3>2 DEF Surjection, Atoms
  <2>2. t \in Surjection(1..2, BOOLEAN)
    BY DEF Surjection
  <2> HIDE DEF a, t
  <2>3. 1 \in Int /\ 2 \in Int /\ 6 \in Int
    OBVIOUS
  <2>4. IsFiniteSet(1..6) /\ IsFiniteSet(1..2)
    BY <2>3, FS_Interval, Zenon
  <2> QED
    BY <2>1, <2>2, <2>4, FS_Surjection, Zenon
<1>2. IsFiniteSet(Atoms \X BOOLEAN)
  BY <1>1, FS_Product
<1>3. f \in Surjection(Atoms \X BOOLEAN, Literals)
  <2>1. f \in [Atoms \X BOOLEAN -> Literals]
    BY DEF Literals
  <2>2. \A l \in Literals : <<l.atom, l.not>> \in Atoms \X BOOLEAN /\ f[<<l.atom, l.not>>] = l
    BY DEF Literals
  <2> QED
    BY <2>1, <2>2 DEF Surjection
<1>4. IsFiniteSet(Literals)
  BY <1>2, <1>3, FS_Surjection
<1>5. IsFiniteSet(SUBSET Literals) /\ e.args \subseteq SUBSET Literals
  BY <1>4, FS_SUBSET DEF IsClause
<1> QED
  BY <1>5, FS_Subset

\* A clause admits what all of its conjuncts admit ...
LEMMA ConjunctsAdmit ==
    ASSUME NEW e, IsClause(e), NEW w \in Rows
    PROVE  w \in Admitted(e) <=> \A c \in Conjuncts(e) : w \in Admitted(c)
<1>1. CASE e.op = "or"
  BY <1>1 DEF Conjuncts
<1>2. CASE e.op # "or"
  <2>1. Conjuncts(e) = {And2({c}) : c \in e.args} /\ e.op = "and"
    BY <1>2 DEF Conjuncts, IsClause
  <2>2. \A c : w \in Admitted(And2({c})) <=> \E l \in c : w \in LiteralRows[l]
    BY DEF Admitted, Satisfying, And2
  <2>3. w \in Admitted(e) <=> \A c \in e.args : \E l \in c : w \in LiteralRows[l]
    BY <2>1 DEF Admitted, Satisfying
  <2> QED
    BY <2>1, <2>2, <2>3
<1> QED
  BY <1>1, <1>2

\* ... and what any of its disjuncts admits.
LEMMA DisjunctsAdmit ==
    ASSUME NEW e, IsClause(e), NEW w \in Rows
    PROVE  w \in Admitted(e) <=> \E d \in Disjuncts(e) : w \in Admitted(d)
<1>1. CASE e.op = "or"
  <2>1. Disjuncts(e) = {And2({{l} : l \in c}) : c \in e.args}
    BY <1>1 DEF Disjuncts
  <2>2. \A c : w \in Admitted(And2({{l} : l \in c})) <=> \A l \in c : w \in LiteralRows[l]
    <3> TAKE c
    <3>1. w \in Admitted(And2({{l} : l \in c}))
          <=> \A d \in {{l} : l \in c} : \E k \in d : w \in LiteralRows[k]
      BY DEF Admitted, Satisfying, And2
    <3>2. (\A d \in {{l} : l \in c} : \E k \in d : w \in LiteralRows[k])
          <=> \A l \in c : \E k \in {l} : w \in LiteralRows[k]
      <4>1. ASSUME \A d \in {{l} : l \in c} : \E k \in d : w \in LiteralRows[k], NEW l \in c
            PROVE  \E k \in {l} : w \in LiteralRows[k]
        <5>1. {l} \in {{m} : m \in c}
          OBVIOUS
        <5> QED
          BY <4>1, <5>1
      <4>2. ASSUME \A l \in c : \E k \in {l} : w \in LiteralRows[k], NEW d \in {{l} : l \in c}
            PROVE  \E k \in d : w \in LiteralRows[k]
        <5>1. PICK l \in c : d = {l}
          OBVIOUS
        <5> QED
          BY <4>2, <5>1
      <4> QED
        BY <4>1, <4>2
    <3> QED
      BY <3>1, <3>2
  <2>3. w \in Admitted(e) <=> \E c \in e.args : \A l \in c : w \in LiteralRows[l]
    BY <1>1 DEF Admitted, Satisfying
  <2> QED
    BY <2>1, <2>2, <2>3
<1>2. CASE e.op # "or" /\ Cardinality(e.args) = 1
  <2>1. PICK c : e.args = {c}
    BY <1>2, ArgsFinite, FS_Singleton
  <2>2. Disjuncts(e) = {And2({{l}}) : l \in c} /\ e.op = "and"
    <3>1. UNION e.args = c
      BY <2>1
    <3> QED
      BY <1>2, <3>1 DEF Disjuncts, IsClause
  <2>3. \A l : w \in Admitted(And2({{l}})) <=> w \in LiteralRows[l]
    BY DEF Admitted, Satisfying, And2
  <2>4. w \in Admitted(e) <=> \E l \in c : w \in LiteralRows[l]
    BY <2>1, <2>2 DEF Admitted, Satisfying
  <2> QED
    BY <2>2, <2>3, <2>4
<1>3. CASE e.op # "or" /\ Cardinality(e.args) # 1
  BY <1>3 DEF Disjuncts
<1> QED
  BY <1>1, <1>2, <1>3

\* What compare_predicates does not grade as a widening is none: the result
\* "unchanged", "equivalent" or "tightened", by whichever of its three methods,
\* means that the new clause admits no row the old one does not, and has its
\* USING or WITH CHECK exactly if the old one has.
LEMMA ComparisonSound ==
    ASSUME NEW b, NEW h, IsClause(b), IsClause(h), ~Blind(b),
           \/ ComparePredicates(b, h) \in EqualResults
           \/ ResultGrade(ComparePredicates(b, h)) = "safe"
    PROVE  Admitted(h) \subseteq Admitted(b) /\ (b = Absent <=> h = Absent)
<1> DEFINE r == ComparePredicates(b, h)
<1>1. r \in {"unchanged", "semantic_equivalent", "tightened_and", "tightened_or_drop",
             "semantic_tightened"}
  BY DEF EqualResults, ResultGrade
<1>2. CASE b = h
  BY <1>2
<1>3. CASE b # h
  <2>1. b # Absent /\ h # Absent
    BY <1>1, <1>3 DEF ComparePredicates
  <2>2. CASE OneMore(Conjuncts(h), Conjuncts(b))
    <3>1. \A w \in Rows : w \in Admitted(h) => w \in Admitted(b)
      BY <2>2, ConjunctsAdmit DEF OneMore
    <3> QED
      BY <2>1, <3>1 DEF Admitted, Satisfying
  <2>3. CASE ~OneMore(Conjuncts(h), Conjuncts(b)) /\ OneMore(Disjuncts(b), Disjuncts(h))
    <3>1. \A w \in Rows : w \in Admitted(h) => w \in Admitted(b)
      BY <2>3, DisjunctsAdmit DEF OneMore
    <3> QED
      BY <2>1, <3>1 DEF Admitted, Satisfying
  <2>4. CASE ~OneMore(Conjuncts(h), Conjuncts(b)) /\ ~OneMore(Disjuncts(b), Disjuncts(h))
    <3>1. r = ClassifyViaZ3(b, h)
      BY <1>1, <1>3, <2>1, <2>4 DEF ComparePredicates
    <3>2. Translated(b) /\ Translated(h) /\ ToZ3(h) \subseteq ToZ3(b)
      BY <1>1, <3>1 DEF ClassifyViaZ3
    <3> QED
      BY <2>1, <3>2, ImplicationSound
  <2> QED
    BY <2>2, <2>3, <2>4
<1> QED
  BY <1>2, <1>3

\* A clause pair graded as unchanged or equivalent admits the same rows.
LEMMA EqualSound ==
    ASSUME NEW b, NEW h, IsClause(b), IsClause(h), ~Blind(b), ~Blind(h),
           ComparePredicates(b, h) \in EqualResults
    PROVE  Admitted(h) = Admitted(b) /\ (b = Absent <=> h = Absent)
<1>1. CASE b = h
  BY <1>1
<1>2. CASE b # h
  <2>1. b # Absent /\ h # Absent /\ ComparePredicates(b, h) = ClassifyViaZ3(b, h)
    BY <1>2 DEF ComparePredicates, EqualResults
  <2>2. Translated(b) /\ Translated(h) /\ ToZ3(h) = ToZ3(b)
    BY <2>1 DEF ClassifyViaZ3, EqualResults
  <2> QED
    BY <2>1, <2>2, ImplicationSound
<1> QED
  BY <1>1, <1>2

\* The row of a counterexample is one that leaks.
LEMMA CounterexampleSound ==
    ASSUME NEW b, NEW h, IsClause(b), IsClause(h), ~Blind(b), ~Blind(h),
           NEW y \in Counterexamples(b, h), NEW w \in Rows, y \in {0, w.y}
    PROVE  w \in Admitted(h) \ Admitted(b)
<1>1. /\ ComparePredicates(b, h) = "semantic_loosened"
      /\ y \in 0..3 /\ Pinned(y) \subseteq ToZ3(h) \ ToZ3(b)
  BY DEF Counterexamples
<1>2. Translated(b) /\ Translated(h)
  <2>1. ComparePredicates(b, h) = ClassifyViaZ3(b, h)
    BY <1>1 DEF ComparePredicates
  <2> QED
    BY <1>1, <2>1 DEF ClassifyViaZ3
<1>4. w.y \in 0..3
  BY DEF Rows
<1>5. \A m \in Models : Compatible(m, w) => m \in Pinned(y)
  BY <1>4 DEF Compatible, Pinned
<1>6. w \in Admitted(h)
  BY <1>1, <1>2, <1>5, EncodingComplete
<1>7. \E m \in Models : Compatible(m, w)
  <2>1. w.y \in {0, IF w.y = 0 THEN 1 ELSE w.y} /\ (IF w.y = 0 THEN 1 ELSE w.y) \in 1..3
    BY <1>4
  <2> QED
    BY <2>1, CompatibleExists
<1>8. w \notin Admitted(b)
  BY <1>1, <1>2, <1>5, <1>7, EncodingSound
<1> QED
  BY <1>6, <1>8
-------------------------------------------------------------------------------
(* The table under migration.                                              *)

\* A statement that replaces the policies of a table by policies leaves a table.
LEMMA PoliciesKeepTable ==
    ASSUME NEW t, IsTable(t), NEW pol, DOMAIN pol \subseteq Names,
           \A n \in DOMAIN pol : IsPolicy(pol[n])
    PROVE  IsTable([t EXCEPT !.pol = pol])
  BY DEF IsTable

\* Every statement of a migration leaves tables and policies that the server
\* could hold.
LEMMA NextKeepsType == TypeOK /\ [Next]_vars => TypeOK'
<1> SUFFICES ASSUME TypeOK, [Next]_vars PROVE TypeOK'
  OBVIOUS
<1>0. /\ IsTable(base) /\ IsTable(head) /\ edits \in 0..MaxEdits
      /\ DOMAIN head.pol \subseteq Names /\ \A n \in DOMAIN head.pol : IsPolicy(head.pol[n])
  BY DEF TypeOK, IsTable
<1>a. ASSUME NEW t, IsTable(t), Edited(t) PROVE TypeOK'
  BY <1>0, <1>a, DiffAssumption DEF Edited, TypeOK
<1>b. ASSUME NEW pol, DOMAIN pol \subseteq Names, \A n \in DOMAIN pol : IsPolicy(pol[n]),
             WithPolicies(pol)
      PROVE  TypeOK'
  BY <1>0, <1>a, <1>b, PoliciesKeepTable DEF WithPolicies
<1>1. ASSUME NEW n \in Names, NEW p \in Policies, CreatePolicy(n, p) PROVE TypeOK'
  <2> DEFINE q == With(head.pol, n, p)
  <2>1. DOMAIN q \subseteq Names /\ \A k \in DOMAIN q : IsPolicy(q[k])
    BY <1>0, DiffAssumption DEF With
  <2> QED
    BY <1>1, <1>b, <2>1 DEF CreatePolicy
<1>2. ASSUME NEW n \in DOMAIN head.pol, DropPolicy(n) PROVE TypeOK'
  <2> DEFINE q == Without(head.pol, n)
  <2>1. DOMAIN q \subseteq Names /\ \A k \in DOMAIN q : IsPolicy(q[k])
    BY <1>0 DEF Without
  <2> QED
    BY <1>2, <1>b, <2>1 DEF DropPolicy
<1>3. ASSUME NEW n \in DOMAIN head.pol, NEW to \in Names, RenamePolicy(n, to) PROVE TypeOK'
  <2> DEFINE q == With(Without(head.pol, n), to, head.pol[n])
  <2>1. DOMAIN q \subseteq Names /\ \A k \in DOMAIN q : IsPolicy(q[k])
    BY <1>0 DEF With, Without
  <2> QED
    BY <1>3, <1>b, <2>1 DEF RenamePolicy
<1>4. ASSUME NEW n \in DOMAIN head.pol, NEW r \in (SUBSET Grantees) \ {{}}, AlterRoles(n, r)
      PROVE  TypeOK'
  <2> DEFINE q == [head.pol EXCEPT ![n].roles = r]
  <2>1. IsPolicy(head.pol[n]) /\ IsPolicy([head.pol[n] EXCEPT !.roles = r])
    BY <1>0 DEF IsPolicy
  <2>2. DOMAIN q \subseteq Names /\ \A k \in DOMAIN q : IsPolicy(q[k])
    BY <1>0, <2>1
  <2> QED
    BY <1>4, <1>b, <2>2 DEF AlterRoles
<1>5. ASSUME NEW n \in DOMAIN head.pol, NEW e \in Clauses, AlterUsing(n, e) PROVE TypeOK'
  <2> DEFINE q == [head.pol EXCEPT ![n].using = e]
  <2>1. IsPolicy(head.pol[n]) /\ head.pol[n].using # Absent /\ IsClause(e)
    BY <1>0, <1>5, DiffAssumption DEF AlterUsing
  <2>2. IsPolicy([head.pol[n] EXCEPT !.using = e])
    BY <2>1 DEF IsPolicy
  <2>3. DOMAIN q \subseteq Names /\ \A k \in DOMAIN q : IsPolicy(q[k])
    BY <1>0, <2>2
  <2> QED
    BY <1>5, <1>b, <2>3 DEF AlterUsing
<1>6. ASSUME NEW n \in DOMAIN head.pol, NEW e \in Clauses, AlterCheck(n, e) PROVE TypeOK'
  <2> DEFINE q == [head.pol EXCEPT ![n].check = e]
  <2>1. IsPolicy(head.pol[n]) /\ head.pol[n].cmd \notin {"SELECT", "DELETE"} /\ IsClause(e)
    BY <1>0, <1>6, DiffAssumption DEF AlterCheck
  <2>2. IsPolicy([head.pol[n] EXCEPT !.check = e])
    BY <2>1 DEF IsPolicy
  <2>3. DOMAIN q \subseteq Names /\ \A k \in DOMAIN q : IsPolicy(q[k])
    BY <1>0, <2>2
  <2> QED
    BY <1>6, <1>b, <2>3 DEF AlterCheck
<1>7. ASSUME NEW n \in DOMAIN head.pol, NEW c \in Commands, NEW b \in BOOLEAN, Recreate(n, c, b)
      PROVE  TypeOK'
  <2> DEFINE p == [head.pol[n] EXCEPT !.cmd = c, !.permissive = b]
             q == [head.pol EXCEPT ![n] = p]
  <2>1. IsPolicy(p) /\ WithPolicies(q)
    BY <1>7 DEF Recreate
  <2>2. DOMAIN q \subseteq Names /\ \A k \in DOMAIN q : IsPolicy(q[k])
    BY <1>0, <2>1
  <2> QED
    BY <1>b, <2>1, <2>2
<1>8. ASSUME NEW on \in BOOLEAN, SetRls(on) \/ SetForce(on) PROVE TypeOK'
  <2>1. IsTable([head EXCEPT !.rls = on]) /\ IsTable([head EXCEPT !.force = on])
    BY <1>0 DEF IsTable
  <2> QED
    BY <1>8, <1>a, <2>1 DEF SetRls, SetForce
<1>9. ASSUME NEW r \in Grantees, NEW v \in Privileges, GrantOn(r, v) \/ RevokeOn(r, v)
      PROVE  TypeOK'
  <2>1. /\ IsTable([head EXCEPT !.grants = @ \cup {<<r, v>>}])
        /\ IsTable([head EXCEPT !.grants = @ \ {<<r, v>>}])
    BY <1>0 DEF IsTable
  <2> QED
    BY <1>9, <1>a, <2>1 DEF GrantOn, RevokeOn
<1>10. CASE DropColumn
  <2> DEFINE q == [n \in {k \in DOMAIN head.pol : ~Reads(head.pol[k].using, "y")
                                                  /\ ~Reads(head.pol[k].check, "y")}
                      |-> head.pol[n]]
             t == [head EXCEPT !.hasY = FALSE, !.pol = q]
  <2>1. DOMAIN q \subseteq Names /\ \A k \in DOMAIN q : IsPolicy(q[k])
    BY <1>0
  <2>2. IsTable([head EXCEPT !.hasY = FALSE])
    BY <1>0 DEF IsTable
  <2>3. IsTable([[head EXCEPT !.hasY = FALSE] EXCEPT !.pol = q])
    BY <2>1, <2>2, PoliciesKeepTable
  <2>4. Edited(t)
    BY <1>10 DEF DropColumn
  <2> QED
    BY <1>a, <2>3, <2>4
<1>11. CASE UNCHANGED vars
  BY <1>0, <1>11 DEF vars, TypeOK
<1> QED
  BY <1>1, <1>2, <1>3, <1>4, <1>5, <1>6, <1>7, <1>8, <1>9, <1>10, <1>11 DEF Next

\* Both tables of a diff are tables whose policies are policies, with clauses
\* and privileges the server accepts.
THEOREM TypeCorrect == Spec => []TypeOK
<1>1. Init => TypeOK
  BY DiffAssumption DEF Init, TypeOK
<1> QED
  BY <1>1, NextKeepsType, PTL DEF Spec
-------------------------------------------------------------------------------
(* The changes.                                                            *)

\* Compare is ComparePredicates: the table of verdicts only saves work.
LEMMA CompareIs == \A b, h : Compare(b, h) = ComparePredicates(b, h)
  BY DEF Compare, Verdict

\* Policies whose clauses are unchanged or tightened: the rows the new one
\* admits by an operation, the old one admits.
LEMMA GateTightened ==
    ASSUME NEW x, NEW y, IsPolicy(x), IsPolicy(y), ~Blind(x.using), ~Blind(x.check),
           \A g \in ClauseGrades(x, y) : g = "safe", NEW op
    PROVE  GateRows(y, op) \subseteq GateRows(x, op)
<1>1. IsClause(x.using) /\ IsClause(y.using) /\ IsClause(x.check) /\ IsClause(y.check)
  BY DEF IsPolicy
<1>2. \A r \in {ComparePredicates(x.using, y.using), ComparePredicates(x.check, y.check)} :
         r \in EqualResults \/ ResultGrade(r) = "safe"
  BY CompareIs DEF ClauseGrades
<1>3. Admitted(y.using) \subseteq Admitted(x.using) /\ (x.using = Absent <=> y.using = Absent)
  BY <1>1, <1>2, ComparisonSound
<1>4. Admitted(y.check) \subseteq Admitted(x.check) /\ (x.check = Absent <=> y.check = Absent)
  BY <1>1, <1>2, ComparisonSound
<1>5. \A p : GateRows(p, op) = Admitted(Gate(p, op))
  BY DEF GateRows, AdmittedByClause
<1> QED
  BY <1>3, <1>4, <1>5 DEF Gate

\* Policies whose clauses compare as equal admit the same rows.
LEMMA GateEqual ==
    ASSUME NEW x, NEW y, IsPolicy(x), IsPolicy(y), ~Blind(x.using), ~Blind(x.check),
           ~Blind(y.using), ~Blind(y.check), ClauseGrades(x, y) = {}, NEW op
    PROVE  GateRows(y, op) = GateRows(x, op)
<1>1. IsClause(x.using) /\ IsClause(y.using) /\ IsClause(x.check) /\ IsClause(y.check)
  BY DEF IsPolicy
<1>2. /\ ComparePredicates(x.using, y.using) \in EqualResults
      /\ ComparePredicates(x.check, y.check) \in EqualResults
  BY CompareIs DEF ClauseGrades
<1>3. Admitted(y.using) = Admitted(x.using) /\ (x.using = Absent <=> y.using = Absent)
  BY <1>1, <1>2, EqualSound
<1>4. Admitted(y.check) = Admitted(x.check) /\ (x.check = Absent <=> y.check = Absent)
  BY <1>1, <1>2, EqualSound
<1>5. \A p : GateRows(p, op) = Admitted(Gate(p, op))
  BY DEF GateRows, AdmittedByClause
<1> QED
  BY <1>3, <1>4, <1>5 DEF Gate

\* The grades of a clause comparison, and the worst of them.
LEMMA GradesOfClauses ==
    ASSUME NEW x, NEW y
    PROVE  /\ ClauseGrades(x, y) \subseteq {"safe", "dangerous", "requires_review"}
           /\ ClauseGrades(x, y) # {} =>
                 /\ Worst(ClauseGrades(x, y)) \in ClauseGrades(x, y)
                 /\ Worst(ClauseGrades(x, y)) = "safe" => ClauseGrades(x, y) = {"safe"}
<1> DEFINE G == ClauseGrades(x, y)
           Is(g) == \/ g = "dangerous"
                    \/ g = "requires_review" /\ "dangerous" \notin G
                    \/ g = "safe" /\ G = {"safe"}
<1>1. G \subseteq {"safe", "dangerous", "requires_review"}
  BY DEF ClauseGrades, ResultGrade
<1>2. ASSUME G # {} PROVE \E g \in G : Is(g)
  BY <1>1, <1>2
<1>3. Worst(G) = CHOOSE g \in G : Is(g)
  BY DEF Worst
<1>4. ASSUME G # {} PROVE Worst(G) \in G /\ Is(Worst(G))
  BY <1>2, <1>3, <1>4
<1> QED
  BY <1>1, <1>4

\* The policies of a rename differ in their clauses at most.
LEMMA RenameKeepsShape ==
    ASSUME NEW b, NEW h, IsTable(b), IsTable(h), NEW mode, NEW pr \in Renames(b, h, mode)
    PROVE  /\ pr[1] \in DOMAIN b.pol \ DOMAIN h.pol /\ pr[2] \in DOMAIN h.pol \ DOMAIN b.pol
           /\ h.pol[pr[2]].cmd = b.pol[pr[1]].cmd
           /\ h.pol[pr[2]].permissive = b.pol[pr[1]].permissive
           /\ h.pol[pr[2]].roles = b.pol[pr[1]].roles
<1>1. /\ pr[1] \in DOMAIN b.pol \ DOMAIN h.pol /\ pr[2] \in DOMAIN h.pol \ DOMAIN b.pol
      /\ pr[2] \in Bucket(h, b, b.pol[pr[1]])
  BY DEF Renames
<1> DEFINE x == b.pol[pr[1]]
           y == h.pol[pr[2]]
           u == [x EXCEPT !.using = Absent, !.check = Absent]
           v == [y EXCEPT !.using = Absent, !.check = Absent]
<1>2. v = u
  BY <1>1 DEF Bucket
<1>3. IsPolicy(x) /\ IsPolicy(y)
  BY <1>1 DEF IsTable
<1>4. /\ u.cmd = x.cmd /\ u.permissive = x.permissive /\ u.roles = x.roles
      /\ v.cmd = y.cmd /\ v.permissive = y.permissive /\ v.roles = y.roles
  BY <1>3 DEF IsPolicy
<1> QED
  BY <1>1, <1>2, <1>4
-------------------------------------------------------------------------------
(* The grades against the server.                                          *)

Fails(c) == c.grade \in FailOn("requires-review")
\* y does what x did: where y admits a row to a role's operation, so did x ...
NoWider(x, y) == /\ y.permissive = x.permissive /\ y.roles \subseteq x.roles
                 /\ y.cmd = x.cmd \/ x.cmd = "ALL"
                 /\ \A op \in Operations : GateRows(y, op) \subseteq GateRows(x, op)
\* ... to the same operations and roles.
AsStrict(x, y) == NoWider(x, y) /\ y.roles = x.roles /\ y.cmd = x.cmd

\* The policies of one name on both sides, when nothing about them is reported
\* as dangerous or for review.
LEMMA SharedGraded ==
    ASSUME NEW b, NEW h, IsTable(b), IsTable(h), Legible(b),
           \A c \in DiffPolicyShapes(b, h) : ~Fails(c),
           NEW n \in DOMAIN b.pol \cap DOMAIN h.pol, ~Misgraded(b.pol[n], h.pol[n])
    PROVE  /\ h.pol[n].permissive => NoWider(b.pol[n], h.pol[n])
           /\ ~b.pol[n].permissive => AsStrict(b.pol[n], h.pol[n])
<1> DEFINE x == b.pol[n]
           y == h.pol[n]
           shapes == FlagChange(x, y) \cup CommandChange(x, y) \cup RolesChange(x, y)
                     \cup {Change(g, "clause") : g \in ClauseGrades(x, y)}
<1>1. IsPolicy(x) /\ IsPolicy(y) /\ ~Blind(x.using) /\ ~Blind(x.check)
  BY DEF IsTable, Legible
<1>2. \A c \in shapes : ~Fails(c)
  BY DEF DiffPolicyShapes
<1>3. \A g, k : Fails(Change(g, k)) <=> g \in {"requires_review", "dangerous"}
  BY DEF Fails, FailOn, Change
<1>4. \A g \in ClauseGrades(x, y) : g = "safe"
  <2>1. \A g \in ClauseGrades(x, y) : ~Fails(Change(g, "clause"))
    BY <1>2
  <2> QED
    BY <1>3, <2>1, GradesOfClauses
<1>5. \A op \in Operations : GateRows(y, op) \subseteq GateRows(x, op)
  BY <1>1, <1>4, GateTightened
<1>6. x.permissive \/ ~y.permissive
  BY <1>1, <1>2, <1>3 DEF FlagChange, IsPolicy
<1>7. x.cmd = y.cmd \/ y.cmd # "ALL"
  BY <1>2, <1>3 DEF CommandChange
<1>8. y.roles \subseteq x.roles
  BY <1>2, <1>3 DEF RolesChange
<1>9. /\ x.permissive \/ y.permissive \/ y.roles = x.roles
      /\ x.permissive \/ y.permissive \/ y.cmd \in {x.cmd, "ALL"}
      /\ ~y.permissive \/ x.cmd = "ALL" \/ y.cmd \in {x.cmd, "ALL"}
  BY <1>8 DEF Misgraded
<1>10. x.permissive \in BOOLEAN /\ y.permissive \in BOOLEAN
  BY <1>1 DEF IsPolicy
<1> QED
  BY <1>5, <1>6, <1>7, <1>8, <1>9, <1>10 DEF NoWider, AsStrict

\* A rename that does not fail the gate leaves a policy as strict as it was.
LEMMA RenameGraded ==
    ASSUME NEW b, NEW h, IsTable(b), IsTable(h), Legible(b), NEW mode,
           \A c \in RenameChanges(b, h, mode) : ~Fails(c), NEW pr \in Renames(b, h, mode)
    PROVE  AsStrict(b.pol[pr[1]], h.pol[pr[2]])
<1> DEFINE x == b.pol[pr[1]]
           y == h.pol[pr[2]]
           G == ClauseGrades(x, y)
<1>1. /\ pr[1] \in DOMAIN b.pol /\ pr[2] \in DOMAIN h.pol
      /\ y.cmd = x.cmd /\ y.permissive = x.permissive /\ y.roles = x.roles
  BY RenameKeepsShape
<1>2. IsPolicy(x) /\ IsPolicy(y) /\ ~Blind(x.using) /\ ~Blind(x.check)
  BY <1>1 DEF IsTable, Legible
<1>3. ~Fails(Change(IF G = {} THEN mode.classification ELSE Worst(G), "renamed"))
  BY DEF RenameChanges
<1>4. \A g \in G : g = "safe"
  <2>1. CASE G = {}
    BY <2>1
  <2>2. CASE G # {}
    <3>1. Worst(G) \notin {"requires_review", "dangerous"}
      BY <1>3, <2>2 DEF Fails, FailOn, Change
    <3> QED
      BY <2>2, <3>1, GradesOfClauses
  <2> QED
    BY <2>1, <2>2
<1>5. \A op \in Operations : GateRows(y, op) \subseteq GateRows(x, op)
  BY <1>2, <1>4, GateTightened
<1> QED
  BY <1>1, <1>5 DEF NoWider, AsStrict

\* What a diff without a failing change says of two tables: the permissive
\* policies of the head were there, and no restrictive policy of the base left.
LEMMA PoliciesGraded ==
    ASSUME NEW b, NEW h, IsTable(b), IsTable(h), Legible(b), NEW mode,
           \A c \in DiffPolicies(b, h, mode) \cup DiffPolicyShapes(b, h) : ~Fails(c),
           \A n \in DOMAIN b.pol \cap DOMAIN h.pol : ~Misgraded(b.pol[n], h.pol[n])
    PROVE  /\ \A n \in DOMAIN h.pol : h.pol[n].permissive =>
                 \E k \in DOMAIN b.pol : NoWider(b.pol[k], h.pol[n])
           /\ \A k \in DOMAIN b.pol : ~b.pol[k].permissive =>
                 \E n \in DOMAIN h.pol : AsStrict(b.pol[k], h.pol[n])
<1> DEFINE renames == Renames(b, h, mode)
           added == (DOMAIN h.pol \ DOMAIN b.pol) \ {pr[2] : pr \in renames}
           dropped == (DOMAIN b.pol \ DOMAIN h.pol) \ {pr[1] : pr \in renames}
<1>1. \A g, k : Fails(Change(g, k)) <=> g \in {"requires_review", "dangerous"}
  BY DEF Fails, FailOn, Change
<1>2. \A n \in DOMAIN b.pol \cap DOMAIN h.pol :
         /\ h.pol[n].permissive => NoWider(b.pol[n], h.pol[n])
         /\ ~b.pol[n].permissive => AsStrict(b.pol[n], h.pol[n])
  BY SharedGraded
<1>3. \A pr \in renames : /\ AsStrict(b.pol[pr[1]], h.pol[pr[2]])
                          /\ pr[1] \in DOMAIN b.pol /\ pr[2] \in DOMAIN h.pol
  <2>1. \A c \in RenameChanges(b, h, mode) : ~Fails(c)
    BY DEF DiffPolicies
  <2> QED
    BY <2>1, RenameGraded, RenameKeepsShape
<1>4. \A n \in added : ~h.pol[n].permissive
  <2>1. \A n \in added :
           Change(IF h.pol[n].permissive THEN "dangerous" ELSE "safe", "added")
           \in DiffPolicies(b, h, mode)
    BY DEF DiffPolicies
  <2> QED
    BY <1>1, <2>1
<1>5. \A n \in dropped : b.pol[n].permissive
  <2>1. \A n \in dropped :
           Change(IF b.pol[n].permissive THEN "breaking" ELSE "dangerous", "dropped")
           \in DiffPolicies(b, h, mode)
    BY DEF DiffPolicies
  <2> QED
    BY <1>1, <2>1
<1>6. ASSUME NEW n \in DOMAIN h.pol, h.pol[n].permissive
      PROVE  \E k \in DOMAIN b.pol : NoWider(b.pol[k], h.pol[n])
  <2>1. CASE n \in DOMAIN b.pol
    BY <1>2, <1>6, <2>1
  <2>2. CASE n \notin DOMAIN b.pol
    <3>1. PICK pr \in renames : pr[2] = n
      BY <1>4, <1>6, <2>2
    <3> QED
      BY <1>3, <3>1 DEF AsStrict
  <2> QED
    BY <2>1, <2>2
<1>7. ASSUME NEW k \in DOMAIN b.pol, ~b.pol[k].permissive
      PROVE  \E n \in DOMAIN h.pol : AsStrict(b.pol[k], h.pol[n])
  <2>1. CASE k \in DOMAIN h.pol
    BY <1>2, <1>7, <2>1
  <2>2. CASE k \notin DOMAIN h.pol
    <3>1. PICK pr \in renames : pr[1] = k
      BY <1>5, <1>7, <2>2
    <3> QED
      BY <1>3, <3>1
  <2> QED
    BY <2>1, <2>2
<1> QED
  BY <1>6, <1>7

\* Hence nobody may do to any row what they could not do before.
LEMMA NoFailureNoWidening ==
    ASSUME NEW b, NEW h, IsTable(b), IsTable(h), Legible(b), NEW mode,
           \A c \in Changes(b, h, mode) : ~Fails(c),
           \A n \in DOMAIN b.pol \cap DOMAIN h.pol : ~Misgraded(b.pol[n], h.pol[n]),
           NEW r, NEW op \in Operations
    PROVE  AdmittedRows(h, r, op) \subseteq AdmittedRows(b, r, op)
<1>1. \A g, k : Fails(Change(g, k)) <=> g \in {"requires_review", "dangerous"}
  BY DEF Fails, FailOn, Change
<1>2. /\ \A c \in Flipped(b.rls, h.rls, "rls") : ~Fails(c)
      /\ \A c \in Flipped(b.force, h.force, "force") : ~Fails(c)
      /\ \A c \in DiffGrants(b, h) : ~Fails(c)
      /\ \A c \in DiffPolicies(b, h, mode) \cup DiffPolicyShapes(b, h) : ~Fails(c)
  BY DEF Changes
<1>3. (b.rls => h.rls) /\ (b.force => h.force)
  BY <1>1, <1>2 DEF Flipped, IsTable
<1>4. h.grants \subseteq b.grants
  <2>1. \A g \in h.grants \ b.grants :
           Change(IF g[1] = Public /\ ~h.rls THEN "dangerous" ELSE "requires_review", "granted")
           \in DiffGrants(b, h)
    BY DEF DiffGrants
  <2> QED
    BY <1>1, <1>2, <2>1
<1>5. /\ \A n \in DOMAIN h.pol : h.pol[n].permissive =>
            \E k \in DOMAIN b.pol : NoWider(b.pol[k], h.pol[n])
      /\ \A k \in DOMAIN b.pol : ~b.pol[k].permissive =>
            \E n \in DOMAIN h.pol : AsStrict(b.pol[k], h.pol[n])
  BY <1>2, PoliciesGraded
<1>6. ASSUME NEW w \in Rows, \E n \in Governing(h, r, op, TRUE) : w \in GateRows(h.pol[n], op)
      PROVE  \E k \in Governing(b, r, op, TRUE) : w \in GateRows(b.pol[k], op)
  <2>1. PICK n \in DOMAIN h.pol :
               /\ h.pol[n].permissive = TRUE /\ h.pol[n].cmd \in {"ALL", op[1]}
               /\ h.pol[n].roles \cap {r, Public} # {} /\ w \in GateRows(h.pol[n], op)
    BY <1>6 DEF Governing
  <2>2. PICK k \in DOMAIN b.pol : NoWider(b.pol[k], h.pol[n])
    BY <1>5, <2>1
  <2> QED
    BY <2>1, <2>2 DEF NoWider, Governing
<1>7. ASSUME NEW w \in Rows, \A n \in Governing(h, r, op, FALSE) : w \in GateRows(h.pol[n], op)
      PROVE  \A k \in Governing(b, r, op, FALSE) : w \in GateRows(b.pol[k], op)
  <2> SUFFICES ASSUME NEW k \in Governing(b, r, op, FALSE) PROVE w \in GateRows(b.pol[k], op)
    OBVIOUS
  <2>1. /\ k \in DOMAIN b.pol /\ b.pol[k].permissive = FALSE /\ b.pol[k].cmd \in {"ALL", op[1]}
        /\ b.pol[k].roles \cap {r, Public} # {}
    BY DEF Governing
  <2>2. PICK n \in DOMAIN h.pol : AsStrict(b.pol[k], h.pol[n])
    BY <1>5, <2>1
  <2>3. n \in Governing(h, r, op, FALSE)
    BY <2>1, <2>2 DEF AsStrict, NoWider, Governing
  <2> QED
    BY <1>7, <2>2, <2>3 DEF AsStrict, NoWider
<1>8. AdmittedRows(h, r, op) \subseteq Rows
  BY DEF AdmittedRows
<1>9. ASSUME NEW w \in AdmittedRows(h, r, op) PROVE w \in AdmittedRows(b, r, op)
  <2>1. ~(r # Owner /\ {<<r, op[1]>>, <<Public, op[1]>>} \cap h.grants = {})
    BY <1>9 DEF AdmittedRows
  <2>2. ~(r # Owner /\ {<<r, op[1]>>, <<Public, op[1]>>} \cap b.grants = {})
    BY <1>4, <2>1
  <2>3. CASE ~b.rls \/ (r = Owner /\ ~b.force)
    BY <1>8, <2>2, <2>3 DEF AdmittedRows
  <2>4. CASE ~(~b.rls \/ (r = Owner /\ ~b.force))
    <3>1. ~(~h.rls \/ (r = Owner /\ ~h.force))
      BY <1>3, <2>4
    <3>2. /\ w \in Rows
          /\ \E n \in Governing(h, r, op, TRUE) : w \in GateRows(h.pol[n], op)
          /\ \A n \in Governing(h, r, op, FALSE) : w \in GateRows(h.pol[n], op)
      BY <1>9, <2>1, <3>1 DEF AdmittedRows
    <3> QED
      BY <1>6, <1>7, <2>2, <2>4, <3>2 DEF AdmittedRows
  <2> QED
    BY <2>3, <2>4
<1> QED
  BY <1>9

\* For every set of roles, policies, clauses and starting tables and migrations
\* of any length: a migration that widens what somebody may do has a change that
\* fails --fail-on requires-review, in every rename mode.
THEOREM WideningsAreReported == Spec => []WideningReported
<1>1. TypeOK => WideningReported
  BY NoFailureNoWidening DEF TypeOK, WideningReported, Widened, Fails
<1> QED
  BY <1>1, TypeCorrect, PTL
-------------------------------------------------------------------------------
(* A diff that reports nothing.                                            *)

Quiet(cs) == cs \subseteq {Change("safe", "renamed")}
\* The same policy, but for the wording of its clauses and its name.
Alike(x, y) == /\ y.permissive = x.permissive /\ y.roles = x.roles /\ y.cmd = x.cmd
               /\ \A op \in Operations : GateRows(y, op) = GateRows(x, op)

\* Without a change but pure renames, every policy has its like on the other
\* side.
LEMMA PoliciesQuiet ==
    ASSUME NEW b, NEW h, IsTable(b), IsTable(h), Legible(b), Legible(h), NEW mode,
           mode.detection # "relaxed",
           Quiet(DiffPolicies(b, h, mode)), Quiet(DiffPolicyShapes(b, h))
    PROVE  /\ \A k \in DOMAIN b.pol : \E n \in DOMAIN h.pol : Alike(b.pol[k], h.pol[n])
           /\ \A n \in DOMAIN h.pol : \E k \in DOMAIN b.pol : Alike(b.pol[k], h.pol[n])
<1> DEFINE renames == Renames(b, h, mode)
           added == (DOMAIN h.pol \ DOMAIN b.pol) \ {pr[2] : pr \in renames}
           dropped == (DOMAIN b.pol \ DOMAIN h.pol) \ {pr[1] : pr \in renames}
<1>1. \A g, k : Change(g, k) = Change("safe", "renamed") => k = "renamed"
  BY DEF Change
<1>2. added = {}
  <2>1. \A n \in added :
           Change(IF h.pol[n].permissive THEN "dangerous" ELSE "safe", "added")
           \in DiffPolicies(b, h, mode)
    BY DEF DiffPolicies
  <2> QED
    BY <1>1, <2>1 DEF Quiet
<1>3. dropped = {}
  <2>1. \A n \in dropped :
           Change(IF b.pol[n].permissive THEN "breaking" ELSE "dangerous", "dropped")
           \in DiffPolicies(b, h, mode)
    BY DEF DiffPolicies
  <2> QED
    BY <1>1, <2>1 DEF Quiet
<1>4. ASSUME NEW n \in DOMAIN b.pol \cap DOMAIN h.pol PROVE Alike(b.pol[n], h.pol[n])
  <2> DEFINE x == b.pol[n]
             y == h.pol[n]
             shapes == FlagChange(x, y) \cup CommandChange(x, y) \cup RolesChange(x, y)
                       \cup {Change(g, "clause") : g \in ClauseGrades(x, y)}
  <2>1. /\ IsPolicy(x) /\ IsPolicy(y) /\ ~Blind(x.using) /\ ~Blind(x.check)
        /\ ~Blind(y.using) /\ ~Blind(y.check)
    BY DEF IsTable, Legible
  <2>2. shapes \subseteq {Change("safe", "renamed")}
    BY DEF DiffPolicyShapes, Quiet
  <2>3. x.permissive = y.permissive
    BY <1>1, <2>2 DEF FlagChange
  <2>4. x.cmd = y.cmd
    BY <1>1, <2>2 DEF CommandChange
  <2>5. x.roles = y.roles
    BY <1>1, <2>2 DEF RolesChange
  <2>6. ClauseGrades(x, y) = {}
    <3>1. \A g \in ClauseGrades(x, y) : Change(g, "clause") \in shapes
      OBVIOUS
    <3> QED
      BY <1>1, <2>2, <3>1
  <2> QED
    BY <2>1, <2>3, <2>4, <2>5, <2>6, GateEqual DEF Alike
<1>5. ASSUME NEW pr \in renames
      PROVE  /\ Alike(b.pol[pr[1]], h.pol[pr[2]])
             /\ pr[1] \in DOMAIN b.pol /\ pr[2] \in DOMAIN h.pol
  <2> DEFINE x == b.pol[pr[1]]
             y == h.pol[pr[2]]
  <2>1. /\ pr[1] \in DOMAIN b.pol /\ pr[2] \in DOMAIN h.pol
        /\ y.cmd = x.cmd /\ y.permissive = x.permissive /\ y.roles = x.roles
    BY RenameKeepsShape
  <2>2. /\ IsPolicy(x) /\ IsPolicy(y) /\ ~Blind(x.using) /\ ~Blind(x.check)
        /\ ~Blind(y.using) /\ ~Blind(y.check)
    BY <2>1 DEF IsTable, Legible
  <2>3. ClauseGrades(x, y) = {}
    BY DEF Renames
  <2> QED
    BY <2>1, <2>2, <2>3, GateEqual DEF Alike
<1>6. ASSUME NEW k \in DOMAIN b.pol PROVE \E n \in DOMAIN h.pol : Alike(b.pol[k], h.pol[n])
  <2>1. CASE k \in DOMAIN h.pol
    BY <1>4, <2>1
  <2>2. CASE k \notin DOMAIN h.pol
    <3>1. PICK pr \in renames : pr[1] = k
      BY <1>3, <2>2
    <3> QED
      BY <1>5, <3>1
  <2> QED
    BY <2>1, <2>2
<1>7. ASSUME NEW n \in DOMAIN h.pol PROVE \E k \in DOMAIN b.pol : Alike(b.pol[k], h.pol[n])
  <2>1. CASE n \in DOMAIN b.pol
    BY <1>4, <2>1
  <2>2. CASE n \notin DOMAIN b.pol
    <3>1. PICK pr \in renames : pr[2] = n
      BY <1>2, <2>2
    <3> QED
      BY <1>5, <3>1
  <2> QED
    BY <2>1, <2>2
<1> QED
  BY <1>6, <1>7

\* Tables whose policies are alike and whose flags and grants are equal admit
\* the same rows.
LEMMA AlikeAdmitsAlike ==
    ASSUME NEW b, NEW h, b.rls = h.rls, b.force = h.force, b.grants = h.grants,
           \A k \in DOMAIN b.pol : \E n \in DOMAIN h.pol : Alike(b.pol[k], h.pol[n]),
           \A n \in DOMAIN h.pol : \E k \in DOMAIN b.pol : Alike(b.pol[k], h.pol[n]),
           NEW r, NEW op \in Operations
    PROVE  AdmittedRows(h, r, op) = AdmittedRows(b, r, op)
<1>1. ASSUME NEW kind \in BOOLEAN, NEW k \in Governing(b, r, op, kind)
      PROVE  \E n \in Governing(h, r, op, kind) :
                GateRows(h.pol[n], op) = GateRows(b.pol[k], op)
  <2>1. /\ k \in DOMAIN b.pol /\ b.pol[k].permissive = kind /\ b.pol[k].cmd \in {"ALL", op[1]}
        /\ b.pol[k].roles \cap {r, Public} # {}
    BY <1>1 DEF Governing
  <2>2. PICK n \in DOMAIN h.pol : Alike(b.pol[k], h.pol[n])
    BY <2>1
  <2> QED
    BY <2>1, <2>2 DEF Alike, Governing
<1>2. ASSUME NEW kind \in BOOLEAN, NEW n \in Governing(h, r, op, kind)
      PROVE  \E k \in Governing(b, r, op, kind) :
                GateRows(h.pol[n], op) = GateRows(b.pol[k], op)
  <2>1. /\ n \in DOMAIN h.pol /\ h.pol[n].permissive = kind /\ h.pol[n].cmd \in {"ALL", op[1]}
        /\ h.pol[n].roles \cap {r, Public} # {}
    BY <1>2 DEF Governing
  <2>2. PICK k \in DOMAIN b.pol : Alike(b.pol[k], h.pol[n])
    BY <2>1
  <2> QED
    BY <2>1, <2>2 DEF Alike, Governing
<1>3. \A w :
         /\ (\E n \in Governing(h, r, op, TRUE) : w \in GateRows(h.pol[n], op))
            <=> \E k \in Governing(b, r, op, TRUE) : w \in GateRows(b.pol[k], op)
         /\ (\A n \in Governing(h, r, op, FALSE) : w \in GateRows(h.pol[n], op))
            <=> \A k \in Governing(b, r, op, FALSE) : w \in GateRows(b.pol[k], op)
  BY <1>1, <1>2
<1> QED
  BY <1>3 DEF AdmittedRows

\* For every set of roles, policies, clauses and starting tables and migrations
\* of any length: a diff that reports nothing but pure renames loses or gains no
\* access of any role, nor of the owner.
THEOREM QuietDiffsChangeNothing == Spec => []QuietMeansEqual
<1>1. ASSUME TypeOK, Legible(base), Legible(head), NEW mode \in Modes,
             Quiet(Changes(base, head, mode)), mode.detection # "relaxed"
      PROVE  Accesses(base) = Accesses(head)
  <2>1. IsTable(base) /\ IsTable(head)
    BY <1>1 DEF TypeOK
  <2>2. /\ Quiet(Flipped(base.rls, head.rls, "rls"))
        /\ Quiet(Flipped(base.force, head.force, "force"))
        /\ Quiet(DiffGrants(base, head))
        /\ Quiet(DiffPolicies(base, head, mode)) /\ Quiet(DiffPolicyShapes(base, head))
    BY <1>1 DEF Changes, Quiet
  <2>3. \A g, k : Change(g, k) = Change("safe", "renamed") => k = "renamed"
    BY DEF Change
  <2>4. base.rls = head.rls /\ base.force = head.force
    BY <2>2, <2>3 DEF Flipped, Quiet
  <2>5. base.grants = head.grants
    <3>1. /\ \A g \in base.grants \ head.grants : Change("safe", "revoked") \in DiffGrants(base, head)
          /\ \A g \in head.grants \ base.grants :
                Change(IF g[1] = Public /\ ~head.rls THEN "dangerous" ELSE "requires_review",
                       "granted") \in DiffGrants(base, head)
      BY DEF DiffGrants
    <3> QED
      BY <2>2, <2>3, <3>1 DEF Quiet
  <2>6. \A r, op : op \in Operations => AdmittedRows(head, r, op) = AdmittedRows(base, r, op)
    BY <1>1, <2>1, <2>2, <2>4, <2>5, PoliciesQuiet, AlikeAdmitsAlike
  <2> QED
    BY <2>6 DEF Accesses
<1>2. TypeOK => QuietMeansEqual
  BY <1>1 DEF QuietMeansEqual, Quiet
<1> QED
  BY <1>2, TypeCorrect, PTL

\* For every set of clauses: a counterexample that the diff prints beside a
\* loosened clause names columns such that every row with them is admitted now
\* and was not.
THEOREM CounterexamplesAreReal == Spec => []CounterexamplesLeak
<1>1. TypeOK => CounterexamplesLeak
  BY CounterexampleSound DEF TypeOK, IsTable, IsPolicy, CounterexamplesLeak
<1> QED
  BY <1>1, TypeCorrect, PTL
===============================================================================
