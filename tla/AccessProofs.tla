----------------------------- MODULE AccessProofs -----------------------------
(***************************************************************************)
(* The matrix covers what a session reaches: whatever the catalogue, every *)
(* row a session of the principal touches, itself or through any chain of  *)
(* doors, is one its cell admits, or the door it came through is listed    *)
(* as untraced.                                                            *)
(***************************************************************************)
EXTENDS Access, FiniteSetTheorems, WellFoundedInduction, TLAPS

-------------------------------------------------------------------------------
(* Closures.                                                               *)

\* A closure has what it starts from.
LEMMA ClosureStarts ==
    ASSUME NEW step, NEW from
    PROVE  from \subseteq Closure(step, from)
  BY DEF Closure

\* The steps do not leave a closure.
LEMMA ClosureClosed ==
    ASSUME NEW step, NEW from
    PROVE  Closed(step, Closure(step, from))
<1> DEFINE all == from \cup UNION {step[x] : x \in DOMAIN step}
           closed == {S \in SUBSET all : from \subseteq S /\ Closed(step, S)}
           C == {x \in all : \A S \in closed : x \in S}
<1>1. Closure(step, from) = C
  BY DEF Closure
<1>2. ASSUME NEW x \in C \cap DOMAIN step PROVE step[x] \subseteq C
  <2>1. \A y \in step[x] : y \in all
    OBVIOUS
  <2>2. ASSUME NEW S \in closed PROVE step[x] \subseteq S
    BY <2>2 DEF Closed
  <2> QED
    BY <2>1, <2>2
<1> QED
  BY <1>1, <1>2 DEF Closed

\* A closure is in every set with its start that the steps do not leave.
LEMMA ClosureLeast ==
    ASSUME NEW step, NEW from, NEW S, from \subseteq S, Closed(step, S)
    PROVE  Closure(step, from) \subseteq S
<1> DEFINE all == from \cup UNION {step[x] : x \in DOMAIN step}
           T == S \cap all
<1>1. T \in SUBSET all /\ from \subseteq T
  OBVIOUS
<1>2. Closed(step, T)
  <2> SUFFICES ASSUME NEW x \in T \cap DOMAIN step PROVE step[x] \subseteq T
    BY DEF Closed
  <2>1. step[x] \subseteq S /\ step[x] \subseteq all
    BY DEF Closed
  <2> QED
    BY <2>1
<1> QED
  BY <1>1, <1>2 DEF Closure

\* A closure from more has more.
LEMMA ClosureFromMore ==
    ASSUME NEW step, NEW from, NEW more, more \subseteq Closure(step, from)
    PROVE  Closure(step, more) \subseteq Closure(step, from)
  BY ClosureClosed, ClosureLeast
-------------------------------------------------------------------------------
(* Partitions and inheritance.                                             *)

Children(c) == [x \in Tables(c) |-> {d \in Tables(c) : c.tables[d].parent = x}]

\* The tables below a table.
LEMMA DescendantsOf ==
    ASSUME NEW c, NEW t
    PROVE  Descendants(c, t) = Closure(Children(c), {t}) \ {t}
  BY DEF Descendants, Children

\* A child is below its parent, and what is below it too.
LEMMA BelowChild ==
    ASSUME NEW c, IsCatalogue(c), NEW t \in Tables(c), NEW d \in Tables(c)
    PROVE  /\ Descendants(c, t) \subseteq Tables(c)
           /\ c.tables[d].parent = t => d \in Descendants(c, t)
           /\ d \in Descendants(c, t) => Descendants(c, d) \subseteq Descendants(c, t)
<1> DEFINE C(x) == Closure(Children(c), {x})
<1>1. Closed(Children(c), Tables(c))
  BY DEF Closed, Children
<1>2. C(t) \subseteq Tables(c)
  BY <1>1, ClosureLeast
<1>3. t \in C(t)
  BY ClosureStarts
<1>4. ASSUME c.tables[d].parent = t PROVE d \in Descendants(c, t)
  <2>1. d \in Children(c)[t] /\ t \in DOMAIN Children(c)
    BY <1>4 DEF Children
  <2>2. d \in C(t)
    BY <2>1, <1>3, ClosureClosed DEF Closed
  <2>3. d # t
    BY <1>4 DEF IsCatalogue, IsTable
  <2> QED
    BY <2>2, <2>3, DescendantsOf
<1>5. ASSUME d \in Descendants(c, t) PROVE Descendants(c, d) \subseteq Descendants(c, t)
  <2>1. d \in C(t)
    BY <1>5, DescendantsOf
  <2>2. C(d) \subseteq C(t)
    BY <2>1, ClosureFromMore
  <2>3. t \notin Descendants(c, d)
    <3>1. d \in Descendants(c, t) /\ t \notin Ancestors(c, t) /\ t \in Ancestors(c, d)
      BY <1>5, DescendantsOf DEF Ancestors
    <3>2. Ancestors(c, d) \cap Descendants(c, d) = {}
      BY DEF IsCatalogue, IsTable
    <3> QED
      BY <3>1, <3>2
  <2> QED
    BY <2>2, <2>3, DescendantsOf
<1> QED
  BY <1>2, <1>4, <1>5, DescendantsOf

\* A child has its parent's ancestors, and its parent.
LEMMA AncestorsOfChild ==
    ASSUME NEW c, IsCatalogue(c), NEW t \in Tables(c), NEW d \in Tables(c),
           c.tables[d].parent = t
    PROVE  Ancestors(c, d) = Ancestors(c, t) \cup {t}
<1>1. d \in Descendants(c, t)
  BY BelowChild
<1>2. ASSUME NEW a \in Ancestors(c, d), a # t PROVE a \in Ancestors(c, t)
  <2> DEFINE S == Closure(Children(c), {a}) \ {d}
  <2>1. a \in Tables(c) /\ d \in Closure(Children(c), {a}) /\ a # d
    BY <1>2, DescendantsOf DEF Ancestors
  <2>2. ASSUME t \notin S PROVE FALSE
    <3>1. {a} \subseteq S
      BY <2>1, ClosureStarts
    <3>2. Closed(Children(c), S)
      <4> SUFFICES ASSUME NEW x \in S \cap DOMAIN Children(c) PROVE Children(c)[x] \subseteq S
        BY DEF Closed
      <4>1. Children(c)[x] \subseteq Closure(Children(c), {a})
        BY ClosureClosed DEF Closed
      <4>2. d \notin Children(c)[x]
        BY <2>2 DEF Children
      <4> QED
        BY <4>1, <4>2
    <3>3. Closure(Children(c), {a}) \subseteq S
      BY <3>1, <3>2, ClosureLeast
    <3> QED
      BY <2>1, <3>3
  <2> QED
    BY <1>2, <2>1, <2>2, DescendantsOf DEF Ancestors
<1>3. ASSUME NEW a \in Ancestors(c, t) PROVE a \in Ancestors(c, d)
  BY <1>1, <1>3, BelowChild DEF Ancestors
<1> QED
  BY <1>1, <1>2, <1>3 DEF Ancestors

\* The tables from which rows are routed to t: itself and the tables it is a
\* partition of.
Routes(c, t) == {t} \cup {a \in Ancestors(c, t) : Declarative(c, a, t)}

\* What is routed to a table is routed to its partitions.
LEMMA RoutedOn ==
    ASSUME NEW c, IsCatalogue(c), NEW t \in Tables(c), NEW d \in Tables(c),
           c.tables[d].parent = t, c.tables[d].declarative
    PROVE  Routes(c, t) \subseteq Routes(c, d) /\ t \in Routes(c, d)
<1>1. Ancestors(c, d) = Ancestors(c, t) \cup {t} /\ d \in Descendants(c, t)
  BY AncestorsOfChild, BelowChild
<1>2. Declarative(c, t, d)
  <2>1. Descendants(c, t) \cap Ancestors(c, t) = {} /\ t \notin Descendants(c, t)
    BY DescendantsOf DEF IsCatalogue, IsTable
  <2> QED
    BY <1>1, <2>1 DEF Declarative
<1>3. ASSUME NEW a \in Ancestors(c, t), Declarative(c, a, t) PROVE Declarative(c, a, d)
  BY <1>1, <1>3 DEF Declarative
<1> QED
  BY <1>1, <1>2, <1>3 DEF Routes
-------------------------------------------------------------------------------
(* Direct access.                                                          *)

\* The rows a filter admits when s is the current user and p its privileges.
RowsOf(cell, s, p) ==
    {w \in Rows : /\ cell.any # {} => \E x \in cell.any : w \in ClauseRows[<<x, s, p>>]
                  /\ \A x \in cell.all : w \in ClauseRows[<<x, s, p>>]}
\* A cell may admit any row; what a cell may say.
Wide(cell) == cell.verdict \in {"open", "undecided"}
Verdicts == {"open", "undecided", "conditional", "denied", "attempted"}
IsCell(cell) ==
    /\ DOMAIN cell = {"verdict", "any", "all", "session", "privileges"}
    /\ cell.verdict \in Verdicts /\ cell.any \cup cell.all \subseteq Clauses

\* The engine never misses a privilege: it has it, or does not know.
LEMMA PrivilegesFound ==
    ASSUME NEW c, IsCatalogue(c), NEW r \in Users, NEW rel, NEW cmd
    PROVE  /\ r \in Held(c, r) /\ Held(c, r) \subseteq MemberOf(c, r)
           /\ Known(c, r) => Held(c, r) = MemberOf(c, r)
           /\ Holds(c, r, rel, cmd) \in {"yes", "no", "unknown"}
           /\ PrivilegePaths(c, r, rel, cmd) <=> Holds(c, r, rel, cmd) = "yes"
           /\ Holds(c, r, rel, cmd) = "yes" => Privileged(MemberOf(c, r), r, rel, cmd)
           /\ Privileged(MemberOf(c, r), r, rel, cmd) => Holds(c, r, rel, cmd) # "no"
           /\ Holds(c, r, rel, cmd) = "unknown" => ~Known(c, r)
           /\ ~Known(c, r) => Holds(c, r, rel, cmd) # "no"
<1>1. r \in MemberOf(c, r)
  BY ClosureStarts DEF MemberOf
<1>2. r \in Held(c, r) /\ Held(c, r) \subseteq MemberOf(c, r)
      /\ (Known(c, r) => Held(c, r) = MemberOf(c, r))
  BY <1>1 DEF Held
<1>3. Holds(c, r, rel, cmd) = IF PrivilegePaths(c, r, rel, cmd) THEN "yes"
                              ELSE IF Known(c, r) THEN "no" ELSE "unknown"
  BY DEF Holds
<1>4. PrivilegePaths(c, r, rel, cmd) => Privileged(MemberOf(c, r), r, rel, cmd)
  BY <1>2 DEF PrivilegePaths, Privileged
<1>5. Known(c, r) /\ Privileged(MemberOf(c, r), r, rel, cmd) => PrivilegePaths(c, r, rel, cmd)
  BY <1>2 DEF PrivilegePaths
<1> QED
  BY <1>2, <1>3, <1>4, <1>5

\* The cell of a role's own access is one of four verdicts on clauses.
LEMMA CellForType ==
    ASSUME NEW c, IsCatalogue(c), NEW r \in Users, NEW t \in Tables(c), NEW cmd
    PROVE  LET cell == CellFor(c, r, t, cmd) IN
           /\ IsCell(cell) /\ cell.verdict # "attempted"
           /\ cell.session = Unset /\ cell.privileges = Unset
           /\ Holds(c, r, c.tables[t], cmd) = "unknown" => cell.verdict = "undecided"
<1> DEFINE table == c.tables[t]
           applies(v) == {p \in table.policies : PolicyApplies(c, r, p, cmd) = v}
           permissive == {p \in applies("yes") : p.permissive}
           perm == {EffectiveClause(p, cmd) : p \in permissive} \ {Absent}
           restr == NarrowingRestrictive(applies("yes") \ permissive, cmd)
           filter == Filter(c, r, table, cmd)
           cell == CellFor(c, r, t, cmd)
<1>1. \A p \in table.policies : EffectiveClause(p, cmd) \in Clauses \cup {Open, Absent}
  BY DEF EffectiveClause, IsCatalogue, IsTable
<1>2. /\ \A x \in perm : x \in Clauses \cup {Open}
      /\ restr \subseteq Clauses
  BY <1>1 DEF NarrowingRestrictive
<1>3. \E v \in {"open", "undecided", "conditional", "denied"} : \E any, all \in SUBSET Clauses :
          filter = Cell(v, any, all)
  <2>1. restr \subseteq Clauses /\ (Open \notin perm => perm \subseteq Clauses)
    BY <1>2
  <2> HIDE DEF perm, restr
  <2>2. \/ filter = Verdict("denied") \/ filter = Verdict("undecided") \/ filter = Verdict("open")
        \/ filter = Cell("conditional", {}, restr)
        \/ filter = Cell("conditional", perm, restr) /\ Open \notin perm
    BY DEF Filter, perm, restr
  <2> QED
    BY <2>1, <2>2 DEF Verdict
<1>4. \/ cell = Verdict("undecided") \/ cell = Verdict("denied") \/ cell = Verdict("open")
      \/ cell = filter /\ Holds(c, r, table, cmd) # "unknown"
  BY DEF CellFor
<1>5. Holds(c, r, table, cmd) = "unknown" => cell = Verdict("undecided")
  BY DEF CellFor
<1> HIDE DEF cell, filter
<1>6. \E v \in {"open", "undecided", "conditional", "denied"} : \E any, all \in SUBSET Clauses :
          cell = Cell(v, any, all)
  <2>1. {} \in SUBSET Clauses
    OBVIOUS
  <2> QED
    BY <1>3, <1>4, <2>1, Zenon DEF Verdict
<1>7. IsCell(cell) /\ cell.verdict # "attempted" /\ cell.session = Unset /\ cell.privileges = Unset
  BY <1>6 DEF Cell, IsCell, Verdicts
<1>8. Holds(c, r, table, cmd) = "unknown" => cell.verdict = "undecided"
  BY <1>5 DEF Verdict, Cell
<1> QED
  BY <1>7, <1>8 DEF cell

\* What a statement sees of a table, its role's cell does not deny; and a
\* filter admits it, unless a parameter was set.
LEMMA CellForCovers ==
    ASSUME IsCatalogue(cat), Followable(cat), NEW r \in Users, NEW s, NEW t \in Tables(cat),
           NEW cmd \in Commands \ {"TRUNCATE"}, NEW chosen,
           Holds(cat, r, cat.tables[t], cmd) # "no"
    PROVE  LET cell == CellFor(cat, r, t, cmd)
               seen == Visible(r, s, t, cmd, chosen) IN
           /\ seen # {} => cell.verdict # "denied"
           /\ cell.verdict = "conditional" /\ chosen = Unset => seen \cap Rows \subseteq RowsOf(cell, s, r)
<1> DEFINE table == cat.tables[t]
           applies(v) == {p \in table.policies : PolicyApplies(cat, r, p, cmd) = v}
           permissive == {p \in applies("yes") : p.permissive}
           unknown == {p \in applies("unknown") : p.permissive}
           perm == {EffectiveClause(p, cmd) : p \in permissive} \ {Absent}
           restr == NarrowingRestrictive(applies("yes") \ permissive, cmd)
           filter == Filter(cat, r, table, cmd)
           cell == CellFor(cat, r, t, cmd)
           mine == {p \in table.policies :
                       p.cmd \in {"ALL", cmd} /\ p.roles \cap (MemberOf(cat, r) \cup {Public}) # {}}
           rows(p) == Passing(EffectiveClause(p, cmd), r, s, chosen)
           seen == Visible(r, s, t, cmd, chosen)
<1>1. \/ cell = Verdict("undecided") \/ cell = Verdict("open")
      \/ cell = filter /\ ~Exempt(cat, r, table)
  BY DEF CellFor
<1>2. SUFFICES ASSUME ~Exempt(cat, r, table), cell = filter
               PROVE  /\ seen # {} => filter.verdict # "denied"
                      /\ filter.verdict = "conditional" /\ chosen = Unset =>
                            seen \cap Rows \subseteq RowsOf(filter, s, r)
  BY <1>1 DEF Verdict, Cell
<1>3. Held(cat, r) \subseteq MemberOf(cat, r) /\ (Known(cat, r) => Held(cat, r) = MemberOf(cat, r))
      /\ r \in Held(cat, r)
  BY PrivilegesFound
<1>4. Bound(r, t, cmd)
  <2>1. table.rls /\ r \notin Super \cup Bypass /\ (table.owner \in Held(cat, r) => table.force)
    BY <1>2 DEF Exempt
  <2>2. table.owner \in MemberOf(cat, r) => table.force
    BY <1>3, <2>1 DEF Known, Followable
  <2> QED
    BY <2>1, <2>2 DEF Bound
<1>5. seen = {w \in UNION {rows(p) : p \in {q \in mine : q.permissive}} :
                 \A p \in mine : ~p.permissive /\ EffectiveClause(p, cmd) # Absent => w \in rows(p)}
  BY <1>4 DEF Visible
<1>6. \A p \in mine : p \in applies("yes") \/ (p \in applies("unknown") /\ ~cat.graph)
  BY <1>3 DEF PolicyApplies, Known
<1>7. \A p \in applies("yes") : p \in mine
  BY <1>3 DEF PolicyApplies
<1>8. \A p : EffectiveClause(p, cmd) = Absent => rows(p) = {}
  BY DEF Passing
<1>9. filter = IF permissive = {} THEN Verdict(IF unknown # {} THEN "undecided" ELSE "denied")
               ELSE IF perm = {} THEN Verdict("denied")
               ELSE IF Open \in perm
               THEN IF restr = {} THEN Verdict("open") ELSE Cell("conditional", {}, restr)
               ELSE IF unknown # {} THEN Verdict("undecided")
               ELSE Cell("conditional", perm, restr)
  BY DEF Filter
<1>10. ASSUME NEW w \in seen PROVE filter.verdict # "denied"
  <2>1. PICK p \in mine : p.permissive /\ w \in rows(p)
    BY <1>5
  <2>2. EffectiveClause(p, cmd) # Absent
    BY <1>8, <2>1
  <2>3. CASE p \in applies("yes")
    <3>1. permissive # {} /\ perm # {}
      BY <2>1, <2>2, <2>3
    <3> HIDE DEF filter, perm, permissive, unknown, restr
    <3> QED
      BY <1>9, <3>1 DEF Verdict, Cell
  <2>4. CASE p \in applies("unknown") /\ ~cat.graph
    <3>1. unknown # {}
      BY <2>1, <2>4
    <3>2. permissive # {} => perm # {}
      <4> SUFFICES ASSUME NEW q \in permissive PROVE EffectiveClause(q, cmd) # Absent
        OBVIOUS
      <4>1. q \in table.policies /\ q.permissive /\ q.cmd \in {"ALL", cmd}
        BY <1>7
      <4> QED
        BY <2>4, <4>1 DEF Followable
    <3> HIDE DEF filter, perm, permissive, unknown, restr
    <3> QED
      BY <1>9, <3>1, <3>2 DEF Verdict, Cell
  <2> QED
    BY <1>6, <2>1, <2>3, <2>4
<1>11. ASSUME NEW w \in seen \cap Rows, filter.verdict = "conditional", chosen = Unset
       PROVE  w \in RowsOf(filter, s, r)
  <2>1. \A p : EffectiveClause(p, cmd) \notin {Absent, Open} =>
                rows(p) = ClauseRows[<<EffectiveClause(p, cmd), s, r>>]
    BY <1>11 DEF Passing
  <2>2. \A x \in restr : w \in ClauseRows[<<x, s, r>>]
    <3> SUFFICES ASSUME NEW p \in applies("yes") \ permissive,
                        EffectiveClause(p, cmd) \notin {Absent, Open}
                 PROVE  w \in ClauseRows[<<EffectiveClause(p, cmd), s, r>>]
      BY DEF NarrowingRestrictive
    <3>1. p \in mine /\ ~p.permissive
      BY <1>7
    <3>2. w \in rows(p)
      BY <1>5, <1>11, <3>1
    <3> QED
      BY <2>1, <3>2
  <2>3. CASE Open \in perm
    <3>1. filter = Cell("conditional", {}, restr)
      <4> HIDE DEF filter, perm, restr
      <4>1. permissive # {} /\ perm # {}
        BY <2>3 DEF perm
      <4> HIDE DEF permissive
      <4> QED
        BY <1>9, <1>11, <2>3, <4>1 DEF Verdict, Cell
    <3> HIDE DEF filter, restr
    <3> QED
      BY <1>11, <2>2, <3>1 DEF RowsOf, Cell
  <2>4. CASE Open \notin perm
    <3>1. filter = Cell("conditional", perm, restr) /\ unknown = {}
      <4> HIDE DEF filter, perm, restr, permissive, unknown
      <4> QED
        BY <1>9, <1>11, <2>4 DEF Verdict, Cell
    <3>2. \E x \in perm : w \in ClauseRows[<<x, s, r>>]
      <4>1. PICK p \in mine : p.permissive /\ w \in rows(p)
        BY <1>5, <1>11
      <4>2. p \in permissive /\ EffectiveClause(p, cmd) # Absent
        BY <1>6, <1>8, <3>1, <4>1
      <4>3. EffectiveClause(p, cmd) \in perm
        BY <4>2
      <4>4. EffectiveClause(p, cmd) # Open
        BY <2>4, <4>3
      <4> QED
        BY <2>1, <4>1, <4>2, <4>3, <4>4
    <3> HIDE DEF filter, restr, perm
    <3> QED
      BY <1>11, <2>2, <3>1, <3>2 DEF RowsOf, Cell
  <2> QED
    BY <2>3, <2>4
<1> QED
  BY <1>10, <1>11

\* The ancestors of a table are in a line.
LEMMA AncestorsInLine ==
    ASSUME NEW c, IsCatalogue(c), NEW t \in Tables(c),
           NEW a \in Ancestors(c, t) \cup {t}, NEW b \in Ancestors(c, t) \cup {t}
    PROVE  a = b \/ a \in Descendants(c, b) \/ b \in Descendants(c, a)
<1> DEFINE C(x) == Closure(Children(c), {x})
           S == C(a) \ C(b)
<1>1. a \in Tables(c) /\ b \in Tables(c) /\ t \in C(a) /\ t \in C(b)
  BY ClosureStarts, DescendantsOf DEF Ancestors
<1>2. SUFFICES ASSUME a # b, a \notin C(b), b \notin C(a) PROVE FALSE
  BY DescendantsOf
<1>3. {a} \subseteq S
  BY <1>2, ClosureStarts
<1>4. C(a) \subseteq Tables(c)
  BY <1>1, BelowChild, DescendantsOf
<1>5. ASSUME NEW y \in S, NEW d \in Tables(c), c.tables[d].parent = y PROVE d \in S
  <2>1. y \in Tables(c) /\ d \in Children(c)[y]
    BY <1>4, <1>5 DEF Children
  <2>2. d \in C(a)
    BY <2>1, ClosureClosed DEF Closed, Children
  <2>3. ASSUME d \in C(b) PROVE FALSE
    <3>1. d # b
      BY <1>2, <2>2
    <3>2. b \in Ancestors(c, d)
      BY <1>1, <2>3, <3>1, DescendantsOf DEF Ancestors
    <3>3. b \in Ancestors(c, y) \cup {y}
      BY <1>5, <2>1, <3>2, AncestorsOfChild
    <3>4. y \in C(b)
      BY <3>3, ClosureStarts, DescendantsOf DEF Ancestors
    <3> QED
      BY <3>4
  <2> QED
    BY <2>2, <2>3
<1>6. Closed(Children(c), S)
  BY <1>5 DEF Closed, Children
<1>7. C(a) \subseteq S
  BY <1>3, <1>6, ClosureLeast
<1> QED
  BY <1>1, <1>7

\* Numbers have a least one.
LEMMA LeastNumber ==
    ASSUME NEW S, S \subseteq Nat, S # {}
    PROVE  \E k \in S : \A j \in S : k <= j
<1>1. PICK k \in S : \A j \in S : ~(<<j, k>> \in OpToRel(<, Nat))
  BY NatLessThanWellFounded, WFMin, Zenon
<1>2. ASSUME NEW j \in S PROVE k <= j
  <2>1. j \in Nat /\ k \in Nat
    OBVIOUS
  <2>2. ASSUME j < k PROVE <<j, k>> \in OpToRel(<, Nat)
    <3>1. <<j, k>> \in Nat \X Nat /\ <<j, k>>[1] < <<j, k>>[2]
      BY <2>1, <2>2
    <3> QED
      BY <3>1, Zenon DEF OpToRel
  <2>3. ~(j < k)
    BY <1>1, <2>2
  <2> QED
    BY <2>1, <2>3
<1> QED
  BY <1>2

\* Some tables have one with none of them below it.
LEMMA Lowest ==
    ASSUME NEW c, IsCatalogue(c), NEW S \in SUBSET Tables(c), S # {}
    PROVE  \E a \in S : Descendants(c, a) \cap S = {}
<1> DEFINE Size(a) == Cardinality(Descendants(c, a))
<1>1. \A a \in Tables(c) : Descendants(c, a) \in SUBSET Tables(c)
  BY BelowChild
<1>2. \A a \in Tables(c) : IsFiniteSet(Descendants(c, a)) /\ Size(a) \in Nat
  BY <1>1, FS_Subset, FS_CardinalityType DEF IsCatalogue
<1>3. {Size(a) : a \in S} \subseteq Nat /\ {Size(a) : a \in S} # {}
  BY <1>2
<1>4. PICK k \in {Size(a) : a \in S} : \A j \in {Size(a) : a \in S} : k <= j
  BY <1>3, LeastNumber
<1>5. PICK a \in S : k = Size(a)
  OBVIOUS
<1>6. ASSUME NEW b \in Descendants(c, a) \cap S PROVE FALSE
  <2>1. Descendants(c, b) \subseteq Descendants(c, a)
    BY BelowChild
  <2>2. b \notin Descendants(c, b)
    BY DescendantsOf
  <2>3. Size(b) <= Size(a) /\ Size(b) # Size(a)
    BY <1>2, <2>1, <2>2, FS_Subset
  <2>4. Size(a) <= Size(b)
    BY <1>4, <1>5
  <2> QED
    BY <1>2, <2>3, <2>4
<1> QED
  BY <1>6

\* A table that may be truncated is open to it, or undecided.
LEMMA TruncateOpen ==
    ASSUME IsCatalogue(cat), NEW who \in Users, NEW ts \in SUBSET Tables(cat),
           MayTruncate(who, ts), NEW t \in ts
    PROVE  Wide(CellFor(cat, who, t, "TRUNCATE"))
<1> DEFINE Has(a) == Holds(cat, who, cat.tables[a], "TRUNCATE") = "yes"
           Can(ref) == {a \in Ancestors(cat, ref) \cup {ref} : Has(a)}
           Low(ref) == {a \in Can(ref) : Descendants(cat, a) \cap Can(ref) = {}}
           Step == [x \in Tables(cat) |->
                       UNION {UNION {{a} \cup Descendants(cat, a) : a \in Low(ref)} :
                              ref \in Referencing(cat, x)}]
           E == Emptied(cat, who, t)
           T == Truncated(ts)
<1>1. E = Closure(Step, {t} \cup Descendants(cat, t))
  BY DEF Emptied
<1>11. /\ DOMAIN Step = Tables(cat)
       /\ \A x \in Tables(cat) : \A y \in Step[x] :
             \E ref \in Referencing(cat, x) : \E a \in Low(ref) : y \in {a} \cup Descendants(cat, a)
       /\ \A x \in Tables(cat) : \A ref \in Referencing(cat, x) : \A a \in Low(ref) :
             {a} \cup Descendants(cat, a) \subseteq Step[x]
  <2> HIDE DEF Low
  <2> QED
    OBVIOUS
<1>17. \A x : Referencing(cat, x) \subseteq Tables(cat)
  BY DEF Referencing
<1>12. \A ref \in Tables(cat) : \A a \in Can(ref) :
          a \in Tables(cat) /\ ref \in {a} \cup Descendants(cat, a)
  BY DEF Ancestors
<1>13. \A ref \in Tables(cat) : \A a \in Low(ref) : a \in Can(ref) /\ Descendants(cat, a) \cap Can(ref) = {}
  OBVIOUS
<1>14. \A ref \in Tables(cat) : \A a \in Ancestors(cat, ref) \cup {ref} : Has(a) => a \in Can(ref)
  OBVIOUS
<1>15. \A ref \in Tables(cat) : \A a \in Can(ref) : Descendants(cat, a) \cap Can(ref) = {} => a \in Low(ref)
  OBVIOUS
<1> HIDE DEF Step, Low, Can, E
<1>2. \A a \in Tables(cat) : /\ Holds(cat, who, cat.tables[a], "TRUNCATE") \in {"yes", "no", "unknown"}
                             /\ Holds(cat, who, cat.tables[a], "TRUNCATE") = "unknown" => ~Known(cat, who)
                             /\ ~Known(cat, who) => Holds(cat, who, cat.tables[a], "TRUNCATE") # "no"
                             /\ a \in ts => Holds(cat, who, cat.tables[a], "TRUNCATE") # "no"
  BY PrivilegesFound DEF MayTruncate, May, Relation
<1>3. T \subseteq Tables(cat) /\ \A x \in T : Referencing(cat, x) \subseteq T
  BY BelowChild DEF MayTruncate, Truncated
<1>4. ASSUME NEW x \in E \cap Tables(cat), NEW ref \in Referencing(cat, x), Can(ref) # {}
      PROVE  ref \in E
  <2>1. ref \in Tables(cat) /\ Can(ref) \in SUBSET Tables(cat)
    BY <1>12, <1>17
  <2>2. PICK a \in Low(ref) : TRUE
    BY <1>4, <1>15, <2>1, Lowest
  <2>3. ref \in {a} \cup Descendants(cat, a)
    BY <2>1, <1>12, <1>13
  <2>4. ref \in Step[x]
    BY <1>11, <2>2, <2>3
  <2>5. Step[x] \subseteq E
    BY <1>1, <1>11, ClosureClosed DEF Closed
  <2> QED
    BY <2>4, <2>5
<1>5. E \subseteq Tables(cat)
  <2>1. Closed(Step, Tables(cat))
    <3> SUFFICES ASSUME NEW x \in Tables(cat), NEW y \in Step[x] PROVE y \in Tables(cat)
      BY <1>11 DEF Closed
    <3>1. PICK ref \in Referencing(cat, x) : \E a \in Low(ref) : y \in {a} \cup Descendants(cat, a)
      BY <1>11
    <3>2. PICK a \in Low(ref) : y \in {a} \cup Descendants(cat, a)
      BY <3>1
    <3>3. a \in Tables(cat)
      BY <1>12, <1>13, <1>17
    <3> QED
      BY <3>2, <3>3, BelowChild
  <2>2. t \in Tables(cat)
    OBVIOUS
  <2>3. {t} \cup Descendants(cat, t) \subseteq Tables(cat)
    BY <2>2, BelowChild
  <2> QED
    BY <1>1, <2>1, <2>3, ClosureLeast
<1>6. ASSUME Known(cat, who) PROVE E \subseteq T
  <2>1. {t} \cup Descendants(cat, t) \subseteq T
    BY DEF Truncated
  <2>2. ASSUME NEW x \in T, NEW ref \in Referencing(cat, x), NEW a \in Low(ref)
        PROVE  {a} \cup Descendants(cat, a) \subseteq T
    <3>1. ref \in T /\ ref \in Tables(cat)
      BY <1>3 DEF Referencing
    <3>2. PICK u \in ts : ref \in {u} \cup Descendants(cat, u)
      BY <3>1 DEF Truncated
    <3>3. u \in Ancestors(cat, ref) \cup {ref}
      BY <3>2 DEF Ancestors
    <3>4. u \in Can(ref)
      <4>1. u \in Tables(cat) /\ Has(u)
        BY <1>2, <1>6
      <4> QED
        BY <1>14, <3>1, <3>3, <4>1
    <3>5. a = u \/ a \in Descendants(cat, u)
      <4>1. a \in Ancestors(cat, ref) \cup {ref} /\ u \notin Descendants(cat, a)
        BY <1>12, <1>13, <3>1, <3>4 DEF Ancestors
      <4> QED
        BY <3>1, <3>3, <4>1, AncestorsInLine
    <3>6. a \in Tables(cat)
      BY <1>12, <1>13, <3>1
    <3>7. {a} \cup Descendants(cat, a) \subseteq {u} \cup Descendants(cat, u)
      BY <3>5, <3>6, BelowChild
    <3> QED
      BY <3>7 DEF Truncated
  <2>3. Closed(Step, T)
    <3> SUFFICES ASSUME NEW x \in T \cap Tables(cat), NEW y \in Step[x] PROVE y \in T
      BY <1>11 DEF Closed
    <3>1. PICK ref \in Referencing(cat, x) : \E a \in Low(ref) : y \in {a} \cup Descendants(cat, a)
      BY <1>11
    <3> QED
      BY <2>2, <3>1
  <2> QED
    BY <1>1, <2>1, <2>3, ClosureLeast
<1>7. ASSUME Known(cat, who), TruncateBlockers(cat, who, t) # {} PROVE FALSE
  <2>1. PICK x \in E : \E y \in Referencing(cat, x) : y \notin E
    <3>1. TruncateBlockers(cat, who, t) = (UNION {Referencing(cat, x) : x \in E}) \ E
      BY DEF TruncateBlockers, E
    <3> QED
      BY <1>7, <3>1
  <2>5. PICK ref \in Referencing(cat, x) : ref \notin E
    BY <2>1
  <2>2. ref \in T /\ ref \in Tables(cat)
    BY <1>3, <1>6, <1>7 DEF Referencing
  <2>3. PICK u \in ts : ref \in {u} \cup Descendants(cat, u)
    BY <2>2 DEF Truncated
  <2>4. u \in Can(ref)
    BY <1>2, <1>7, <1>14, <2>2, <2>3 DEF Ancestors
  <2> QED
    BY <1>4, <1>5, <2>4, <2>5
<1>8. ASSUME ~Known(cat, who), NEW b \in TruncateBlockers(cat, who, t) PROVE Unclear(cat, who, b)
  <2>1. PICK x \in E : b \in Referencing(cat, x)
    BY DEF TruncateBlockers, E
  <2>2. b \notin E /\ b \in Tables(cat)
    BY <2>1 DEF TruncateBlockers, Referencing, E
  <2>3. Can(b) = {}
    BY <1>4, <1>5, <2>1, <2>2
  <2>4. ~Has(b)
    BY <1>14, <2>2, <2>3
  <2> QED
    BY <1>2, <1>8, <2>2, <2>4 DEF Unclear
<1>9. CellFor(cat, who, t, "TRUNCATE") =
         CASE Holds(cat, who, cat.tables[t], "TRUNCATE") = "unknown" -> Verdict("undecided")
           [] Holds(cat, who, cat.tables[t], "TRUNCATE") = "no" -> Verdict("denied")
           [] OTHER -> Verdict(IF TruncateBlockers(cat, who, t) = {} THEN "open"
                               ELSE IF \E b \in TruncateBlockers(cat, who, t) : Unclear(cat, who, b)
                               THEN "undecided" ELSE "denied")
  BY DEF CellFor
<1>10. TruncateBlockers(cat, who, t) = {} \/ \E b \in TruncateBlockers(cat, who, t) : Unclear(cat, who, b)
  BY <1>7, <1>8
<1>16. \/ CellFor(cat, who, t, "TRUNCATE") = Verdict("undecided")
       \/ CellFor(cat, who, t, "TRUNCATE") = Verdict("open")
  BY <1>2, <1>9, <1>10
<1> DEFINE cell == CellFor(cat, who, t, "TRUNCATE")
<1> HIDE DEF cell
<1>18. cell = Verdict("undecided") \/ cell = Verdict("open")
  BY <1>16 DEF cell
<1>19. Wide(cell)
  BY <1>18 DEF Wide, Verdict, Cell
<1> QED
  BY <1>19 DEF cell

-------------------------------------------------------------------------------
(* Cells: what they admit, and what merging keeps.                         *)

\* A wide cell admits every row.
LEMMA WideAdmitsAll ==
    ASSUME NEW cell, Wide(cell)
    PROVE  cell.verdict # "denied" /\ CellRows(cell) = Rows
<1>1. CASE cell.verdict = "open"
  BY <1>1 DEF CellRows
<1>2. CASE cell.verdict = "undecided"
  BY <1>2 DEF CellRows
<1> QED
  BY <1>1, <1>2 DEF Wide

\* y admits what x does.
Covers(x, y) ==
    /\ Wide(x) => Wide(y)
    /\ x.verdict = "conditional" => y.verdict # "denied" /\ CellRows(x) \subseteq CellRows(y)

\* Covering is transitive, over the cells a matrix has.
LEMMA CoversOn ==
    ASSUME NEW x, NEW y, NEW z, IsCell(y), y.verdict # "attempted", Covers(x, y), Covers(y, z)
    PROVE  Covers(x, z)
<1>1. Wide(y) => CellRows(z) = Rows /\ z.verdict # "denied"
  BY WideAdmitsAll DEF Covers
<1>2. CellRows(x) \subseteq Rows \/ x.verdict # "conditional"
  BY DEF CellRows
<1>3. Wide(y) \/ y.verdict = "conditional" \/ y.verdict = "denied"
  BY DEF IsCell, Verdicts, Wide
<1> QED
  BY <1>1, <1>2, <1>3 DEF Covers

\* The users who may read a filter.
LEMMA ReadersAre ==
    ASSUME me \in Users, NEW who
    PROVE  /\ Readers(who) \subseteq Users /\ Readers(who) # {}
           /\ \A other : Norm(who, me) = Norm(other, me) => Readers(who) = Readers(other)
<1>1. Unset \notin Users
  BY AccessAssumption DEF Users, Unset, Public
<1>2. /\ Readers(who) \subseteq Users /\ Readers(who) # {}
  BY DEF Readers
<1>3. ASSUME NEW other, Norm(who, me) = Norm(other, me) PROVE Readers(who) = Readers(other)
  BY <1>1, <1>3 DEF Norm, Readers
<1> QED
  BY <1>2, <1>3

\* A clause that does not read the user is the same for all.
LEMMA SameForAll ==
    ASSUME NEW x \in Clauses \ OnSession,
           NEW s \in Users, NEW t \in Users, NEW p \in Users, NEW q \in Users
    PROVE  ClauseRows[<<x, s, p>>] = ClauseRows[<<x, t, q>>]
  BY AccessAssumption

\* A clause that reads no table is the same whatever the privileges.
LEMMA SameByPrivileges ==
    ASSUME NEW x \in Clauses \ OnRelations, NEW s \in Users, NEW p \in Users, NEW q \in Users
    PROVE  ClauseRows[<<x, s, p>>] = ClauseRows[<<x, s, q>>]
  BY AccessAssumption

\* The rows of a conditional cell.
LEMMA ConditionalRows ==
    ASSUME NEW x, x.verdict = "conditional"
    PROVE  CellRows(x) = UNION {RowsOf(x, s, p) : s \in Readers(x.session), p \in Readers(x.privileges)}
  BY DEF CellRows, RowsOf

\* A conditional cell admits what its filter does, whoever of its readers reads it.
LEMMA ConditionalHas ==
    ASSUME NEW x, x.verdict = "conditional", NEW s \in Readers(x.session), NEW p \in Readers(x.privileges)
    PROVE  RowsOf(x, s, p) \subseteq CellRows(x)
  BY ConditionalRows

\* Equal filters admit the same rows.
LEMMA SameFilterRows ==
    ASSUME me \in Users, NEW x, NEW y, IsCell(x), IsCell(y),
           x.verdict = "conditional", y.verdict = "conditional", SameFilter(x, y, me)
    PROVE  CellRows(y) \subseteq CellRows(x)
<1> DEFINE used == x.any \cup x.all
<1>1. used \subseteq Clauses /\ y.any = x.any /\ y.all = x.all
  BY DEF IsCell, SameFilter
<1> SUFFICES ASSUME NEW s \in Readers(y.session), NEW p \in Readers(y.privileges),
                    NEW w \in RowsOf(y, s, p)
             PROVE  \E t \in Readers(x.session) : \E q \in Readers(x.privileges) : w \in RowsOf(x, t, q)
  BY ConditionalRows
<1>2. s \in Users /\ p \in Users
  BY ReadersAre
<1>3. \E t \in Readers(x.session) : \E q \in Readers(x.privileges) :
         /\ t \in Users /\ q \in Users
         /\ \A c \in used : ClauseRows[<<c, t, q>>] = ClauseRows[<<c, s, p>>]
  <2>1. CASE ~Depends(x, OnSession)
    <3>1. PICK t \in Readers(x.session), q \in Readers(x.privileges) : t \in Users /\ q \in Users
      BY ReadersAre
    <3>2. \A c \in used : ClauseRows[<<c, t, q>>] = ClauseRows[<<c, s, p>>]
      <4> SUFFICES ASSUME NEW c \in used PROVE ClauseRows[<<c, t, q>>] = ClauseRows[<<c, s, p>>]
        OBVIOUS
      <4>1. c \in Clauses \ OnSession
        BY <1>1, <2>1 DEF Depends
      <4> QED
        BY <1>2, <3>1, <4>1, SameForAll
    <3> QED
      BY <3>1, <3>2
  <2>2. CASE Depends(x, OnSession)
    <3>1. s \in Readers(x.session)
      BY <2>2, ReadersAre DEF SameFilter
    <3>2. CASE Depends(x, OnRelations)
      <4>1. p \in Readers(x.privileges)
        BY <3>2, ReadersAre DEF SameFilter
      <4> QED
        BY <1>2, <3>1, <4>1
    <3>3. CASE ~Depends(x, OnRelations)
      <4>1. PICK q \in Readers(x.privileges) : q \in Users
        BY ReadersAre
      <4>2. \A c \in used : ClauseRows[<<c, s, q>>] = ClauseRows[<<c, s, p>>]
        BY <1>1, <1>2, <3>3, <4>1, SameByPrivileges DEF Depends
      <4> QED
        BY <1>2, <3>1, <4>1, <4>2
    <3> QED
      BY <3>2, <3>3
  <2> QED
    BY <2>1, <2>2
<1>4. PICK t \in Readers(x.session), q \in Readers(x.privileges) :
         \A c \in used : ClauseRows[<<c, t, q>>] = ClauseRows[<<c, s, p>>]
  BY <1>3
<1>5. w \in RowsOf(x, t, q)
  BY <1>1, <1>4 DEF RowsOf
<1> QED
  BY <1>5

\* Merging loses nothing, and a door that only attempts a write admits nothing.
LEMMA FoldCovers ==
    ASSUME me \in Users, NEW cell, IsCell(cell), cell.verdict # "attempted",
           NEW doors, \A x \in doors : IsCell(x), NEW x \in {cell} \cup doors
    PROVE  LET merged == Fold(cell, doors, me) IN
           IsCell(merged) /\ merged.verdict # "attempted" /\ Covers(x, merged)
<1> DEFINE all == {cell} \cup doors
           top == {y \in all : \A z \in all : Rank(y) >= Rank(z)}
           first == IF cell \in top THEN cell ELSE CHOOSE y \in top : TRUE
           differ == first.verdict = "conditional" /\ \E y \in top : ~SameFilter(first, y, me)
           merged == Fold(cell, doors, me)
<1>1. merged = IF differ THEN Verdict("undecided") ELSE first
  BY DEF Fold
<1>2. \A y \in all : /\ IsCell(y) /\ Rank(y) \in 0..3
                     /\ Wide(y) <=> Rank(y) >= 2
                     /\ y.verdict = "conditional" <=> Rank(y) = 1
                     /\ y.verdict \in {"denied", "attempted"} <=> Rank(y) = 0
  BY DEF Rank, IsCell, Verdicts, Wide
<1>3. \E y \in all : \A z \in all : Rank(y) >= Rank(z)
  <2>1. CASE \E y \in all : Rank(y) = 3
    BY <1>2, <2>1
  <2>2. CASE (~\E y \in all : Rank(y) = 3) /\ \E y \in all : Rank(y) = 2
    BY <1>2, <2>2
  <2>3. CASE (~\E y \in all : Rank(y) \in {2, 3}) /\ \E y \in all : Rank(y) = 1
    BY <1>2, <2>3
  <2>4. CASE ~\E y \in all : Rank(y) \in {1, 2, 3}
    BY <1>2, <2>4
  <2> QED
    BY <2>1, <2>2, <2>3, <2>4
<1>4. first \in all /\ \A z \in all : Rank(first) >= Rank(z)
  BY <1>3
<1>5. cell \notin top => Rank(first) > Rank(cell)
  <2>1. ASSUME cell \notin top PROVE Rank(first) > Rank(cell)
    <3>1. PICK z \in all : ~(Rank(cell) >= Rank(z))
      BY <2>1
    <3>2. Rank(first) >= Rank(z) /\ cell \in all
      BY <1>4
    <3> QED
      BY <1>2, <1>4, <3>1, <3>2
  <2> QED
    BY <2>1
<1>6. first.verdict # "attempted"
  <2>1. CASE cell \in top
    BY <2>1
  <2>2. CASE cell \notin top
    BY <1>2, <1>4, <1>5, <2>2
  <2> QED
    BY <2>1, <2>2
<1>7. \A y \in all : Rank(y) = Rank(first) => y \in top
  BY <1>4
<1> HIDE DEF top, first, merged
<1>8. CASE differ
  <2>1. merged = Verdict("undecided")
    BY <1>1, <1>8
  <2>2. IsCell(merged) /\ merged.verdict = "undecided"
    BY <2>1 DEF Verdict, Cell, IsCell, Verdicts
  <2>3. CellRows(x) \subseteq Rows \/ x.verdict # "conditional"
    BY DEF CellRows
  <2> QED
    BY <2>2, <2>3 DEF Covers, Wide, CellRows, merged
<1>9. CASE ~differ
  <2>1. merged = first /\ IsCell(first)
    BY <1>1, <1>2, <1>4, <1>9
  <2>2. Wide(x) => Wide(first)
    BY <1>2, <1>4
  <2>3. ASSUME x.verdict = "conditional"
        PROVE  first.verdict # "denied" /\ CellRows(x) \subseteq CellRows(first)
    <3>1. Rank(first) >= 1
      BY <1>2, <1>4, <2>3
    <3>2. CASE Wide(first)
      BY <2>3, <3>2 DEF CellRows, Wide
    <3>3. CASE ~Wide(first)
      <4>1. Rank(first) = 1 /\ first.verdict = "conditional"
        BY <1>2, <1>4, <3>1, <3>3
      <4>2. x \in top
        BY <1>2, <1>7, <2>3, <4>1
      <4>3. SameFilter(first, x, me)
        BY <1>9, <4>1, <4>2
      <4>4. CellRows(x) \subseteq CellRows(first)
        BY <1>2, <2>1, <2>3, <4>1, <4>3, SameFilterRows
      <4> QED
        BY <4>1, <4>4
    <3> QED
      BY <3>2, <3>3
  <2>4. Covers(x, first)
    BY <2>2, <2>3 DEF Covers
  <2> QED
    BY <1>6, <2>1, <2>4 DEF merged
<1> QED
  BY <1>8, <1>9

-------------------------------------------------------------------------------
(* The engine's doors are doors: each has a key and a cell.                *)

\* A door has a key and a cell; all doors for a command have it in their key.
IsDoor(d) == DOMAIN d = {"key", "cell"} /\ IsCell(d.cell)
DoorsFor(doors, cmd) == \A d \in doors : IsDoor(d) /\ d.key = <<d.key[1], cmd>>

\* A verdict is a cell.
LEMMA VerdictCell ==
    ASSUME NEW v \in Verdicts
    PROVE  IsCell(Verdict(v)) /\ Verdict(v).verdict = v
  BY DEF Verdict, Cell, IsCell

\* A cell seen through a door is the cell, read by others.
LEMMA ViaCell ==
    ASSUME NEW x, IsCell(x), NEW s, NEW p
    PROVE  LET y == Via(x, s, p) IN
           /\ IsCell(y) /\ y.verdict = x.verdict /\ y.any = x.any /\ y.all = x.all
           /\ y.session = IF s = Unset THEN x.session ELSE s
           /\ y.privileges = IF p = Unset THEN x.privileges ELSE p
  BY DEF Via, IsCell

\* Every door is one.
LEMMA DoorIs ==
    ASSUME NEW rel, NEW cmd, NEW x, IsCell(x)
    PROVE  LET d == Door(rel, cmd, x) IN
           IsDoor(d) /\ d.key = <<rel, cmd>> /\ d.key[1] = rel /\ d.key[2] = cmd /\ d.cell = x
  BY DEF Door, IsDoor

\* The doors of an attempt.
LEMMA AttemptedDoors ==
    ASSUME NEW rel, NEW cmd
    PROVE  /\ DoorsFor(Attempted(rel, cmd), cmd)
           /\ cmd # "SELECT" => \E d \in Attempted(rel, cmd) : d.key = <<rel, cmd>> /\ d.cell.verdict = "attempted"
<1> DEFINE d == Door(rel, cmd, Verdict("attempted"))
<1>1. IsCell(Verdict("attempted")) /\ Verdict("attempted").verdict = "attempted"
  BY VerdictCell DEF Verdicts
<1>2. IsDoor(d) /\ d.key = <<rel, cmd>> /\ d.key[1] = rel /\ d.cell = Verdict("attempted")
  BY <1>1, DoorIs
<1>3. Attempted(rel, cmd) = IF cmd = "SELECT" THEN {} ELSE {d}
  BY DEF Attempted
<1> HIDE DEF d
<1> QED
  BY <1>1, <1>2, <1>3 DEF DoorsFor

\* The doors that are only known to be undecided.
LEMMA BeneathDoors ==
    ASSUME NEW c, NEW v, NEW cmd
    PROVE  DoorsFor(UndecidedBeneath(c, v, cmd), cmd)
<1>1. IsCell(Verdict("undecided"))
  BY VerdictCell DEF Verdicts
<1>2. \A t : LET d == Door(t, cmd, Verdict("undecided")) IN IsDoor(d) /\ d.key = <<d.key[1], cmd>>
  BY <1>1, DoorIs
<1> QED
  BY <1>2 DEF UndecidedBeneath, DoorsFor

\* The doors of an access.
LEMMA AccessDoors ==
    ASSUME NEW c, IsCatalogue(c), NEW r \in Users, NEW t \in Tables(c), NEW cmd, NEW s, NEW p
    PROVE  DoorsFor(Access(c, r, t, cmd, s, p), cmd)
<1> DEFINE d == Door(t, cmd, Via(CellFor(c, r, t, cmd), s, p))
<1>1. IsCell(Via(CellFor(c, r, t, cmd), s, p))
  BY CellForType, ViaCell
<1>2. IsDoor(d) /\ d.key = <<d.key[1], cmd>>
  BY <1>1, DoorIs
<1>3. Access(c, r, t, cmd, s, p) = {d} \cup IF PrivilegePaths(c, r, c.tables[t], cmd)
                                            THEN Attempted(t, cmd) ELSE {}
  BY DEF Access
<1> HIDE DEF d
<1> QED
  BY <1>2, <1>3, AttemptedDoors DEF DoorsFor

\* A view runs as a user, and reads a table or a view.
LEMMA ViewReads ==
    ASSUME NEW c, IsCatalogue(c), NEW r \in Users, NEW v \in Views(c)
    PROVE  /\ RunsAs(c, r, v) \in Users
           /\ c.views[v].ref \in Relations(c)
           /\ c.views[v].ref \in Tables(c) <=> c.views[v].ref \notin Views(c)
           /\ {c.views[v].mat, c.views[v].invoker, c.views[v].known} \subseteq BOOLEAN
  BY DEF IsCatalogue, RunsAs, Users, Relations

\* The views that are opened are views.
LEMMA OpenedViews ==
    ASSUME NEW c, NEW r, NEW v \in Views(c), NEW cmd
    PROVE  Opened(c, r, v, cmd) \subseteq Views(c) /\ v \in Opened(c, r, v, cmd)
<1> DEFINE Step == [x \in Views(c) |->
                       {y \in {c.views[x].ref} \cap Views(c) :
                           ~c.views[y].mat /\ Holds(c, RunsAs(c, r, x), c.views[y], cmd) = "yes"}]
<1>1. Closed(Step, Views(c))
  BY DEF Closed
<1>2. Opened(c, r, v, cmd) = Closure(Step, {v})
  BY DEF Opened
<1> HIDE DEF Step
<1>3. {v} \subseteq Views(c)
  OBVIOUS
<1> QED
  BY <1>1, <1>2, <1>3, ClosureLeast, ClosureStarts

\* The doors behind a view have cells.
LEMMA BelowDoors ==
    ASSUME NEW c, IsCatalogue(c), NEW r \in Users, NEW v \in Views(c), NEW cmd, NEW direct, NEW s
    PROVE  DoorsFor(Below(c, r, v, cmd, direct, s), cmd)
<1>1. RunsAs(c, r, v) \in Users
  BY ViewReads
<1>2. DoorsFor({}, cmd)
  BY DEF DoorsFor
<1>3. c.views[v].ref \in Tables(c) => DoorsFor(Access(c, RunsAs(c, r, v), c.views[v].ref, cmd, s, RunsAs(c, r, v)), cmd)
  BY <1>1, AccessDoors
<1> QED
  BY <1>2, <1>3, BeneathDoors, AttemptedDoors DEF Below

\* The doors of a walk down a view have cells.
LEMMA WalkDoors ==
    ASSUME NEW c, IsCatalogue(c), NEW r \in Users, NEW v \in Views(c), NEW cmd, NEW direct, NEW s
    PROVE  DoorsFor(Walk(c, r, v, cmd, direct, s), cmd)
<1>1. \A x \in Opened(c, r, v, cmd) : DoorsFor(Below(c, r, x, cmd, direct, s), cmd)
  BY OpenedViews, BelowDoors
<1> QED
  BY <1>1 DEF Walk, DoorsFor

\* The doors of views have cells.
LEMMA ViewsDoors ==
    ASSUME NEW c, IsCatalogue(c), NEW r \in Users, NEW cmd, NEW starts \in SUBSET Views(c),
           NEW direct, NEW s
    PROVE  DoorsFor(ViewDoors(c, r, cmd, starts, direct, s), cmd)
<1> DEFINE Of(v) == LET view == c.views[v] IN
              IF \/ cmd # "SELECT" /\ (\/ view.mat \/ Instead(c, v, cmd)
                                      \/ (view.known /\ cmd \notin view.updatable))
                 \/ Holds(c, r, view, cmd) = "no"
              THEN {}
              ELSE IF view.mat \/ Holds(c, r, view, cmd) = "unknown" \/ (cmd # "SELECT" /\ ~view.known)
              THEN UndecidedBeneath(c, v, cmd)
              ELSE Walk(c, r, v, cmd, direct, s)
<1>1. ViewDoors(c, r, cmd, starts, direct, s) = UNION {Of(v) : v \in starts}
  BY DEF ViewDoors
<1>2. ASSUME NEW v \in starts PROVE DoorsFor(Of(v), cmd)
  <2>1. Of(v) = {} \/ Of(v) = UndecidedBeneath(c, v, cmd) \/ Of(v) = Walk(c, r, v, cmd, direct, s)
    OBVIOUS
  <2>2. DoorsFor({}, cmd) /\ DoorsFor(Walk(c, r, v, cmd, direct, s), cmd)
    BY WalkDoors DEF DoorsFor
  <2> HIDE DEF Of
  <2> QED
    BY <2>1, <2>2, BeneathDoors
<1> HIDE DEF Of
<1> QED
  BY <1>1, <1>2 DEF DoorsFor

\* What a TRUNCATE CASCADE names are tables.
LEMMA CascadeTables ==
    ASSUME NEW c, IsCatalogue(c), NEW t \in Tables(c)
    PROVE  /\ TruncateCascade(c, t) \subseteq Tables(c) /\ t \in TruncateCascade(c, t)
           /\ Descendants(c, t) \subseteq TruncateCascade(c, t)
           /\ \A x \in TruncateCascade(c, t) : Descendants(c, x) \subseteq TruncateCascade(c, t)
<1> DEFINE Step == [x \in Tables(c) |-> UNION {{y} \cup Descendants(c, y) : y \in Referencing(c, x)}]
           T == TruncateCascade(c, t)
           S == {x \in T : Descendants(c, x) \subseteq T}
<1>1. T = Closure(Step, {t} \cup Descendants(c, t))
  BY DEF TruncateCascade
<1>2. \A x \in Tables(c) : Descendants(c, x) \subseteq Tables(c)
  BY BelowChild
<1>3. \A x \in Tables(c) : Step[x] \subseteq Tables(c)
  BY <1>2 DEF Referencing
<1>4. {t} \cup Descendants(c, t) \subseteq T
  BY <1>1, ClosureStarts
<1>5. T \subseteq Tables(c)
  <2>1. Closed(Step, Tables(c))
    BY <1>3 DEF Closed
  <2> QED
    BY <1>1, <1>2, <2>1, ClosureLeast
<1>6. \A x \in T : Step[x] \subseteq T
  <2>1. Closed(Step, T) /\ DOMAIN Step = Tables(c)
    BY <1>1, ClosureClosed
  <2> QED
    BY <1>5, <2>1 DEF Closed
<1>7. \A x \in {t} \cup Descendants(c, t) : Descendants(c, x) \subseteq {t} \cup Descendants(c, t)
  BY <1>2, BelowChild
<1>8. {t} \cup Descendants(c, t) \subseteq S
  BY <1>4, <1>7
<1>9. Closed(Step, S)
  <2> SUFFICES ASSUME NEW x \in S, NEW z \in Step[x] PROVE z \in S
    BY DEF Closed
  <2>1. PICK y \in Referencing(c, x) : z \in {y} \cup Descendants(c, y)
    BY <1>5
  <2>2. y \in Tables(c) /\ z \in Tables(c)
    BY <1>2, <2>1 DEF Referencing
  <2>3. {y} \cup Descendants(c, y) \subseteq T
    BY <1>5, <1>6
  <2>4. Descendants(c, z) \subseteq {y} \cup Descendants(c, y)
    BY <2>1, <2>2, BelowChild
  <2> QED
    BY <2>1, <2>3, <2>4
<1> HIDE DEF Step, S, T
<1>10. T \subseteq S
  BY <1>1, <1>8, <1>9, ClosureLeast
<1> QED
  BY <1>4, <1>5, <1>10 DEF S, T

\* What a statement of RunAsOwner does, before a set parameter is considered.
Run(c, owner, rel, cmd, session, privileges) ==
    IF rel \in Tables(c)
    THEN Access(c, owner, rel, cmd, session, IF privileges = Unset THEN owner ELSE privileges)
    ELSE {Door(d.key[1], cmd, IF d.cell.verdict = "attempted" THEN d.cell
                              ELSE Via(d.cell, session, privileges)) :
             d \in ViewDoors(c, owner, cmd, {rel}, TRUE, session)}
         \cup IF Holds(c, owner, c.views[rel], cmd) = "yes" THEN Attempted(rel, cmd) ELSE {}
\* A set parameter leaves no filter to rely on.
Guarded(sets, d) == IF sets /\ d.cell.verdict = "conditional"
                    THEN [d EXCEPT !.cell = Verdict("undecided")] ELSE d

\* The doors of what runs as an owner are those of its statements.
LEMMA RunAsOwnerIs ==
    ASSUME NEW c, NEW owner, NEW touches, NEW session, NEW privileges, NEW sets
    PROVE  RunAsOwner(c, owner, touches, session, privileges, sets) =
              {Guarded(sets, d) : d \in UNION {Run(c, owner, k[1], k[2], session, privileges) :
                                                  k \in UNION {Expanded(c, t) : t \in touches}}}
  BY DEF RunAsOwner, Run, Guarded

\* What a statement names are relations.
LEMMA ExpandedKeys ==
    ASSUME NEW c, IsCatalogue(c), NEW touch \in Touches(c), NEW k \in Expanded(c, touch)
    PROVE  /\ k = <<k[1], k[2]>> /\ k[1] \in Relations(c) /\ k[2] \in Commands
           /\ k[1] \in Views(c) => k[2] # "TRUNCATE"
<1>1. CASE touch[2] = "TRUNCATE"
  <2>1. touch[1] \in Tables(c) /\ Tables(c) \cap Views(c) = {}
    BY <1>1 DEF Touches, IsCatalogue
  <2>2. Descendants(c, touch[1]) \subseteq Tables(c)
    BY <2>1, BelowChild
  <2>3. PICK t \in {touch[1]} \cup Descendants(c, touch[1]) : k = <<t, "TRUNCATE">>
    BY <1>1 DEF Expanded
  <2> QED
    BY <2>1, <2>2, <2>3 DEF Relations, Commands
<1>2. CASE touch[2] = "TRUNCATE_CASCADE"
  <2>1. touch[1] \in Tables(c) /\ Tables(c) \cap Views(c) = {}
    BY <1>2 DEF Touches, IsCatalogue, Commands
  <2>2. TruncateCascade(c, touch[1]) \subseteq Tables(c)
    BY <2>1, CascadeTables
  <2>3. PICK t \in TruncateCascade(c, touch[1]) : k = <<t, "TRUNCATE">>
    BY <1>2 DEF Expanded
  <2> QED
    BY <2>1, <2>2, <2>3 DEF Relations, Commands
<1>3. CASE touch[2] \notin {"TRUNCATE", "TRUNCATE_CASCADE"}
  <2>1. k = touch
    BY <1>3 DEF Expanded
  <2>2. touch \in Relations(c) \X (Commands \ {"TRUNCATE"})
    BY <1>3 DEF Touches
  <2> QED
    BY <2>1, <2>2
<1> QED
  BY <1>1, <1>2, <1>3

\* The doors of a statement.
LEMMA RunDoors ==
    ASSUME NEW c, IsCatalogue(c), NEW owner \in Users, NEW rel \in Relations(c), NEW cmd,
           NEW session, NEW privileges
    PROVE  DoorsFor(Run(c, owner, rel, cmd, session, privileges), cmd)
<1>1. CASE rel \in Tables(c)
  BY <1>1, AccessDoors DEF Run
<1>2. CASE rel \notin Tables(c)
  <2> DEFINE V == ViewDoors(c, owner, cmd, {rel}, TRUE, session)
             M(d) == Door(d.key[1], cmd, IF d.cell.verdict = "attempted" THEN d.cell
                                         ELSE Via(d.cell, session, privileges))
  <2>1. {rel} \in SUBSET Views(c)
    BY <1>2 DEF Relations
  <2>2. DoorsFor(V, cmd)
    BY <2>1, ViewsDoors
  <2>3. ASSUME NEW d \in V PROVE IsDoor(M(d)) /\ M(d).key = <<M(d).key[1], cmd>>
    <3> DEFINE x == IF d.cell.verdict = "attempted" THEN d.cell ELSE Via(d.cell, session, privileges)
    <3>1. IsCell(x)
      BY <2>2, ViaCell DEF DoorsFor, IsDoor
    <3> HIDE DEF x
    <3>2. IsDoor(Door(d.key[1], cmd, x)) /\ Door(d.key[1], cmd, x).key = <<Door(d.key[1], cmd, x).key[1], cmd>>
      BY <3>1, DoorIs
    <3> QED
      BY <3>2 DEF x
  <2>4. Run(c, owner, rel, cmd, session, privileges) =
           {M(d) : d \in V} \cup IF Holds(c, owner, c.views[rel], cmd) = "yes"
                                 THEN Attempted(rel, cmd) ELSE {}
    BY <1>2 DEF Run
  <2> HIDE DEF V, M
  <2> QED
    BY <2>3, <2>4, AttemptedDoors DEF DoorsFor
<1> QED
  BY <1>1, <1>2

\* A door whose filter a set parameter may change.
LEMMA GuardedDoor ==
    ASSUME NEW d, IsDoor(d), NEW sets
    PROVE  LET e == Guarded(sets, d) IN
           /\ IsDoor(e) /\ e.key = d.key
           /\ sets /\ d.cell.verdict = "conditional" => e.cell.verdict = "undecided"
           /\ ~(sets /\ d.cell.verdict = "conditional") => e = d
<1>1. IsCell(Verdict("undecided")) /\ Verdict("undecided").verdict = "undecided"
  BY VerdictCell DEF Verdicts
<1> QED
  BY <1>1 DEF Guarded, IsDoor

\* What runs as an owner opens doors.
LEMMA RunAsOwnerDoors ==
    ASSUME NEW c, IsCatalogue(c), NEW owner \in Users, NEW touches \in SUBSET Touches(c),
           NEW session, NEW privileges, NEW sets
    PROVE  \A d \in RunAsOwner(c, owner, touches, session, privileges, sets) : IsDoor(d)
<1> SUFFICES ASSUME NEW t \in touches, NEW k \in Expanded(c, t),
                    NEW d \in Run(c, owner, k[1], k[2], session, privileges)
             PROVE  IsDoor(Guarded(sets, d))
  BY RunAsOwnerIs
<1>1. k[1] \in Relations(c)
  BY ExpandedKeys
<1>2. IsDoor(d)
  BY <1>1, RunDoors DEF DoorsFor
<1> QED
  BY <1>2, GuardedDoor
-------------------------------------------------------------------------------
(* What the matrix says of a statement.                                    *)

\* The matrix reckons with a door, read by s2 with the privileges of p2.
SeenAs(d, s2, p2, sets) ==
    /\ d.cell.verdict = "attempted" => d.key \in reach
    /\ d.key \in Keys(cat) /\ d.cell.verdict # "attempted" =>
          /\ Covers(Via(d.cell, s2, p2), cells[d.key])
          /\ sets /\ d.cell.verdict = "conditional" => Wide(cells[d.key])
\* The matrix reckons with a door, read by whoever it names.
Seen(d) == /\ d.cell.verdict = "attempted" => d.key \in reach
           /\ d.key \in Keys(cat) => Covers(d.cell, cells[d.key])
\* The matrix answers for a statement of who on t, in a session of s.
Answer(who, s, t, cmd, sets) ==
    LET cell == CellFor(cat, who, t, cmd)  mine == cells[<<t, cmd>>] IN
    /\ Wide(cell) => Wide(mine)
    /\ cell.verdict = "conditional" =>
          /\ mine.verdict # "denied"
          /\ IF sets THEN Wide(mine) ELSE RowsOf(cell, s, who) \subseteq CellRows(mine)
    /\ PrivilegePaths(cat, who, cat.tables[t], cmd) /\ cmd # "SELECT" => <<t, cmd>> \in reach
\* The matrix leaves every table below v open or undecided.
WideBelow(v, cmd) == \A t \in Chain(cat, v) \cap Tables(cat) : Wide(cells[<<t, cmd>>])
\* s reads what who may read.
Reads(s, who) == s \in Readers(who)

\* An access that the matrix reckons with answers for the statement.
LEMMA AccessAnswers ==
    ASSUME IsCatalogue(cat), NEW who \in Users, NEW s \in Users, NEW t \in Tables(cat),
           NEW cmd \in Commands, NEW session, NEW privileges, NEW s2, NEW p2, NEW sets \in BOOLEAN,
           \A d \in Access(cat, who, t, cmd, session, privileges) : SeenAs(d, s2, p2, sets),
           Reads(s, IF s2 = Unset THEN session ELSE s2),
           Reads(who, IF p2 = Unset THEN privileges ELSE p2)
    PROVE  Answer(who, s, t, cmd, sets)
<1> DEFINE own == CellFor(cat, who, t, cmd)
           one == Via(own, session, privileges)
           d == Door(t, cmd, one)
           two == Via(one, s2, p2)
           mine == cells[<<t, cmd>>]
<1>1. IsCell(own) /\ own.verdict # "attempted" /\ own.session = Unset /\ own.privileges = Unset
  BY CellForType
<1> HIDE DEF own
<1>2. /\ IsCell(one) /\ one.verdict = own.verdict /\ one.any = own.any /\ one.all = own.all
      /\ one.session = IF session = Unset THEN own.session ELSE session
      /\ one.privileges = IF privileges = Unset THEN own.privileges ELSE privileges
  BY <1>1, ViaCell
<1> HIDE DEF one
<1>3. /\ two.verdict = own.verdict /\ two.any = own.any /\ two.all = own.all
      /\ two.session = IF s2 = Unset THEN session ELSE s2
      /\ two.privileges = IF p2 = Unset THEN privileges ELSE p2
  <2>1. /\ two.verdict = one.verdict /\ two.any = one.any /\ two.all = one.all
        /\ two.session = IF s2 = Unset THEN one.session ELSE s2
        /\ two.privileges = IF p2 = Unset THEN one.privileges ELSE p2
    BY <1>2, ViaCell
  <2> HIDE DEF two
  <2> QED
    BY <1>1, <1>2, <2>1
<1>4. d \in Access(cat, who, t, cmd, session, privileges) /\ d.key = <<t, cmd>> /\ d.cell = one
  <2>1. d \in Access(cat, who, t, cmd, session, privileges)
    BY DEF Access, one, own
  <2>2. d.key = <<t, cmd>> /\ d.cell = one
    BY <1>2, DoorIs
  <2> QED
    BY <2>1, <2>2
<1>5. <<t, cmd>> \in Keys(cat)
  BY DEF Keys
<1> HIDE DEF d, two
<1>6. Covers(two, mine) /\ (sets /\ own.verdict = "conditional" => Wide(mine))
  <2>1. SeenAs(d, s2, p2, sets)
    BY <1>4
  <2> QED
    BY <1>1, <1>2, <1>4, <1>5, <2>1 DEF SeenAs, two
<1>7. own.verdict = "conditional" => RowsOf(own, s, who) \subseteq CellRows(two)
  <2> SUFFICES ASSUME own.verdict = "conditional", NEW w \in RowsOf(own, s, who)
               PROVE  w \in CellRows(two)
    OBVIOUS
  <2>1. w \in RowsOf(two, s, who)
    BY <1>3 DEF RowsOf
  <2>2. s \in Readers(two.session) /\ who \in Readers(two.privileges)
    BY <1>3 DEF Reads
  <2> QED
    BY <1>3, <2>1, <2>2, ConditionalHas
<1>8. PrivilegePaths(cat, who, cat.tables[t], cmd) /\ cmd # "SELECT" => <<t, cmd>> \in reach
  <2> SUFFICES ASSUME PrivilegePaths(cat, who, cat.tables[t], cmd), cmd # "SELECT"
               PROVE  <<t, cmd>> \in reach
    OBVIOUS
  <2>1. Attempted(t, cmd) \subseteq Access(cat, who, t, cmd, session, privileges)
    BY DEF Access
  <2>2. PICK e \in Attempted(t, cmd) : e.key = <<t, cmd>> /\ e.cell.verdict = "attempted"
    BY AttemptedDoors
  <2> QED
    BY <2>1, <2>2 DEF SeenAs
<1>9. /\ Wide(own) => Wide(mine)
      /\ own.verdict = "conditional" =>
            /\ mine.verdict # "denied"
            /\ IF sets THEN Wide(mine) ELSE RowsOf(own, s, who) \subseteq CellRows(mine)
  BY <1>3, <1>6, <1>7 DEF Covers, Wide
<1> QED
  BY <1>8, <1>9 DEF Answer, own

\* What the matrix says of opening v as r, for a session of s.
WalkSeen(r, s, v, cmd, sets) ==
    \A x \in Opened(cat, r, v, cmd) :
       LET ref == cat.views[x].ref  who == RunsAs(cat, r, x) IN
       /\ ref \in Tables(cat) => Answer(who, s, ref, cmd, sets)
       /\ ref \in Views(cat) =>
             /\ cat.views[ref].mat /\ cmd = "SELECT" => WideBelow(ref, cmd)
             /\ ~cat.views[ref].mat /\ Holds(cat, who, cat.views[ref], cmd) = "unknown" => WideBelow(ref, cmd)
             /\ ~cat.views[ref].mat /\ Holds(cat, who, cat.views[ref], cmd) = "yes" /\ cmd # "SELECT" =>
                   <<ref, cmd>> \in reach

\* Tables known to be undecided are.
LEMMA BeneathWide ==
    ASSUME NEW v, NEW cmd \in Commands, NEW s2, NEW p2, NEW sets,
           \A d \in UndecidedBeneath(cat, v, cmd) : SeenAs(d, s2, p2, sets)
    PROVE  WideBelow(v, cmd)
<1> SUFFICES ASSUME NEW t \in Chain(cat, v) \cap Tables(cat) PROVE Wide(cells[<<t, cmd>>])
  BY DEF WideBelow
<1> DEFINE x == Verdict("undecided")
           d == Door(t, cmd, x)
<1>1. IsCell(x) /\ x.verdict = "undecided"
  BY VerdictCell DEF Verdicts
<1> HIDE DEF x
<1>2. Via(x, s2, p2).verdict = "undecided"
  BY <1>1, ViaCell
<1>3. d.key = <<t, cmd>> /\ d.cell = x
  BY <1>1, DoorIs
<1>4. d \in UndecidedBeneath(cat, v, cmd)
  BY DEF UndecidedBeneath, TablesBeneath, x
<1>5. <<t, cmd>> \in Keys(cat)
  BY DEF Keys
<1> HIDE DEF d
<1>6. Covers(Via(x, s2, p2), cells[<<t, cmd>>])
  BY <1>1, <1>3, <1>4, <1>5 DEF SeenAs
<1> QED
  BY <1>2, <1>6 DEF Covers, Wide

\* A user reads for itself.
LEMMA ReadsOwn ==
    ASSUME NEW s \in Users
    PROVE  s # Unset /\ Reads(s, s)
<1>1. Unset \notin Users
  BY AccessAssumption DEF Users, Unset, Public
<1> QED
  BY <1>1 DEF Reads, Readers

\* A walk down the views that the matrix reckons with answers for every view
\* opened on the way.
LEMMA WalkAnswers ==
    ASSUME IsCatalogue(cat), NEW r \in Users, NEW s \in Users, NEW v \in Views(cat),
           NEW cmd \in Commands, NEW direct \in BOOLEAN, NEW session, NEW s2, NEW p2, NEW sets \in BOOLEAN,
           \A d \in Walk(cat, r, v, cmd, direct, session) : SeenAs(d, s2, p2, sets),
           Reads(s, IF s2 = Unset THEN session ELSE s2),
           p2 = Unset \/ Readers(p2) = Users,
           ~direct => \A t \in Tables(cat) : Answer(r, s, t, cmd, sets)
    PROVE  WalkSeen(r, s, v, cmd, sets)
<1> SUFFICES ASSUME NEW x \in Opened(cat, r, v, cmd)
             PROVE  LET ref == cat.views[x].ref  who == RunsAs(cat, r, x) IN
       /\ ref \in Tables(cat) => Answer(who, s, ref, cmd, sets)
       /\ ref \in Views(cat) =>
             /\ cat.views[ref].mat /\ cmd = "SELECT" => WideBelow(ref, cmd)
             /\ ~cat.views[ref].mat /\ Holds(cat, who, cat.views[ref], cmd) = "unknown" => WideBelow(ref, cmd)
             /\ ~cat.views[ref].mat /\ Holds(cat, who, cat.views[ref], cmd) = "yes" /\ cmd # "SELECT" =>
                   <<ref, cmd>> \in reach
  BY DEF WalkSeen
<1> DEFINE ref == cat.views[x].ref
           who == RunsAs(cat, r, x)
           holds == Holds(cat, who, cat.views[ref], cmd)
           below == Below(cat, r, x, cmd, direct, session)
<1>1. x \in Views(cat)
  BY OpenedViews
<1>2. who \in Users /\ (ref \in Tables(cat) <=> ref \notin Views(cat)) /\ ref \in Relations(cat)
  BY <1>1, ViewReads
<1>3. \A d \in below : SeenAs(d, s2, p2, sets)
  BY DEF Walk
<1>4. below = IF ref \in Tables(cat)
              THEN IF cat.views[x].invoker /\ ~direct THEN {} ELSE Access(cat, who, ref, cmd, session, who)
              ELSE IF cat.views[ref].mat
              THEN IF cmd = "SELECT" THEN UndecidedBeneath(cat, ref, cmd) ELSE {}
              ELSE CASE holds = "no" -> {}
                     [] holds = "unknown" -> UndecidedBeneath(cat, ref, cmd)
                     [] OTHER -> Attempted(ref, cmd)
  BY DEF Below
<1>5. cat.views[x].invoker => who = r
  BY DEF RunsAs
<1> HIDE DEF below, holds, who, ref
<1>6. ASSUME ref \in Tables(cat) PROVE Answer(who, s, ref, cmd, sets)
  <2>1. CASE cat.views[x].invoker /\ ~direct
    BY <1>5, <1>6, <2>1
  <2>2. CASE ~(cat.views[x].invoker /\ ~direct)
    <3>1. below = Access(cat, who, ref, cmd, session, who)
      BY <1>4, <1>6, <2>2
    <3>2. Reads(who, IF p2 = Unset THEN who ELSE p2)
      BY <1>2, ReadsOwn DEF Reads
    <3> QED
      BY <1>2, <1>3, <1>6, <3>1, <3>2, AccessAnswers
  <2> QED
    BY <2>1, <2>2
<1>7. ASSUME ref \in Views(cat), cat.views[ref].mat, cmd = "SELECT" PROVE WideBelow(ref, cmd)
  <2>1. below = UndecidedBeneath(cat, ref, cmd)
    BY <1>2, <1>4, <1>7
  <2> QED
    BY <1>3, <2>1, BeneathWide
<1>8. ASSUME ref \in Views(cat), ~cat.views[ref].mat, holds = "unknown" PROVE WideBelow(ref, cmd)
  <2>1. below = UndecidedBeneath(cat, ref, cmd)
    BY <1>2, <1>4, <1>8
  <2> QED
    BY <1>3, <2>1, BeneathWide
<1>9. ASSUME ref \in Views(cat), ~cat.views[ref].mat, holds = "yes", cmd # "SELECT" PROVE <<ref, cmd>> \in reach
  <2>1. below = Attempted(ref, cmd)
    BY <1>2, <1>4, <1>9
  <2>2. PICK d \in below : d.key = <<ref, cmd>> /\ d.cell.verdict = "attempted"
    BY <1>9, <2>1, AttemptedDoors
  <2> QED
    BY <1>3, <2>2 DEF SeenAs
<1> QED
  BY <1>6, <1>7, <1>8, <1>9 DEF ref, who, holds

\* What the matrix says of a view that may be opened.
ViewSeen(r, s, v, cmd, sets) ==
    LET view == cat.views[v] IN
    ~Instead(cat, v, cmd) /\ (cmd # "SELECT" => ~view.mat /\ cmd \in view.updatable) =>
       IF view.mat \/ Holds(cat, r, view, cmd) = "unknown" \/ (cmd # "SELECT" /\ ~view.known)
       THEN WideBelow(v, cmd) ELSE WalkSeen(r, s, v, cmd, sets)

\* The doors of a view answer for it.
LEMMA ViewAnswers ==
    ASSUME IsCatalogue(cat), NEW r \in Users, NEW s \in Users, NEW starts \in SUBSET Views(cat),
           NEW v \in starts,
           NEW cmd \in Commands, NEW direct \in BOOLEAN, NEW session, NEW s2, NEW p2, NEW sets \in BOOLEAN,
           \A d \in ViewDoors(cat, r, cmd, starts, direct, session) : SeenAs(d, s2, p2, sets),
           Reads(s, IF s2 = Unset THEN session ELSE s2),
           p2 = Unset \/ Readers(p2) = Users,
           ~direct => \A t \in Tables(cat) : Answer(r, s, t, cmd, sets),
           Holds(cat, r, cat.views[v], cmd) # "no"
    PROVE  ViewSeen(r, s, v, cmd, sets)
<1> DEFINE view == cat.views[v]
           unclear == view.mat \/ Holds(cat, r, view, cmd) = "unknown" \/ (cmd # "SELECT" /\ ~view.known)
<1> SUFFICES ASSUME ~Instead(cat, v, cmd), cmd # "SELECT" => ~view.mat /\ cmd \in view.updatable
             PROVE  IF unclear THEN WideBelow(v, cmd) ELSE WalkSeen(r, s, v, cmd, sets)
  BY DEF ViewSeen
<1>1. (IF unclear THEN UndecidedBeneath(cat, v, cmd) ELSE Walk(cat, r, v, cmd, direct, session))
      \subseteq ViewDoors(cat, r, cmd, starts, direct, session)
  BY DEF ViewDoors
<1>2. CASE unclear
  <2>1. \A d \in UndecidedBeneath(cat, v, cmd) : SeenAs(d, s2, p2, sets)
    BY <1>1, <1>2
  <2> QED
    BY <1>2, <2>1, BeneathWide
<1>3. CASE ~unclear
  <2>1. \A d \in Walk(cat, r, v, cmd, direct, session) : SeenAs(d, s2, p2, sets)
    BY <1>1, <1>3
  <2>2. v \in Views(cat)
    OBVIOUS
  <2>3. WalkSeen(r, s, v, cmd, sets)
    BY <2>1, <2>2, WalkAnswers
  <2> QED
    BY <1>3, <2>3
<1> QED
  BY <1>2, <1>3

\* A cell covered is covered when read by the same users.
LEMMA CoversVia ==
    ASSUME NEW x, IsCell(x), NEW y, Covers(x, y)
    PROVE  Covers(Via(x, Unset, Unset), y)
<1> DEFINE z == Via(x, Unset, Unset)
<1>1. /\ z.verdict = x.verdict /\ z.any = x.any /\ z.all = x.all
      /\ z.session = x.session /\ z.privileges = x.privileges
  BY ViaCell
<1> HIDE DEF z
<1>2. CellRows(z) = CellRows(x)
  BY <1>1 DEF CellRows
<1> QED
  BY <1>1, <1>2 DEF Covers, Wide, z

\* What the matrix reckons with when what runs as an owner is followed.
LEMMA GuardedSeen ==
    ASSUME NEW d, IsDoor(d), NEW sets, Seen(Guarded(sets, d))
    PROVE  /\ d.cell.verdict = "attempted" => d.key \in reach
           /\ d.key \in Keys(cat) /\ d.cell.verdict # "attempted" =>
                 /\ Covers(d.cell, cells[d.key])
                 /\ sets /\ d.cell.verdict = "conditional" => Wide(cells[d.key])
<1> DEFINE e == Guarded(sets, d)
<1>1. /\ e.key = d.key
      /\ sets /\ d.cell.verdict = "conditional" => e.cell.verdict = "undecided"
      /\ ~(sets /\ d.cell.verdict = "conditional") => e = d
  BY GuardedDoor
<1>2. (e.cell.verdict = "attempted" => e.key \in reach) /\ (e.key \in Keys(cat) => Covers(e.cell, cells[e.key]))
  BY DEF Seen
<1> HIDE DEF e
<1>3. CASE sets /\ d.cell.verdict = "conditional"
  <2>1. d.key \in Keys(cat) => Wide(cells[d.key])
    BY <1>1, <1>2, <1>3 DEF Covers, Wide
  <2>2. CellRows(d.cell) \subseteq Rows
    BY <1>3 DEF CellRows
  <2> QED
    BY <1>3, <2>1, <2>2 DEF Covers, Wide, CellRows
<1>4. CASE ~(sets /\ d.cell.verdict = "conditional")
  BY <1>1, <1>2, <1>4
<1> QED
  BY <1>3, <1>4

\* A statement of what runs as an owner, and the doors it opens.
LEMMA StatementSeen ==
    ASSUME IsCatalogue(cat), NEW owner \in Users, NEW touches \in SUBSET Touches(cat),
           NEW session, NEW privileges, NEW sets,
           \A d \in RunAsOwner(cat, owner, touches, session, privileges, sets) : Seen(d),
           NEW touch \in touches, NEW k \in Expanded(cat, touch)
    PROVE  /\ k[1] \in Tables(cat) =>
                 \A d \in Access(cat, owner, k[1], k[2], session, IF privileges = Unset THEN owner ELSE privileges) :
                    SeenAs(d, Unset, Unset, sets)
           /\ k[1] \notin Tables(cat) =>
                 /\ \A d \in ViewDoors(cat, owner, k[2], {k[1]}, TRUE, session) :
                       SeenAs(d, session, privileges, sets)
                 /\ Holds(cat, owner, cat.views[k[1]], k[2]) = "yes" /\ k[2] # "SELECT" => k \in reach
<1> DEFINE run == Run(cat, owner, k[1], k[2], session, privileges)
<1>1. k = <<k[1], k[2]>> /\ k[1] \in Relations(cat) /\ k[2] \in Commands
  BY ExpandedKeys
<1>2. DoorsFor(run, k[2])
  BY <1>1, RunDoors
<1>3. ASSUME NEW d \in run PROVE Seen(Guarded(sets, d))
  <2>1. d \in UNION {Run(cat, owner, j[1], j[2], session, privileges) :
                        j \in UNION {Expanded(cat, t) : t \in touches}}
    OBVIOUS
  <2>2. Guarded(sets, d) \in RunAsOwner(cat, owner, touches, session, privileges, sets)
    BY <2>1, RunAsOwnerIs
  <2> QED
    BY <2>2
<1>4. \A d \in run : /\ d.cell.verdict = "attempted" => d.key \in reach
                     /\ d.key \in Keys(cat) /\ d.cell.verdict # "attempted" =>
                           /\ Covers(d.cell, cells[d.key])
                           /\ sets /\ d.cell.verdict = "conditional" => Wide(cells[d.key])
  BY <1>2, <1>3, GuardedSeen DEF DoorsFor
<1>5. ASSUME k[1] \in Tables(cat),
             NEW d \in Access(cat, owner, k[1], k[2], session, IF privileges = Unset THEN owner ELSE privileges)
      PROVE  SeenAs(d, Unset, Unset, sets)
  <2>1. d \in run
    BY <1>5 DEF Run
  <2>2. IsCell(d.cell)
    BY <1>2, <2>1 DEF DoorsFor, IsDoor
  <2> QED
    BY <1>4, <2>1, <2>2, CoversVia DEF SeenAs
<1>6. ASSUME k[1] \notin Tables(cat), NEW d \in ViewDoors(cat, owner, k[2], {k[1]}, TRUE, session)
      PROVE  SeenAs(d, session, privileges, sets)
  <2> DEFINE x == IF d.cell.verdict = "attempted" THEN d.cell ELSE Via(d.cell, session, privileges)
             e == Door(d.key[1], k[2], x)
  <2>1. e \in run
    BY <1>6 DEF Run
  <2>2. DoorsFor(ViewDoors(cat, owner, k[2], {k[1]}, TRUE, session), k[2])
    BY <1>1, <1>6, ViewsDoors DEF Relations
  <2>3. d.key = <<d.key[1], k[2]>> /\ IsCell(d.cell)
    BY <2>2 DEF DoorsFor, IsDoor
  <2>4. IsCell(x)
    BY <2>3, ViaCell
  <2>5. d.cell.verdict # "attempted" => x.verdict = d.cell.verdict
    BY <2>3, ViaCell
  <2>6. d.cell.verdict = "attempted" => x.verdict = "attempted"
    OBVIOUS
  <2>7. d.cell.verdict # "attempted" => x = Via(d.cell, session, privileges)
    OBVIOUS
  <2> HIDE DEF x
  <2>8. e.key = d.key /\ e.cell = x
    BY <2>3, <2>4, DoorIs
  <2> HIDE DEF e
  <2> QED
    BY <1>4, <2>1, <2>5, <2>6, <2>7, <2>8 DEF SeenAs
<1>7. ASSUME k[1] \notin Tables(cat), Holds(cat, owner, cat.views[k[1]], k[2]) = "yes", k[2] # "SELECT"
      PROVE  k \in reach
  <2>1. Attempted(k[1], k[2]) \subseteq run
    BY <1>7 DEF Run
  <2>2. PICK d \in Attempted(k[1], k[2]) : d.key = <<k[1], k[2]>> /\ d.cell.verdict = "attempted"
    BY <1>7, AttemptedDoors
  <2>3. <<k[1], k[2]>> \in reach
    BY <1>4, <2>1, <2>2
  <2> QED
    BY <1>1, <2>3
<1> QED
  BY <1>5, <1>6, <1>7

-------------------------------------------------------------------------------
(* The statements of a session.                                            *)

\* The form of a statement.
Choices == {Unset, "here", "before"}
IsStatement(e) ==
    /\ DOMAIN e = {"as", "session", "rel", "cmd", "named", "rows", "chosen", "behind", "moved", "guessed"}
    /\ e.as \in Users /\ e.session \in Users /\ e.cmd \in Commands /\ e.rel \in Relations(cat)
    /\ e.chosen \in Choices /\ e.rows \subseteq Rows
    /\ {e.named, e.moved, e.guessed} \subseteq BOOLEAN
    /\ e.cmd = "TRUNCATE" => e.rel \in Tables(cat)

\* What holds of a statement on a table.
TableOK(e) ==
    /\ ~e.moved =>
          /\ e.rows # {} => cells[<<e.rel, e.cmd>>].verdict # "denied"
          /\ e.chosen # "before" => e.rows \subseteq CellRows(cells[<<e.rel, e.cmd>>])
          /\ ~e.guessed => /\ e.cmd = "TRUNCATE" =>
                                 \E a \in Ancestors(cat, e.rel) \cup {e.rel} : <<a, e.cmd>> \in reach
                           /\ e.cmd = "INSERT" => \E a \in Routes(cat, e.rel) : <<a, e.cmd>> \in reach
                           /\ e.named /\ e.cmd \in {"INSERT", "UPDATE", "DELETE"} => <<e.rel, e.cmd>> \in reach
    /\ e.moved => /\ ~e.named /\ e.cmd \in {"INSERT", "DELETE"}
                  /\ \E a \in Routes(cat, e.rel) \ {e.rel} : cells[<<a, "UPDATE">>].verdict # "denied"
\* What holds of a statement on a view: the matrix answers for what it reaches.
ViewOK(e) ==
    LET view == cat.views[e.rel] IN
    /\ e.named /\ ~e.moved /\ e.cmd # "TRUNCATE" /\ e.rows = {}
    /\ ~e.guessed /\ e.cmd # "SELECT" /\ ~view.mat => <<e.rel, e.cmd>> \in reach
    /\ ~Instead(cat, e.rel, e.cmd) /\ (e.cmd # "SELECT" => ~view.mat /\ e.cmd \in view.updatable) =>
          \/ (e.guessed \/ view.mat \/ (e.cmd # "SELECT" /\ ~view.known)) /\ WideBelow(e.rel, e.cmd)
          \/ /\ ~view.mat
             /\ \E r \in Users, sets \in BOOLEAN :
                   /\ r = e.session \/ \A v \in Chain(cat, e.rel) \cap Views(cat) : ~cat.views[v].invoker
                   /\ e.chosen = "here" => sets
                   /\ WalkSeen(r, e.session, e.rel, e.cmd, sets)
\* The inductive invariant of a session.
ExecOK(e) == /\ IsStatement(e)
             /\ ~Told(e.behind) => /\ e.rel \in Tables(cat) => TableOK(e)
                                   /\ e.rel \in Views(cat) => ViewOK(e)

\* A matrix has a cell for every table and command.
IsMatrix(k) == DOMAIN k = Keys(cat) /\ \A x \in Keys(cat) : IsCell(k[x]) /\ k[x].verdict # "attempted"

\* A statement sees rows.
LEMMA VisibleRows ==
    ASSUME IsCatalogue(cat), NEW who \in Users, NEW s \in Users, NEW t \in Tables(cat), NEW cmd, NEW chosen
    PROVE  Visible(who, s, t, cmd, chosen) \subseteq Rows
<1>1. ASSUME NEW p \in cat.tables[t].policies
      PROVE  Passing(EffectiveClause(p, cmd), who, s, chosen) \subseteq Rows
  <2>1. EffectiveClause(p, cmd) \in Clauses \cup {Open, Absent}
    BY DEF EffectiveClause, IsCatalogue, IsTable
  <2>2. \A x \in Clauses : ClauseRows[<<x, s, who>>] \subseteq Rows
    BY AccessAssumption
  <2> QED
    BY <2>1, <2>2 DEF Passing
<1> QED
  BY <1>1 DEF Visible

\* The fields of a statement.
Fields(e, who, s, rel, cmd, chosen, behind) ==
    /\ DOMAIN e = {"as", "session", "rel", "cmd", "named", "rows", "chosen", "behind", "moved", "guessed"}
    /\ e.as = who /\ e.session = s /\ e.rel = rel /\ e.cmd = cmd /\ e.named /\ e.named \in BOOLEAN
    /\ e.rows = IF rel \in Views(cat) \/ Instead(cat, rel, cmd) THEN {}
                ELSE Visible(who, s, rel, cmd, chosen)
    /\ e.chosen = chosen /\ e.behind = behind /\ ~e.moved /\ e.moved \in BOOLEAN
    /\ e.guessed \in BOOLEAN /\ (e.guessed <=> Holds(cat, who, Relation(cat, rel), cmd) = "unknown")

\* A statement has these fields.
LEMMA StatementFields ==
    ASSUME NEW who, NEW s, NEW rel, NEW cmd, NEW chosen, NEW behind
    PROVE  Fields(Statement(who, s, rel, cmd, chosen, behind), who, s, rel, cmd, chosen, behind)
  BY DEF Statement, Fields

\* A statement has the form of one.
LEMMA StatementIs ==
    ASSUME IsCatalogue(cat), NEW who \in Users, NEW s \in Users, NEW rel \in Relations(cat),
           NEW cmd \in Commands, NEW chosen \in Choices, NEW behind,
           NEW e, Fields(e, who, s, rel, cmd, chosen, behind),
           cmd = "TRUNCATE" => rel \in Tables(cat)
    PROVE  IsStatement(e)
<1>1. rel \notin Views(cat) => Visible(who, s, rel, cmd, chosen) \subseteq Rows
  BY VisibleRows DEF Relations
<1> QED
  BY <1>1 DEF IsStatement, Fields

\* A statement on a table for which the matrix answers.
LEMMA StatementOnTable ==
    ASSUME IsCatalogue(cat), Followable(cat), IsMatrix(cells), NEW who \in Users, NEW s \in Users,
           NEW t \in Tables(cat),
           NEW cmd \in Commands \ {"TRUNCATE"}, NEW chosen \in Choices, NEW behind,
           NEW sets \in BOOLEAN, chosen = "here" => sets,
           May(who, t, cmd), Answer(who, s, t, cmd, sets),
           NEW e, Fields(e, who, s, t, cmd, chosen, behind)
    PROVE  TableOK(e)
<1> DEFINE own == CellFor(cat, who, t, cmd)
           mine == cells[<<t, cmd>>]
           seen == Visible(who, s, t, cmd, chosen)
           holds == Holds(cat, who, cat.tables[t], cmd)
<1>1. holds \in {"yes", "unknown"} /\ (holds = "yes" => PrivilegePaths(cat, who, cat.tables[t], cmd))
  BY PrivilegesFound DEF May, Relation
<1>2. /\ seen # {} => own.verdict # "denied"
      /\ own.verdict = "conditional" /\ chosen = Unset => seen \cap Rows \subseteq RowsOf(own, s, who)
  BY <1>1, CellForCovers
<1>3. IsCell(own) /\ own.verdict # "attempted"
  BY CellForType
<1>4. /\ Wide(own) => Wide(mine)
      /\ own.verdict = "conditional" =>
            /\ mine.verdict # "denied"
            /\ IF sets THEN Wide(mine) ELSE RowsOf(own, s, who) \subseteq CellRows(mine)
      /\ holds = "yes" /\ cmd # "SELECT" => <<t, cmd>> \in reach
  BY <1>1 DEF Answer
<1>5. seen \subseteq Rows
  BY VisibleRows
<1>6. /\ e.rel = t /\ e.cmd = cmd /\ ~e.moved /\ e.chosen = chosen
      /\ e.rows = {} \/ e.rows = seen
      /\ e.guessed \/ holds = "yes"
  <2>1. Relation(cat, t) = cat.tables[t]
    BY DEF Relation
  <2> HIDE DEF seen, holds
  <2> QED
    BY <1>1, <2>1 DEF Fields, seen, holds
<1> HIDE DEF own, mine, seen, holds
<1>7. Wide(mine) => mine.verdict # "denied" /\ CellRows(mine) = Rows
  BY WideAdmitsAll
<1>8. own.verdict \in {"open", "undecided", "conditional", "denied"}
  BY <1>3 DEF IsCell, Verdicts
<1>9. e.rows # {} => mine.verdict # "denied"
  BY <1>2, <1>4, <1>6, <1>7, <1>8 DEF Wide
<1>10. chosen # "before" => e.rows \subseteq CellRows(mine)
  BY <1>2, <1>4, <1>5, <1>6, <1>7, <1>8 DEF Wide, Choices
<1>11. ~e.guessed /\ cmd # "SELECT" => <<t, cmd>> \in reach
  BY <1>4, <1>6
<1>12. t \in Routes(cat, t)
  BY DEF Routes
<1> QED
  BY <1>6, <1>9, <1>10, <1>11, <1>12 DEF TableOK, mine

\* A statement of which more was guessed.
Guessed(f, e) ==
    /\ DOMAIN f = DOMAIN e /\ f.as = e.as /\ f.session = e.session /\ f.rel = e.rel /\ f.cmd = e.cmd
    /\ f.named = e.named /\ f.rows = e.rows /\ f.chosen = e.chosen /\ f.behind = e.behind
    /\ f.moved = e.moved /\ f.guessed \in BOOLEAN /\ (e.guessed => f.guessed)

\* Whatever was guessed on the way, the matrix answers for the statement.
LEMMA GuessedOK ==
    ASSUME NEW e, NEW f, IsStatement(e), Guessed(f, e)
    PROVE  /\ IsStatement(f)
           /\ TableOK(e) => TableOK(f)
           /\ ViewOK(e) => ViewOK(f)
<1>1. IsStatement(f)
  BY DEF IsStatement, Guessed
<1>2. TableOK(e) => TableOK(f)
  BY DEF TableOK, Guessed
<1>3. ViewOK(e) => ViewOK(f)
  BY DEF ViewOK, Guessed
<1> QED
  BY <1>1, <1>2, <1>3

-------------------------------------------------------------------------------
(* What the rounds leave.                                                  *)

\* What the rounds leave: the matrix reckons with every door, in all directions.
Settled ==
    /\ IsCatalogue(cat) /\ Followable(cat) /\ me \in Users /\ IsMatrix(cells)
    /\ \A d \in Chosen(cat, me) \cup Followed(cat, cells, reach) : Seen(d)
    /\ \A k \in Keys(cat) : Covers(CellFor(cat, me, k[1], k[2]), cells[k])
    /\ Issuable(cat, me) \subseteq reach
    /\ untraced = (Opaque(cat, Callable(cat, me)) \cup Uncallable(cat, me))
                  \cup Opaque(cat, Firing(cat, cells, reach))

\* What reaches a table, reaches the tables below it.
LEMMA ParentsSeen ==
    ASSUME Settled, NEW t \in Tables(cat), NEW a \in Ancestors(cat, t), NEW cmd \in Commands,
           cmd = "INSERT" => Declarative(cat, a, t)
    PROVE  Covers(cells[<<a, cmd>>], cells[<<t, cmd>>])
<1> DEFINE k == <<t, a, cmd>>
           d == Door(k[1], k[3], cells[<<k[2], k[3]>>])
<1>1. a \in Tables(cat)
  BY DEF Ancestors
<1>2. <<a, cmd>> \in Keys(cat) /\ <<t, cmd>> \in Keys(cat)
  BY <1>1 DEF Keys
<1>3. k \in Tables(cat) \X Tables(cat) \X Commands /\ k[1] = t /\ k[2] = a /\ k[3] = cmd
  BY <1>1
<1> HIDE DEF k
<1>4. d \in ParentDoors(cat, cells)
  BY <1>3 DEF ParentDoors
<1>5. d.key = <<t, cmd>> /\ d.cell = cells[<<a, cmd>>]
  BY <1>2, <1>3, DoorIs DEF Settled, IsMatrix
<1>6. Seen(d)
  BY <1>4 DEF Settled, Followed
<1> QED
  BY <1>2, <1>5, <1>6 DEF Seen

\* The principal's own statements on tables.
LEMMA OwnAnswers ==
    ASSUME Settled, NEW t \in Tables(cat), NEW cmd \in Commands
    PROVE  Answer(me, me, t, cmd, FALSE)
<1> DEFINE own == CellFor(cat, me, t, cmd)
           mine == cells[<<t, cmd>>]
<1>1. <<t, cmd>> \in Keys(cat)
  BY DEF Keys
<1>2. Covers(own, mine)
  BY <1>1 DEF Settled
<1>3. own.session = Unset /\ own.privileges = Unset
  BY CellForType DEF Settled
<1>4. PrivilegePaths(cat, me, cat.tables[t], cmd) /\ cmd # "SELECT" => <<t, cmd>> \in reach
  <2> SUFFICES ASSUME PrivilegePaths(cat, me, cat.tables[t], cmd), cmd # "SELECT" PROVE <<t, cmd>> \in reach
    OBVIOUS
  <2>1. Holds(cat, me, Relation(cat, t), cmd) = "yes"
    BY DEF Holds, Relation
  <2>2. t \notin Views(cat)
    BY DEF Settled, IsCatalogue
  <2>3. <<t, cmd>> \in Issuable(cat, me)
    BY <2>1, <2>2 DEF Issuable
  <2> QED
    BY <2>3 DEF Settled
<1> HIDE DEF own, mine
<1>5. own.verdict = "conditional" => RowsOf(own, me, me) \subseteq CellRows(own)
  BY <1>3, ConditionalHas DEF Readers
<1>6. /\ Wide(own) => Wide(mine)
      /\ own.verdict = "conditional" => mine.verdict # "denied" /\ RowsOf(own, me, me) \subseteq CellRows(mine)
  BY <1>2, <1>5 DEF Covers
<1> QED
  BY <1>4, <1>6 DEF Answer, own, mine

\* The principal's own statements on views.
LEMMA OwnViews ==
    ASSUME Settled, NEW v \in Views(cat), NEW cmd \in Commands \ {"TRUNCATE"},
           Holds(cat, me, cat.views[v], cmd) # "no"
    PROVE  /\ ViewSeen(me, me, v, cmd, FALSE)
           /\ Holds(cat, me, cat.views[v], cmd) = "yes" /\ cmd # "SELECT" => <<v, cmd>> \in reach
<1>0. IsCatalogue(cat) /\ me \in Users
  BY DEF Settled
<1>1. ASSUME NEW d \in ViewDoors(cat, me, cmd, Views(cat), FALSE, Unset)
      PROVE  SeenAs(d, Unset, Unset, FALSE)
  <2>1. DoorsFor(ViewDoors(cat, me, cmd, Views(cat), FALSE, Unset), cmd)
    BY <1>0, ViewsDoors
  <2>2. IsCell(d.cell)
    BY <2>1 DEF DoorsFor, IsDoor
  <2>3. Seen(d)
    BY DEF Settled, Chosen
  <2> QED
    BY <2>2, <2>3, CoversVia DEF Seen, SeenAs
<1>2. \A t \in Tables(cat) : Answer(me, me, t, cmd, FALSE)
  BY OwnAnswers
<1>3. Reads(me, Unset)
  BY DEF Reads, Readers
<1>4. ViewSeen(me, me, v, cmd, FALSE)
  <2>1. cmd \in Commands /\ Views(cat) \in SUBSET Views(cat) /\ FALSE \in BOOLEAN
    OBVIOUS
  <2> QED
    BY <1>0, <1>1, <1>2, <1>3, <2>1, ViewAnswers
<1>5. ASSUME Holds(cat, me, cat.views[v], cmd) = "yes", cmd # "SELECT" PROVE <<v, cmd>> \in reach
  <2>1. Relation(cat, v) = cat.views[v]
    BY <1>0 DEF Relation, IsCatalogue
  <2>2. <<v, cmd>> \in Issuable(cat, me)
    BY <1>5, <2>1 DEF Issuable
  <2> QED
    BY <2>2 DEF Settled
<1> QED
  BY <1>4, <1>5

\* What the matrix says of a touch: all that it names is answered for.
TouchSeen(who, s, touch, sets) ==
    \A k \in Expanded(cat, touch) :
       /\ k[1] \in Tables(cat) => Answer(who, s, k[1], k[2], sets)
       /\ k[1] \in Views(cat) /\ Holds(cat, who, cat.views[k[1]], k[2]) # "no" =>
             /\ ViewSeen(who, s, k[1], k[2], sets)
             /\ Holds(cat, who, cat.views[k[1]], k[2]) = "yes" /\ k[2] # "SELECT" => k \in reach

\* What runs as an owner is answered for.
LEMMA RunSeen ==
    ASSUME IsCatalogue(cat), NEW owner \in Users, NEW s \in Users, NEW touches \in SUBSET Touches(cat),
           NEW session, NEW privileges, NEW sets \in BOOLEAN,
           \A d \in RunAsOwner(cat, owner, touches, session, privileges, sets) : Seen(d),
           session # Unset, Reads(s, session),
           privileges = Unset \/ Readers(privileges) = Users,
           NEW touch \in touches
    PROVE  TouchSeen(owner, s, touch, sets)
<1> SUFFICES ASSUME NEW k \in Expanded(cat, touch)
             PROVE  /\ k[1] \in Tables(cat) => Answer(owner, s, k[1], k[2], sets)
                    /\ k[1] \in Views(cat) /\ Holds(cat, owner, cat.views[k[1]], k[2]) # "no" =>
                          /\ ViewSeen(owner, s, k[1], k[2], sets)
                          /\ Holds(cat, owner, cat.views[k[1]], k[2]) = "yes" /\ k[2] # "SELECT" => k \in reach
  BY DEF TouchSeen
<1>0. k[2] \in Commands /\ (k[1] \in Views(cat) => k[1] \notin Tables(cat))
  BY ExpandedKeys DEF IsCatalogue
<1>1. ASSUME k[1] \in Tables(cat) PROVE Answer(owner, s, k[1], k[2], sets)
  <2> DEFINE p == IF privileges = Unset THEN owner ELSE privileges
  <2>1. \A d \in Access(cat, owner, k[1], k[2], session, p) : SeenAs(d, Unset, Unset, sets)
    BY <1>1, StatementSeen
  <2>2. Reads(owner, p)
    BY ReadsOwn DEF Reads
  <2> HIDE DEF p
  <2>3. Reads(s, IF Unset = Unset THEN session ELSE Unset) /\ Reads(owner, IF Unset = Unset THEN p ELSE Unset)
    BY <2>2
  <2> QED
    BY <1>0, <1>1, <2>1, <2>3, AccessAnswers
<1>2. ASSUME k[1] \in Views(cat), Holds(cat, owner, cat.views[k[1]], k[2]) # "no"
      PROVE  /\ ViewSeen(owner, s, k[1], k[2], sets)
             /\ Holds(cat, owner, cat.views[k[1]], k[2]) = "yes" /\ k[2] # "SELECT" => k \in reach
  <2>1. /\ \A d \in ViewDoors(cat, owner, k[2], {k[1]}, TRUE, session) : SeenAs(d, session, privileges, sets)
        /\ Holds(cat, owner, cat.views[k[1]], k[2]) = "yes" /\ k[2] # "SELECT" => k \in reach
    BY <1>0, <1>2, StatementSeen
  <2>2. {k[1]} \in SUBSET Views(cat) /\ k[1] \in {k[1]} /\ TRUE \in BOOLEAN
    BY <1>2
  <2>3. Reads(s, IF session = Unset THEN session ELSE session)
    OBVIOUS
  <2>4. ViewSeen(owner, s, k[1], k[2], sets)
    BY <1>0, <1>2, <2>1, <2>2, <2>3, ViewAnswers
  <2> QED
    BY <2>1, <2>4
<1> QED
  BY <1>1, <1>2

\* What a function runs.
LEMMA FunctionSeen ==
    ASSUME IsCatalogue(cat), NEW f \in DOMAIN cat.fns, \A d \in RunFunction(cat, f) : Seen(d),
           NEW touch \in cat.fns[f].touches
    PROVE  TouchSeen(cat.fns[f].owner, cat.fns[f].owner, touch, cat.fns[f].sets)
<1> DEFINE owner == cat.fns[f].owner
<1>1. /\ owner \in Users /\ cat.fns[f].touches \in SUBSET Touches(cat) /\ cat.fns[f].sets \in BOOLEAN
  BY DEF IsCatalogue, Users
<1>2. owner # Unset /\ Reads(owner, owner)
  BY <1>1, ReadsOwn
<1>3. \A d \in RunAsOwner(cat, owner, cat.fns[f].touches, owner, Unset, cat.fns[f].sets) : Seen(d)
  BY DEF RunFunction
<1> QED
  BY <1>1, <1>2, <1>3, RunSeen

\* What a rule runs, for whoever wrote.
LEMMA RuleSeen ==
    ASSUME Settled, NEW r \in cat.rules, <<r.rel, r.cmd>> \in reach, NEW s \in Users,
           NEW touch \in r.touches
    PROVE  TouchSeen(Relation(cat, r.rel).owner, s, touch, FALSE)
<1> DEFINE owner == Relation(cat, r.rel).owner
<1>1. /\ IsCatalogue(cat) /\ owner \in Users /\ r.touches \in SUBSET Touches(cat)
      /\ r.name \notin Users \cup {Unset}
  <2>1. IsCatalogue(cat)
    BY DEF Settled
  <2>2. r.rel \in Relations(cat) /\ r.name \notin Users \cup {Unset} /\ r.touches \subseteq Touches(cat)
    BY <2>1 DEF IsCatalogue
  <2>3. /\ \A t \in Tables(cat) : cat.tables[t].owner \in Users
        /\ \A v \in Views(cat) : cat.views[v].owner \in Users
    BY <2>1 DEF IsCatalogue, IsTable, Users
  <2> QED
    BY <2>1, <2>2, <2>3 DEF Relation, Relations
<1>2. Readers(r.name) = Users
  BY <1>1 DEF Readers
<1>3. \A d \in RunAsOwner(cat, owner, r.touches, r.name, r.name, FALSE) : Seen(d)
  <2>1. r \in {x \in cat.rules : <<x.rel, x.cmd>> \in reach}
    OBVIOUS
  <2>2. RunAsOwner(cat, owner, r.touches, r.name, r.name, FALSE) \subseteq RuleDoors(cat, reach)
    BY <2>1 DEF RuleDoors
  <2> QED
    BY <2>2 DEF Settled, Followed
<1>4. Reads(s, r.name) /\ r.name # Unset
  BY <1>1, <1>2 DEF Reads
<1> HIDE DEF owner
<1>5. TouchSeen(owner, s, touch, FALSE)
  <2>1. FALSE \in BOOLEAN
    OBVIOUS
  <2> QED
    BY <1>1, <1>2, <1>3, <1>4, <2>1, RunSeen
<1> QED
  BY <1>5 DEF owner

-------------------------------------------------------------------------------
(* What a command becomes.                                                 *)

\* What a TRUNCATE empties is open to it, or undecided.
LEMMA TruncateOnTable ==
    ASSUME Settled, NEW who \in Users, NEW s, NEW ts \in SUBSET Tables(cat), MayTruncate(who, ts),
           NEW sets, \A x \in Truncated(ts) : Answer(who, s, x, "TRUNCATE", sets),
           NEW t \in Truncated(ts), NEW chosen, NEW behind,
           NEW e, Fields(e, who, s, t, "TRUNCATE", chosen, behind), IsStatement(e)
    PROVE  TableOK(e)
<1> DEFINE mine == cells[<<t, "TRUNCATE">>]
<1>0. IsCatalogue(cat)
  BY DEF Settled
<1>1. PICK n \in ts : t \in {n} \cup Descendants(cat, n)
  BY DEF Truncated
<1>2. n \in Tables(cat) /\ n \in Truncated(ts) /\ t \in Tables(cat) /\ (t = n \/ n \in Ancestors(cat, t))
  <2>1. n \in Tables(cat) /\ n \in Truncated(ts)
    BY DEF Truncated
  <2>2. t \in Tables(cat)
    BY <1>0, <1>1, <2>1, BelowChild
  <2> QED
    BY <1>1, <2>1, <2>2 DEF Ancestors
<1>3. Wide(cells[<<n, "TRUNCATE">>])
  <2>1. Wide(CellFor(cat, who, n, "TRUNCATE"))
    BY <1>0, TruncateOpen
  <2> QED
    BY <1>2, <2>1 DEF Answer
<1>4. Wide(mine)
  <2>1. CASE t = n
    BY <1>3, <2>1
  <2>2. CASE n \in Ancestors(cat, t)
    <3>1. Covers(cells[<<n, "TRUNCATE">>], mine)
      <4>1. "TRUNCATE" \in Commands /\ "TRUNCATE" # "INSERT"
        BY DEF Commands
      <4> QED
        BY <1>2, <2>2, <4>1, ParentsSeen
    <3> QED
      BY <1>3, <3>1 DEF Covers
  <2> QED
    BY <1>2, <2>1, <2>2
<1>5. ASSUME ~e.guessed
      PROVE  \E a \in Ancestors(cat, t) \cup {t} : <<a, "TRUNCATE">> \in reach
  <2>1. Relation(cat, t) = cat.tables[t] /\ Relation(cat, n) = cat.tables[n]
    BY <1>2 DEF Relation
  <2>2. Holds(cat, who, cat.tables[t], "TRUNCATE") \in {"yes", "no"}
    <3>1. Holds(cat, who, Relation(cat, t), "TRUNCATE") # "unknown"
      BY <1>5 DEF Fields
    <3>2. Holds(cat, who, cat.tables[t], "TRUNCATE") \in {"yes", "no", "unknown"}
      BY <1>0, PrivilegesFound
    <3> QED
      BY <2>1, <3>1, <3>2
  <2>3. CASE Holds(cat, who, cat.tables[t], "TRUNCATE") = "yes"
    <3>1. PrivilegePaths(cat, who, cat.tables[t], "TRUNCATE")
      BY <1>0, <2>3, PrivilegesFound
    <3> QED
      BY <3>1 DEF Answer
  <2>4. CASE Holds(cat, who, cat.tables[t], "TRUNCATE") = "no"
    <3>1. Known(cat, who)
      BY <1>0, <2>4, PrivilegesFound
    <3>2. Privileged(MemberOf(cat, who), who, cat.tables[n], "TRUNCATE")
      BY <2>1 DEF MayTruncate, May
    <3>3. PrivilegePaths(cat, who, cat.tables[n], "TRUNCATE")
      BY <1>0, <3>1, <3>2, PrivilegesFound
    <3> QED
      BY <1>2, <3>3 DEF Answer
  <2> QED
    BY <2>2, <2>3, <2>4
<1>6. mine.verdict # "denied" /\ CellRows(mine) = Rows
  BY <1>4, WideAdmitsAll
<1>7. e.rows \subseteq Rows /\ e.rel = t /\ e.cmd = "TRUNCATE" /\ ~e.moved
  BY DEF IsStatement, Fields
<1> QED
  BY <1>5, <1>6, <1>7 DEF TableOK

\* A statement on a view for which the matrix answers.
LEMMA StatementOnView ==
    ASSUME IsCatalogue(cat), NEW who \in Users, NEW s \in Users, NEW v \in Views(cat),
           NEW cmd \in Commands \ {"TRUNCATE"}, NEW chosen, NEW behind, NEW sets \in BOOLEAN,
           chosen = "here" => sets,
           who = s \/ \A w \in Chain(cat, v) \cap Views(cat) : ~cat.views[w].invoker,
           ViewSeen(who, s, v, cmd, sets), Holds(cat, who, cat.views[v], cmd) # "no",
           Holds(cat, who, cat.views[v], cmd) = "yes" /\ cmd # "SELECT" => <<v, cmd>> \in reach,
           NEW e, Fields(e, who, s, v, cmd, chosen, behind)
    PROVE  ViewOK(e)
<1> DEFINE view == cat.views[v]
           holds == Holds(cat, who, view, cmd)
           unclear == view.mat \/ holds = "unknown" \/ (cmd # "SELECT" /\ ~view.known)
<1>1. /\ e.session = s /\ e.rel = v /\ e.cmd = cmd /\ e.named /\ e.rows = {} /\ e.chosen = chosen
      /\ ~e.moved /\ (e.guessed <=> holds = "unknown")
  <2>1. Relation(cat, v) = view
    BY DEF Relation, IsCatalogue
  <2> QED
    BY <2>1 DEF Fields
<1>2. ~Instead(cat, v, cmd) /\ (cmd # "SELECT" => ~view.mat /\ cmd \in view.updatable) =>
         IF unclear THEN WideBelow(v, cmd) ELSE WalkSeen(who, s, v, cmd, sets)
  BY DEF ViewSeen
<1>3. holds \in {"yes", "unknown"}
  BY PrivilegesFound
<1> HIDE DEF holds
<1>4. ~e.guessed /\ cmd # "SELECT" => <<v, cmd>> \in reach
  BY <1>1, <1>3 DEF holds
<1>5. unclear => e.guessed \/ view.mat \/ (cmd # "SELECT" /\ ~view.known)
  BY <1>1
<1>6. ASSUME ~Instead(cat, v, cmd), cmd # "SELECT" => ~view.mat /\ cmd \in view.updatable
      PROVE  \/ (e.guessed \/ view.mat \/ (cmd # "SELECT" /\ ~view.known)) /\ WideBelow(v, cmd)
             \/ /\ ~view.mat
                /\ \E r \in Users, g \in BOOLEAN :
                      /\ r = s \/ \A w \in Chain(cat, v) \cap Views(cat) : ~cat.views[w].invoker
                      /\ chosen = "here" => g
                      /\ WalkSeen(r, s, v, cmd, g)
  <2>1. CASE unclear
    BY <1>2, <1>5, <1>6, <2>1
  <2>2. CASE ~unclear
    <3>1. WalkSeen(who, s, v, cmd, sets)
      BY <1>2, <1>6, <2>2
    <3>2. ~view.mat
      BY <2>2
    <3> QED
      BY <3>1, <3>2
  <2> QED
    BY <2>1, <2>2
<1> QED
  BY <1>1, <1>4, <1>6 DEF ViewOK

\* A statement that a touch is, and one on a table that its TRUNCATE empties.
Single(e, who, s, touch, chosen, behind) ==
    /\ May(who, touch[1], touch[2]) /\ Fields(e, who, s, touch[1], touch[2], chosen, behind)
    /\ touch[1] \in Relations(cat) /\ touch[2] \in Commands \ {"TRUNCATE"}
    /\ Expanded(cat, touch) = {touch} /\ touch = <<touch[1], touch[2]>>
Emptying(e, who, s, touch, chosen, behind) ==
    \E ts \in SUBSET Tables(cat) :
       /\ MayTruncate(who, ts)
       /\ \A x \in Truncated(ts) : x \in Tables(cat) /\ <<x, "TRUNCATE">> \in Expanded(cat, touch)
       /\ e.rel \in Truncated(ts) /\ Fields(e, who, s, e.rel, "TRUNCATE", chosen, behind)

\* A touch that may be executed leads to statements.
LEMMA ExecutedIs ==
    ASSUME NEW who \in Users, NEW s \in Users, NEW touch \in Touches(cat),
           NEW chosen \in Choices, NEW behind, NEW e,
           IsCatalogue(cat), e \in Executed(who, s, touch, chosen, behind)
    PROVE  /\ IsStatement(e) /\ e.behind = behind
           /\ Single(e, who, s, touch, chosen, behind) \/ Emptying(e, who, s, touch, chosen, behind)
<1> DEFINE rel == touch[1]
           all == IF touch[2] = "TRUNCATE_CASCADE" THEN TruncateCascade(cat, rel) ELSE {rel}
<1>0. /\ touch = <<touch[1], touch[2]>> /\ rel \in Relations(cat)
      /\ \/ touch[2] \in Commands \ {"TRUNCATE"}
         \/ rel \in Tables(cat) /\ touch[2] \in {"TRUNCATE", "TRUNCATE_CASCADE"}
  <2>1. CASE touch \in Relations(cat) \X (Commands \ {"TRUNCATE"})
    <3>1. touch = <<touch[1], touch[2]>> /\ touch[1] \in Relations(cat) /\ touch[2] \in Commands \ {"TRUNCATE"}
      BY <2>1
    <3> QED
      BY <3>1
  <2>2. CASE touch \in Tables(cat) \X {"TRUNCATE", "TRUNCATE_CASCADE"}
    <3>1. PICK t \in Tables(cat), c \in {"TRUNCATE", "TRUNCATE_CASCADE"} : touch = <<t, c>>
      BY <2>2
    <3> QED
      BY <3>1 DEF Relations
  <2> QED
    BY <2>1, <2>2 DEF Touches
<1>1. CASE touch[2] \in {"TRUNCATE", "TRUNCATE_CASCADE"}
  <2>0. rel \in Tables(cat)
    BY <1>0, <1>1 DEF Commands
  <2>1. PICK t \in Truncated(all) : /\ MayTruncate(who, all)
                                    /\ e = Statement(who, s, t, "TRUNCATE", chosen, behind)
    BY <1>1 DEF Executed
  <2>2. Fields(e, who, s, t, "TRUNCATE", chosen, behind)
    BY <2>1, StatementFields
  <2>3. e.rel = t /\ e.behind = behind
    BY <2>2 DEF Fields
  <2>4. all \in SUBSET Tables(cat) /\ \A x \in all : Descendants(cat, x) \subseteq Tables(cat)
    <3>1. all \subseteq Tables(cat)
      BY <2>0, CascadeTables
    <3> QED
      BY <3>1, BelowChild
  <2>5. \A x \in Truncated(all) : x \in Tables(cat) /\ <<x, "TRUNCATE">> \in Expanded(cat, touch)
    <3> SUFFICES ASSUME NEW x \in Truncated(all)
                 PROVE  x \in Tables(cat) /\ <<x, "TRUNCATE">> \in Expanded(cat, touch)
      OBVIOUS
    <3>1. PICK n \in all : x \in {n} \cup Descendants(cat, n)
      BY DEF Truncated
    <3>2. x \in Tables(cat)
      BY <2>4, <3>1
    <3>3. CASE touch[2] = "TRUNCATE_CASCADE"
      <4>1. x \in TruncateCascade(cat, rel)
        BY <2>0, <3>1, <3>3, CascadeTables
      <4> QED
        BY <3>2, <3>3, <4>1 DEF Expanded
    <3>4. CASE touch[2] = "TRUNCATE"
      BY <3>1, <3>2, <3>4 DEF Expanded
    <3> QED
      BY <1>1, <3>3, <3>4
  <2>6. IsStatement(e)
    <3>1. t \in Relations(cat) /\ t \in Tables(cat) /\ "TRUNCATE" \in Commands
      BY <2>5 DEF Relations, Commands
    <3> QED
      BY <2>2, <3>1, StatementIs
  <2> HIDE DEF all
  <2> QED
    BY <2>1, <2>2, <2>3, <2>4, <2>5, <2>6 DEF Emptying
<1>2. CASE touch[2] \notin {"TRUNCATE", "TRUNCATE_CASCADE"}
  <2>1. May(who, rel, touch[2]) /\ e = Statement(who, s, rel, touch[2], chosen, behind)
    BY <1>2 DEF Executed
  <2>2. Fields(e, who, s, rel, touch[2], chosen, behind)
    BY <2>1, StatementFields
  <2>3. touch[2] \in Commands \ {"TRUNCATE"}
    BY <1>0, <1>2
  <2>4. IsStatement(e)
    BY <1>0, <2>2, <2>3, StatementIs
  <2>5. Expanded(cat, touch) = {touch}
    BY <1>2 DEF Expanded
  <2>6. e.behind = behind
    BY <2>2 DEF Fields
  <2> QED
    BY <1>0, <1>2, <2>1, <2>2, <2>3, <2>4, <2>5, <2>6 DEF Single
<1> QED
  BY <1>1, <1>2

\* A touch that the matrix answers for leads to statements for which it does.
LEMMA ExecutedOK ==
    ASSUME Settled, NEW who \in Users, NEW s \in Users, NEW touch \in Touches(cat),
           NEW chosen \in Choices, NEW behind, NEW sets \in BOOLEAN,
           chosen = "here" => sets, ~Told(behind) => TouchSeen(who, s, touch, sets),
           who = s \/ \A w \in Chain(cat, touch[1]) \cap Views(cat) : ~cat.views[w].invoker,
           NEW e \in Executed(who, s, touch, chosen, behind)
    PROVE  ExecOK(e)
<1>0. IsCatalogue(cat) /\ Followable(cat) /\ IsMatrix(cells)
  BY DEF Settled
<1>1. /\ IsStatement(e) /\ e.behind = behind
      /\ Single(e, who, s, touch, chosen, behind) \/ Emptying(e, who, s, touch, chosen, behind)
  BY <1>0, ExecutedIs
<1> SUFFICES ASSUME TouchSeen(who, s, touch, sets)
             PROVE  (e.rel \in Tables(cat) => TableOK(e)) /\ (e.rel \in Views(cat) => ViewOK(e))
  BY <1>1 DEF ExecOK
<1>2. ASSUME Single(e, who, s, touch, chosen, behind)
      PROVE  (e.rel \in Tables(cat) => TableOK(e)) /\ (e.rel \in Views(cat) => ViewOK(e))
  <2> /\ May(who, touch[1], touch[2]) /\ Fields(e, who, s, touch[1], touch[2], chosen, behind)
      /\ touch[1] \in Relations(cat) /\ touch[2] \in Commands \ {"TRUNCATE"}
      /\ Expanded(cat, touch) = {touch} /\ touch = <<touch[1], touch[2]>>
    BY <1>2 DEF Single
  <2>1. e.rel = touch[1] /\ touch \in Expanded(cat, touch)
    BY <1>2 DEF Fields
  <2>2. ASSUME touch[1] \in Tables(cat) PROVE TableOK(e)
    <3>1. Answer(who, s, touch[1], touch[2], sets)
      BY <2>1, <2>2 DEF TouchSeen
    <3> QED
      BY <1>0, <1>2, <2>2, <3>1, StatementOnTable
  <2>3. ASSUME touch[1] \in Views(cat) PROVE ViewOK(e)
    <3>1. Relation(cat, touch[1]) = cat.views[touch[1]]
      BY <1>0, <2>3 DEF Relation, IsCatalogue
    <3>2. Holds(cat, who, cat.views[touch[1]], touch[2]) # "no"
      BY <1>0, <1>2, <3>1, PrivilegesFound DEF May
    <3>3. /\ ViewSeen(who, s, touch[1], touch[2], sets)
          /\ Holds(cat, who, cat.views[touch[1]], touch[2]) = "yes" /\ touch[2] # "SELECT" => touch \in reach
      BY <2>1, <2>3, <3>2 DEF TouchSeen
    <3>4. Holds(cat, who, cat.views[touch[1]], touch[2]) = "yes" /\ touch[2] # "SELECT"
             => <<touch[1], touch[2]>> \in reach
      BY <1>2, <3>3
    <3> QED
      BY <1>0, <1>2, <2>3, <3>2, <3>3, <3>4, StatementOnView
  <2> QED
    BY <2>1, <2>2, <2>3
<1>3. ASSUME Emptying(e, who, s, touch, chosen, behind)
      PROVE  (e.rel \in Tables(cat) => TableOK(e)) /\ (e.rel \in Views(cat) => ViewOK(e))
  <2>1. PICK ts \in SUBSET Tables(cat) :
              /\ MayTruncate(who, ts)
              /\ \A x \in Truncated(ts) : x \in Tables(cat) /\ <<x, "TRUNCATE">> \in Expanded(cat, touch)
              /\ e.rel \in Truncated(ts) /\ Fields(e, who, s, e.rel, "TRUNCATE", chosen, behind)
    BY <1>3 DEF Emptying
  <2>2. \A x \in Truncated(ts) : Answer(who, s, x, "TRUNCATE", sets)
    <3> SUFFICES ASSUME NEW x \in Truncated(ts) PROVE Answer(who, s, x, "TRUNCATE", sets)
      OBVIOUS
    <3> DEFINE k == <<x, "TRUNCATE">>
    <3>1. k \in Expanded(cat, touch) /\ k[1] = x /\ k[2] = "TRUNCATE" /\ x \in Tables(cat)
      BY <2>1
    <3> HIDE DEF k
    <3> QED
      BY <3>1 DEF TouchSeen
  <2>3. TableOK(e)
    BY <1>1, <2>1, <2>2, TruncateOnTable
  <2>4. e.rel \notin Views(cat)
    BY <1>0, <2>1 DEF IsCatalogue
  <2> QED
    BY <2>3, <2>4
<1> QED
  BY <1>1, <1>2, <1>3

-------------------------------------------------------------------------------
(* What a function's body becomes, and the triggers.                       *)

\* A parameter set before does not count as set here.
LEMMA KeptIs == Kept \in Choices /\ Kept # "here"
  BY DEF Kept, Choices, Unset

\* The body of a function that the matrix reckons with, or that is behind a
\* door it does not know.
LEMMA BodyOK ==
    ASSUME NEW f \in DOMAIN cat.fns, NEW behind, Settled,
           ~Told(behind) => /\ \A d \in RunFunction(cat, f) : Seen(d)
                            /\ cat.fns[f].hidden = {} \/ f \in untraced
    PROVE  \A e \in Body(f, behind) : ExecOK(e)
<1> DEFINE fn == cat.fns[f]
           owner == fn.owner
           chosen == IF fn.sets THEN "here" ELSE Kept
           after == IF Told(behind) THEN behind ELSE f
<1>0. IsCatalogue(cat)
  BY DEF Settled
<1>1. /\ owner \in Users /\ fn.sets \in BOOLEAN
      /\ fn.touches \subseteq Touches(cat) /\ fn.hidden \subseteq Touches(cat)
  BY <1>0 DEF IsCatalogue, Users
<1>2. chosen \in Choices /\ (chosen = "here" => fn.sets)
  BY <1>1, KeptIs DEF Choices
<1>3. ~Told(behind) => \A x \in fn.touches : TouchSeen(owner, owner, x, fn.sets)
  <2> SUFFICES ASSUME ~Told(behind), NEW x \in fn.touches PROVE TouchSeen(owner, owner, x, fn.sets)
    OBVIOUS
  <2> QED
    BY <1>0, FunctionSeen
<1>4. Body(f, behind) = (UNION {Executed(owner, owner, x, chosen, behind) : x \in fn.touches})
                        \cup UNION {Executed(owner, owner, x, chosen, after) : x \in fn.hidden}
  BY DEF Body
<1> HIDE DEF chosen, owner
<1>5. ASSUME NEW x \in fn.touches, NEW e \in Executed(owner, owner, x, chosen, behind)
      PROVE  ExecOK(e)
  <2>1. x \in Touches(cat)
    BY <1>1
  <2>2. ~Told(behind) => TouchSeen(owner, owner, x, fn.sets)
    BY <1>3
  <2> QED
    BY <1>1, <1>2, <1>5, <2>1, <2>2, ExecutedOK
<1>6. ASSUME NEW x \in fn.hidden, NEW e \in Executed(owner, owner, x, chosen, after)
      PROVE  ExecOK(e)
  <2>1. x \in Touches(cat)
    BY <1>1
  <2>2. Told(after)
    <3>1. CASE Told(behind)
      BY <3>1
    <3>2. CASE ~Told(behind)
      <4>1. f \in untraced
        BY <1>6, <3>2
      <4> QED
        BY <3>2, <4>1 DEF Told
    <3> QED
      BY <3>1, <3>2
  <2> HIDE DEF after
  <2>3. ~Told(after) => TouchSeen(owner, owner, x, fn.sets)
    BY <2>2
  <2> QED
    BY <1>1, <1>2, <1>6, <2>1, <2>3, ExecutedOK
<1> QED
  BY <1>4, <1>5, <1>6

\* A trigger that fires is one that the matrix reckons with.
LEMMA FiringSeen ==
    ASSUME NEW t \in Tables(cat), NEW tr \in TriggersOn(cat, t), Settled,
           Fires(cat, t, tr.cmd, tr, cells, reach)
    PROVE  /\ \A d \in RunFunction(cat, tr.fn) : Seen(d)
           /\ tr.fn \in DOMAIN cat.fns => cat.fns[tr.fn].hidden = {} \/ tr.fn \in untraced
<1>1. tr.fn \in Firing(cat, cells, reach)
  <2>1. tr \in {x \in TriggersOn(cat, t) : Fires(cat, t, x.cmd, x, cells, reach)}
    OBVIOUS
  <2>2. tr \in UNION {{x \in TriggersOn(cat, y) : Fires(cat, y, x.cmd, x, cells, reach)} : y \in Tables(cat)}
    BY <2>1
  <2> QED
    BY <2>2 DEF Firing
<1>2. RunFunction(cat, tr.fn) \subseteq TriggerDoors(cat, cells, reach)
  BY <1>1 DEF TriggerDoors
<1>3. TriggerDoors(cat, cells, reach) \subseteq Followed(cat, cells, reach)
  BY DEF Followed
<1>4. cat.fns[tr.fn].hidden # {} => tr.fn \in Opaque(cat, Firing(cat, cells, reach))
  BY <1>1 DEF Opaque
<1> QED
  BY <1>2, <1>3, <1>4 DEF Settled

\* The triggers of a table, its own and those of the tables it is part of.
LEMMA TriggersAre ==
    ASSUME NEW t \in Tables(cat), NEW tr \in TriggersOn(cat, t), IsCatalogue(cat)
    PROVE  /\ tr.fn \in DOMAIN cat.fns /\ tr.row \in BOOLEAN /\ tr.cmd \in Commands \ {"SELECT"}
           /\ tr.cmd = "TRUNCATE" => ~tr.row
<1>1. PICK a \in Tables(cat) : tr \in cat.tables[a].triggers
  <2>1. CASE tr \in cat.tables[t].triggers
    BY <2>1
  <2>2. CASE tr \notin cat.tables[t].triggers
    <3>1. PICK a \in {x \in Ancestors(cat, t) : Declarative(cat, x, t)} :
             tr \in {y \in cat.tables[a].triggers : y.row}
      BY <2>2 DEF TriggersOn
    <3>2. a \in Tables(cat)
      BY <3>1 DEF Ancestors
    <3> QED
      BY <3>1, <3>2
  <2> QED
    BY <2>1, <2>2
<1>2. IsTable(cat, a)
  BY DEF IsCatalogue
<1> QED
  BY <1>1, <1>2 DEF IsTable

\* A statement that the matrix answers for fires what the matrix expects.
LEMMA TriggerExpected ==
    ASSUME NEW tr \in TriggersOn(cat, exec.rel), Settled, IsStatement(exec), OnTable, TableOK(exec),
           ~exec.guessed, tr.cmd = exec.cmd,
           \/ exec.cmd = "TRUNCATE"
           \/ ~tr.row /\ exec.named
           \/ tr.row /\ (exec.rows # {} \/ (tr.timing = "BEFORE" /\ exec.cmd = "INSERT"))
    PROVE  Fires(cat, exec.rel, tr.cmd, tr, cells, reach)
<1> DEFINE t == exec.rel
           above == {a \in Ancestors(cat, t) : Declarative(cat, a, t)}
<1>0. IsCatalogue(cat) /\ t \in Tables(cat)
  BY DEF Settled, OnTable
<1>1. tr.row \in BOOLEAN /\ tr.cmd \in Commands \ {"SELECT"} /\ (tr.cmd = "TRUNCATE" => ~tr.row)
  BY <1>0, TriggersAre
<1>2. Routes(cat, t) = {t} \cup above
  BY DEF Routes
<1>3. t \notin above
  BY DEF Ancestors, Descendants
<1>4. exec.moved => /\ ~exec.named /\ exec.cmd \in {"INSERT", "DELETE"}
                    /\ \E a \in above : cells[<<a, "UPDATE">>].verdict # "denied"
  BY <1>2, <1>3 DEF TableOK
<1>5. ~exec.moved =>
          /\ exec.rows # {} => cells[<<t, exec.cmd>>].verdict # "denied"
          /\ exec.cmd = "TRUNCATE" => \E a \in Ancestors(cat, t) \cup {t} : <<a, exec.cmd>> \in reach
          /\ exec.cmd = "INSERT" => \E a \in above \cup {t} : <<a, exec.cmd>> \in reach
          /\ exec.named /\ exec.cmd \in {"INSERT", "UPDATE", "DELETE"} => <<t, exec.cmd>> \in reach
  BY <1>2 DEF TableOK
<1>6. Fires(cat, t, tr.cmd, tr, cells, reach) <=>
          IF tr.cmd = "TRUNCATE"
          THEN \E a \in Ancestors(cat, t) \cup {t} : <<a, tr.cmd>> \in reach
          ELSE IF ~tr.row THEN <<t, tr.cmd>> \in reach
          ELSE \/ /\ tr.timing = "BEFORE" /\ tr.cmd = "INSERT"
                  /\ \E a \in above \cup {t} : <<a, tr.cmd>> \in reach
               \/ cells[<<t, tr.cmd>>].verdict # "denied"
               \/ /\ tr.cmd \in {"INSERT", "DELETE"}
                  /\ \E a \in above : cells[<<a, "UPDATE">>].verdict # "denied"
  BY DEF Fires
<1> SUFFICES Fires(cat, t, tr.cmd, tr, cells, reach)
  OBVIOUS
<1> HIDE DEF above, t
<1>7. CASE exec.cmd = "TRUNCATE"
  BY <1>4, <1>5, <1>6, <1>7
<1>8. CASE exec.cmd # "TRUNCATE" /\ ~tr.row /\ exec.named
  <2>1. ~exec.moved /\ exec.cmd \in {"INSERT", "UPDATE", "DELETE"}
    BY <1>1, <1>4, <1>8 DEF Commands
  <2> QED
    BY <1>5, <1>6, <1>8, <2>1
<1>9. CASE tr.row /\ exec.cmd # "TRUNCATE" /\ (exec.rows # {} \/ (tr.timing = "BEFORE" /\ exec.cmd = "INSERT"))
  <2>1. CASE exec.moved
    BY <1>4, <1>6, <1>9, <2>1
  <2>2. CASE ~exec.moved
    BY <1>5, <1>6, <1>9, <2>2
  <2> QED
    BY <2>1, <2>2
<1> QED
  BY <1>1, <1>7, <1>8, <1>9

-------------------------------------------------------------------------------
(* Each step of a session.                                                 *)

\* The principal's own statement.
LEMMA IssueStep ==
    ASSUME NEW rel \in Tables(cat) \cup Views(cat), NEW cmd \in Commands, Settled, Issue(rel, cmd)
    PROVE  ExecOK(exec')
<1> DEFINE touch == <<rel, cmd>>
<1>1. cmd # "TRUNCATE" /\ exec' \in Executed(me, me, touch, Unset, Unset)
  BY DEF Issue, To
<1>2. touch \in Touches(cat) /\ touch[1] = rel /\ touch[2] = cmd
  BY <1>1 DEF Touches, Relations
<1>3. me \in Users /\ Unset \in Choices /\ Unset # "here" /\ IsCatalogue(cat)
  BY DEF Settled, Choices, Unset
<1>4. Expanded(cat, touch) = {touch}
  <2>1. touch[2] # "TRUNCATE" /\ touch[2] # "TRUNCATE_CASCADE"
    BY <1>1 DEF Commands
  <2> QED
    BY <2>1 DEF Expanded
<1>5. TouchSeen(me, me, touch, FALSE)
  <2>1. rel \in Tables(cat) => Answer(me, me, rel, cmd, FALSE)
    BY OwnAnswers
  <2>2. rel \in Views(cat) /\ Holds(cat, me, cat.views[rel], cmd) # "no" =>
           /\ ViewSeen(me, me, rel, cmd, FALSE)
           /\ Holds(cat, me, cat.views[rel], cmd) = "yes" /\ cmd # "SELECT" => touch \in reach
    <3>1. cmd \in Commands \ {"TRUNCATE"}
      BY <1>1
    <3> QED
      BY <3>1, OwnViews
  <2> HIDE DEF touch
  <2> QED
    BY <1>2, <1>4, <2>1, <2>2 DEF TouchSeen
<1> HIDE DEF touch
<1>6. Unset = "here" => FALSE
  BY <1>3
<1> QED
  BY <1>1, <1>2, <1>3, <1>5, <1>6, ExecutedOK

\* The principal's own TRUNCATE.
LEMMA IssueTruncateStep ==
    ASSUME NEW ts \in SUBSET Tables(cat), Settled, IssueTruncate(ts)
    PROVE  ExecOK(exec')
<1>0. me \in Users /\ Unset \in Choices /\ IsCatalogue(cat)
  BY DEF Settled, Choices
<1>1. PICK t \in Truncated(ts) : exec' = Statement(me, me, t, "TRUNCATE", Unset, Unset)
  BY DEF IssueTruncate, To
<1>2. MayTruncate(me, ts)
  BY DEF IssueTruncate
<1>3. Truncated(ts) \subseteq Tables(cat)
  <2> SUFFICES ASSUME NEW x \in ts PROVE {x} \cup Descendants(cat, x) \subseteq Tables(cat)
    BY DEF Truncated
  <2> QED
    BY <1>0, BelowChild
<1>4. "TRUNCATE" \in Commands /\ t \in Relations(cat) /\ t \in Tables(cat) /\ t \notin Views(cat)
  BY <1>0, <1>1, <1>3 DEF Commands, Relations, IsCatalogue
<1>5. Fields(exec', me, me, t, "TRUNCATE", Unset, Unset)
  BY <1>1, StatementFields
<1>6. IsStatement(exec')
  BY <1>0, <1>4, <1>5, StatementIs
<1>7. \A x \in Truncated(ts) : Answer(me, me, x, "TRUNCATE", FALSE)
  BY <1>3, <1>4, OwnAnswers
<1>8. TableOK(exec')
  BY <1>0, <1>1, <1>2, <1>5, <1>6, <1>7, TruncateOnTable
<1>9. exec'.rel = t
  BY <1>5 DEF Fields
<1> QED
  BY <1>4, <1>6, <1>8, <1>9 DEF ExecOK

\* The principal's own call.
LEMMA CallStep ==
    ASSUME NEW f \in DOMAIN cat.fns, Settled, Call(f)
    PROVE  ExecOK(exec')
<1> DEFINE behind == IF cat.graph THEN Unset ELSE f
<1>0. IsCatalogue(cat) /\ me \in Users
  BY DEF Settled
<1>1. exec' \in Body(f, behind)
  BY DEF Call, To
<1>2. ASSUME ~Told(behind) PROVE f \in Callable(cat, me)
  <2>1. CASE Known(cat, me)
    <3>1. Held(cat, me) = MemberOf(cat, me)
      BY <1>0, <2>1, PrivilegesFound
    <3> QED
      BY <3>1 DEF Call, Callable
  <2>2. CASE ~Known(cat, me)
    <3>1. behind = f
      BY <2>2 DEF Known
    <3>2. f \notin Uncallable(cat, me)
      BY <1>2, <3>1 DEF Told, Settled
    <3> QED
      BY <2>2, <3>2 DEF Uncallable, Call
  <2> QED
    BY <2>1, <2>2
<1>3. ASSUME ~Told(behind)
      PROVE  /\ \A d \in RunFunction(cat, f) : Seen(d)
             /\ cat.fns[f].hidden = {} \/ f \in untraced
  <2>1. f \in Callable(cat, me)
    BY <1>2, <1>3
  <2>2. RunFunction(cat, f) \subseteq FunctionDoors(cat, me)
    BY <2>1 DEF FunctionDoors
  <2>3. cat.fns[f].hidden # {} => f \in Opaque(cat, Callable(cat, me))
    BY <2>1 DEF Opaque
  <2> QED
    BY <2>2, <2>3 DEF Settled, Chosen
<1> HIDE DEF behind
<1> QED
  BY <1>1, <1>3, BodyOK

\* Below a table.
LEMMA ReachChildStep ==
    ASSUME NEW d \in Tables(cat), Settled, ExecOK(exec), ReachChild(d)
    PROVE  ExecOK(exec')
<1> DEFINE t == exec.rel
           cmd == exec.cmd
           e == [exec EXCEPT !.rel = d, !.named = FALSE]
<1>0. IsCatalogue(cat) /\ t \in Tables(cat) /\ IsStatement(exec) /\ exec' = e
  BY DEF Settled, ReachChild, OnTable, To, ExecOK
<1>1. /\ e.rel = d /\ e.named = FALSE /\ e.cmd = cmd /\ e.rows = exec.rows /\ e.moved = exec.moved
      /\ e.guessed = exec.guessed /\ e.chosen = exec.chosen /\ e.behind = exec.behind
      /\ e.session = exec.session /\ e.as = exec.as
      /\ DOMAIN e = DOMAIN exec
  BY <1>0 DEF IsStatement
<1>2. ~exec.moved /\ cmd # "TRUNCATE" /\ cat.tables[d].parent = t /\ cmd \in Commands
      /\ (cmd = "INSERT" => cat.tables[d].declarative)
  BY <1>0 DEF ReachChild, IsStatement
<1> HIDE DEF e
<1>3. IsStatement(e)
  BY <1>0, <1>1 DEF IsStatement, Relations
<1>4. d \notin Views(cat)
  BY <1>0 DEF IsCatalogue
<1>5. ASSUME TableOK(exec) PROVE TableOK(e)
  <2>1. t \in Ancestors(cat, d)
    BY <1>0, <1>2, AncestorsOfChild
  <2>2. cmd = "INSERT" => Declarative(cat, t, d) /\ Routes(cat, t) \subseteq Routes(cat, d)
    <3>1. cmd = "INSERT" => Routes(cat, t) \subseteq Routes(cat, d) /\ t \in Routes(cat, d)
      BY <1>0, <1>2, RoutedOn
    <3>2. t # d
      BY <2>1 DEF Ancestors, Descendants
    <3> QED
      BY <3>1, <3>2 DEF Routes
  <2>3. Covers(cells[<<t, cmd>>], cells[<<d, cmd>>])
    BY <1>2, <2>1, <2>2, ParentsSeen
  <2>4. /\ exec.rows # {} => cells[<<t, cmd>>].verdict # "denied"
        /\ exec.chosen # "before" => exec.rows \subseteq CellRows(cells[<<t, cmd>>])
        /\ ~exec.guessed /\ cmd = "INSERT" => \E a \in Routes(cat, t) : <<a, cmd>> \in reach
    BY <1>2, <1>5 DEF TableOK
  <2>5. cells[<<t, cmd>>].verdict \in {"open", "undecided", "conditional", "denied"}
    <3>1. <<t, cmd>> \in Keys(cat)
      BY <1>0, <1>2 DEF Keys
    <3> QED
      BY <3>1 DEF Settled, IsMatrix, IsCell, Verdicts
  <2>6. cells[<<t, cmd>>].verdict # "denied" => cells[<<d, cmd>>].verdict # "denied"
    BY <2>3, <2>5 DEF Covers, Wide
  <2>7. CellRows(cells[<<t, cmd>>]) \subseteq CellRows(cells[<<d, cmd>>])
    <3>1. CASE cells[<<t, cmd>>].verdict = "denied"
      BY <3>1 DEF CellRows
    <3>2. CASE cells[<<t, cmd>>].verdict = "conditional"
      BY <2>3, <3>2 DEF Covers
    <3>3. CASE Wide(cells[<<t, cmd>>])
      <4>1. Wide(cells[<<d, cmd>>])
        BY <2>3, <3>3 DEF Covers
      <4> QED
        BY <3>3, <4>1, WideAdmitsAll
    <3> QED
      BY <2>5, <3>1, <3>2, <3>3 DEF Wide
  <2> QED
    BY <1>1, <1>2, <2>2, <2>4, <2>6, <2>7 DEF TableOK
<1> QED
  BY <1>0, <1>1, <1>3, <1>4, <1>5 DEF ExecOK

\* From one partition to another.
LEMMA MoveRowStep ==
    ASSUME NEW d \in Tables(cat), NEW cmd \in Commands, Settled, ExecOK(exec), MoveRow(d, cmd)
    PROVE  ExecOK(exec')
<1> DEFINE t == exec.rel
           e == [exec EXCEPT !.rel = d, !.cmd = cmd, !.named = FALSE, !.moved = TRUE]
<1>0. IsCatalogue(cat) /\ t \in Tables(cat) /\ IsStatement(exec) /\ exec' = e
  BY DEF Settled, MoveRow, OnTable, To, ExecOK
<1>1. /\ e.rel = d /\ e.named = FALSE /\ e.cmd = cmd /\ e.rows = exec.rows /\ e.moved = TRUE
      /\ e.guessed = exec.guessed /\ e.chosen = exec.chosen /\ e.behind = exec.behind
      /\ e.session = exec.session /\ e.as = exec.as
      /\ DOMAIN e = DOMAIN exec
  BY <1>0 DEF IsStatement
<1>2. /\ ~exec.moved /\ exec.cmd = "UPDATE" /\ exec.rows # {} /\ cmd \in {"INSERT", "DELETE"}
      /\ t \in Ancestors(cat, d) /\ Declarative(cat, t, d)
  BY DEF MoveRow
<1> HIDE DEF e
<1>3. IsStatement(e)
  BY <1>0, <1>1 DEF IsStatement, Relations
<1>4. d \notin Views(cat)
  BY <1>0 DEF IsCatalogue
<1>5. ASSUME TableOK(exec) PROVE TableOK(e)
  <2>1. cells[<<t, "UPDATE">>].verdict # "denied"
    BY <1>2, <1>5 DEF TableOK
  <2>2. t \in Routes(cat, d) \ {d}
    BY <1>2 DEF Routes, Ancestors, Descendants
  <2> QED
    BY <1>1, <1>2, <2>1, <2>2 DEF TableOK
<1> QED
  BY <1>0, <1>1, <1>3, <1>4, <1>5 DEF ExecOK

\* What a view reads is in its chain.
LEMMA ChainOf ==
    ASSUME NEW v \in Views(cat)
    PROVE  LET ref == cat.views[v].ref IN
           /\ v \in Chain(cat, v) /\ ref \in Chain(cat, v)
           /\ Chain(cat, ref) \subseteq Chain(cat, v)
<1> DEFINE Step == [x \in Views(cat) |-> {cat.views[x].ref}]
           ref == cat.views[v].ref
<1>1. \A x : Chain(cat, x) = Closure(Step, {x})
  BY DEF Chain
<1>2. v \in Closure(Step, {v})
  BY ClosureStarts
<1>3. Closed(Step, Closure(Step, {v}))
  BY ClosureClosed
<1>4. ref \in Closure(Step, {v})
  BY <1>2, <1>3 DEF Closed
<1> HIDE DEF Step
<1>5. Closure(Step, {ref}) \subseteq Closure(Step, {v})
  BY <1>4, ClosureFromMore
<1> QED
  BY <1>1, <1>2, <1>4, <1>5

\* A view opened on the way opens the same views.
LEMMA OpenedOn ==
    ASSUME NEW r, NEW cmd, NEW v \in Views(cat), cat.views[v].ref \in Views(cat),
           ~cat.views[cat.views[v].ref].mat,
           Holds(cat, RunsAs(cat, r, v), cat.views[cat.views[v].ref], cmd) = "yes"
    PROVE  Opened(cat, r, cat.views[v].ref, cmd) \subseteq Opened(cat, r, v, cmd)
<1> DEFINE Step == [x \in Views(cat) |->
                       {y \in {cat.views[x].ref} \cap Views(cat) :
                           ~cat.views[y].mat /\ Holds(cat, RunsAs(cat, r, x), cat.views[y], cmd) = "yes"}]
           ref == cat.views[v].ref
<1>1. \A x : Opened(cat, r, x, cmd) = Closure(Step, {x})
  BY DEF Opened
<1>2. v \in Closure(Step, {v})
  BY ClosureStarts
<1>3. Closed(Step, Closure(Step, {v}))
  BY ClosureClosed
<1>4. ref \in Step[v] /\ v \in DOMAIN Step
  OBVIOUS
<1> HIDE DEF Step
<1>5. ref \in Closure(Step, {v})
  BY <1>2, <1>3, <1>4 DEF Closed
<1>6. Closure(Step, {ref}) \subseteq Closure(Step, {v})
  BY <1>5, ClosureFromMore
<1> QED
  BY <1>1, <1>6

\* A walk down from a view walks down from what it reads.
LEMMA WalkOn ==
    ASSUME NEW r, NEW s, NEW cmd, NEW sets, NEW v \in Views(cat), cat.views[v].ref \in Views(cat),
           ~cat.views[cat.views[v].ref].mat,
           Holds(cat, RunsAs(cat, r, v), cat.views[cat.views[v].ref], cmd) = "yes",
           WalkSeen(r, s, v, cmd, sets)
    PROVE  WalkSeen(r, s, cat.views[v].ref, cmd, sets)
<1>1. Opened(cat, r, cat.views[v].ref, cmd) \subseteq Opened(cat, r, v, cmd)
  BY OpenedOn
<1> QED
  BY <1>1 DEF WalkSeen

\* A materialized view is read from what it was filled with.
LEMMA OpenMaterialized ==
    ASSUME Settled, ExecOK(exec), OpenView, cat.views[exec.rel].mat
    PROVE  ExecOK(exec')
<1> DEFINE v == exec.rel
<1>0. IsCatalogue(cat) /\ v \in Views(cat) /\ IsStatement(exec)
  BY DEF Settled, OpenView, ExecOK
<1>1. PICK t \in TablesBeneath(cat, v) : exec' = [exec EXCEPT !.rel = t, !.named = FALSE, !.rows = Rows]
  BY DEF OpenView, To
<1> DEFINE e == [exec EXCEPT !.rel = t, !.named = FALSE, !.rows = Rows]
<1>2. /\ e.rel = t /\ e.named = FALSE /\ e.cmd = exec.cmd /\ e.rows = Rows /\ e.moved = exec.moved
      /\ e.guessed = exec.guessed /\ e.chosen = exec.chosen /\ e.behind = exec.behind
      /\ e.session = exec.session /\ e.as = exec.as /\ DOMAIN e = DOMAIN exec
  BY <1>0 DEF IsStatement
<1> HIDE DEF e
<1>3. t \in Tables(cat) /\ t \in Chain(cat, v) /\ t \notin Views(cat)
  BY <1>0 DEF TablesBeneath, IsCatalogue
<1>4. IsStatement(e)
  BY <1>0, <1>2, <1>3 DEF IsStatement, Relations
<1>5. exec.cmd = "SELECT" /\ ~Instead(cat, v, exec.cmd)
  BY DEF OpenView
<1>6. ASSUME ViewOK(exec) PROVE TableOK(e)
  <2>1. WideBelow(v, exec.cmd) /\ ~exec.moved
    BY <1>5, <1>6 DEF ViewOK
  <2>2. Wide(cells[<<t, exec.cmd>>])
    BY <1>3, <2>1 DEF WideBelow
  <2> QED
    BY <1>2, <1>5, <2>1, <2>2, WideAdmitsAll DEF TableOK
<1> QED
  BY <1>0, <1>1, <1>2, <1>3, <1>4, <1>6 DEF ExecOK, e

\* A view leads to what it reads.
LEMMA OpenOrdinary ==
    ASSUME Settled, ExecOK(exec), OpenView, ~cat.views[exec.rel].mat
    PROVE  ExecOK(exec')
<1> DEFINE v == exec.rel
           view == cat.views[v]
           ref == view.ref
           cmd == exec.cmd
           s == exec.session
           runs == IF view.invoker THEN s ELSE view.owner
           touch == <<ref, cmd>>
<1>0. IsCatalogue(cat) /\ v \in Views(cat) /\ IsStatement(exec) /\ Followable(cat) /\ IsMatrix(cells)
  BY DEF Settled, OpenView, ExecOK
<1>1. PICK x \in Executed(runs, s, touch, exec.chosen, exec.behind) :
         exec' = [x EXCEPT !.guessed = @ \/ exec.guessed \/ (exec.cmd # "SELECT" /\ ~view.known)]
  BY DEF OpenView, To
<1>2. ~Instead(cat, v, cmd) /\ (cmd # "SELECT" => ~view.mat /\ cmd \in view.updatable)
  BY DEF OpenView
<1>3. /\ ref \in Relations(cat) /\ runs \in Users /\ s \in Users
      /\ exec.chosen \in Choices /\ exec.guessed \in BOOLEAN
      /\ {view.invoker, view.mat, view.known} \subseteq BOOLEAN
      /\ cmd \in Commands \ {"TRUNCATE"}
      /\ (ref \in Tables(cat) <=> ref \notin Views(cat))
  BY <1>0 DEF IsCatalogue, IsStatement, Users, Relations
<1>4. touch \in Touches(cat) /\ touch[1] = ref /\ touch[2] = cmd
  BY <1>3 DEF Touches
<1>5. /\ IsStatement(x) /\ x.behind = exec.behind /\ May(runs, ref, cmd)
      /\ Fields(x, runs, s, ref, cmd, exec.chosen, exec.behind)
  <2>1. /\ IsStatement(x) /\ x.behind = exec.behind
        /\ Single(x, runs, s, touch, exec.chosen, exec.behind) \/ Emptying(x, runs, s, touch, exec.chosen, exec.behind)
    BY <1>0, <1>1, <1>3, <1>4, ExecutedIs
  <2>2. CASE Single(x, runs, s, touch, exec.chosen, exec.behind)
    BY <1>4, <2>1, <2>2 DEF Single
  <2>3. ASSUME Emptying(x, runs, s, touch, exec.chosen, exec.behind) PROVE FALSE
    <3>1. x.cmd = "TRUNCATE"
      BY <2>3 DEF Emptying, Fields
    <3>2. x.cmd = cmd
      <4>1. cmd # "TRUNCATE_CASCADE"
        BY <1>3 DEF Commands
      <4>2. x = Statement(runs, s, ref, cmd, exec.chosen, exec.behind)
        BY <1>1, <1>3, <1>4, <4>1 DEF Executed
      <4> QED
        BY <4>2, StatementFields DEF Fields
    <3> QED
      BY <1>3, <3>1, <3>2
  <2> QED
    BY <2>1, <2>2, <2>3
<1>6. Guessed(exec', x) /\ (exec'.guessed <=> x.guessed \/ exec.guessed \/ (cmd # "SELECT" /\ ~view.known))
  <2>1. IsStatement(x)
    BY <1>5
  <2> QED
    BY <1>1, <1>3, <2>1 DEF Guessed, IsStatement
<1>7. x.rel = ref /\ x.cmd = cmd /\ x.session = s /\ x.chosen = exec.chosen /\ ~x.moved /\ x.named
      /\ (ref \in Views(cat) => x.rows = {})
  BY <1>5 DEF Fields
<1>8. v \in Chain(cat, v) /\ ref \in Chain(cat, v) /\ Chain(cat, ref) \subseteq Chain(cat, v)
  BY <1>0, ChainOf
<1>9. Relation(cat, ref) = (IF ref \in Tables(cat) THEN cat.tables[ref] ELSE cat.views[ref])
  BY DEF Relation
<1>10. (x.guessed <=> Holds(cat, runs, Relation(cat, ref), cmd) = "unknown")
       /\ Holds(cat, runs, Relation(cat, ref), cmd) # "no"
  BY <1>0, <1>3, <1>5, PrivilegesFound DEF Fields, May
<1>11. ASSUME WideBelow(v, cmd), exec.guessed \/ (cmd # "SELECT" /\ ~view.known)
       PROVE  (ref \in Tables(cat) => TableOK(exec')) /\ (ref \in Views(cat) => ViewOK(exec'))
  <2>1. exec'.guessed
    BY <1>6, <1>11
  <2>2. ASSUME ref \in Tables(cat) PROVE TableOK(exec')
    <3>1. Wide(cells[<<ref, cmd>>])
      BY <1>8, <1>11, <2>2 DEF WideBelow
    <3>2. exec'.rows \subseteq Rows
      BY <1>5, <1>6, GuessedOK DEF IsStatement
    <3>3. ~exec'.moved /\ exec'.rel = ref /\ exec'.cmd = cmd
      BY <1>6, <1>7 DEF Guessed
    <3>4. cells[<<ref, cmd>>].verdict # "denied" /\ CellRows(cells[<<ref, cmd>>]) = Rows
      BY <3>1, WideAdmitsAll
    <3> QED
      BY <2>1, <3>2, <3>3, <3>4 DEF TableOK
  <2>3. ASSUME ref \in Views(cat) PROVE ViewOK(exec')
    <3>1. WideBelow(ref, cmd)
      BY <1>8, <1>11 DEF WideBelow
    <3> QED
      BY <1>3, <1>6, <1>7, <2>1, <2>3, <3>1 DEF ViewOK, Guessed
  <2> QED
    BY <2>2, <2>3
<1>12. ASSUME NEW r \in Users, NEW sets \in BOOLEAN,
              r = s \/ \A w \in Chain(cat, v) \cap Views(cat) : ~cat.views[w].invoker,
              exec.chosen = "here" => sets, WalkSeen(r, s, v, cmd, sets)
       PROVE  (ref \in Tables(cat) => TableOK(x)) /\ (ref \in Views(cat) => ViewOK(x))
  <2>1. RunsAs(cat, r, v) = runs
    BY <1>0, <1>8, <1>12 DEF RunsAs
  <2>2. v \in Opened(cat, r, v, cmd)
    BY <1>0, OpenedViews
  <2>3. /\ ref \in Tables(cat) => Answer(runs, s, ref, cmd, sets)
        /\ ref \in Views(cat) =>
             /\ cat.views[ref].mat /\ cmd = "SELECT" => WideBelow(ref, cmd)
             /\ ~cat.views[ref].mat /\ Holds(cat, runs, cat.views[ref], cmd) = "unknown" => WideBelow(ref, cmd)
             /\ ~cat.views[ref].mat /\ Holds(cat, runs, cat.views[ref], cmd) = "yes" /\ cmd # "SELECT" =>
                   <<ref, cmd>> \in reach
    BY <1>12, <2>1, <2>2 DEF WalkSeen
  <2> HIDE DEF runs, touch
  <2>4. ASSUME ref \in Tables(cat) PROVE TableOK(x)
    BY <1>0, <1>3, <1>5, <1>12, <2>3, <2>4, StatementOnTable
  <2>5. ASSUME ref \in Views(cat) PROVE ViewOK(x)
    <3>1. CASE cat.views[ref].mat
      BY <1>3, <1>7, <2>3, <2>5, <3>1 DEF ViewOK
    <3>2. CASE ~cat.views[ref].mat /\ Holds(cat, runs, cat.views[ref], cmd) = "unknown"
      <4>1. x.guessed
        BY <1>3, <1>9, <1>10, <2>5, <3>2
      <4>2. WideBelow(ref, cmd)
        BY <2>3, <2>5, <3>2
      <4> QED
        BY <1>3, <1>7, <2>5, <4>1, <4>2 DEF ViewOK
    <3>3. CASE ~cat.views[ref].mat /\ Holds(cat, runs, cat.views[ref], cmd) = "yes"
      <4>1. WalkSeen(r, s, ref, cmd, sets)
        BY <1>0, <1>12, <2>1, <2>5, <3>3, WalkOn
      <4>2. r = s \/ \A w \in Chain(cat, ref) \cap Views(cat) : ~cat.views[w].invoker
        BY <1>8, <1>12
      <4>3. cmd # "SELECT" => <<ref, cmd>> \in reach
        BY <2>3, <2>5, <3>3
      <4> QED
        BY <1>3, <1>7, <1>12, <2>5, <3>3, <4>1, <4>2, <4>3 DEF ViewOK
    <3>4. Holds(cat, runs, cat.views[ref], cmd) \in {"yes", "unknown"}
      <4>1. Holds(cat, runs, cat.views[ref], cmd) \in {"yes", "no", "unknown"}
        BY <1>0, <1>3, PrivilegesFound
      <4> QED
        BY <1>3, <1>9, <1>10, <2>5, <4>1
    <3> QED
      BY <3>1, <3>2, <3>3, <3>4
  <2> QED
    BY <2>4, <2>5
<1>13. ASSUME ViewOK(exec)
       PROVE  (ref \in Tables(cat) => TableOK(exec')) /\ (ref \in Views(cat) => ViewOK(exec'))
  <2>1. CASE (exec.guessed \/ (cmd # "SELECT" /\ ~view.known)) /\ WideBelow(v, cmd)
    BY <1>11, <2>1
  <2>2. ASSUME NEW r \in Users, NEW sets \in BOOLEAN,
               r = s \/ \A w \in Chain(cat, v) \cap Views(cat) : ~cat.views[w].invoker,
               exec.chosen = "here" => sets, WalkSeen(r, s, v, cmd, sets)
        PROVE  (ref \in Tables(cat) => TableOK(exec')) /\ (ref \in Views(cat) => ViewOK(exec'))
    <3>1. (ref \in Tables(cat) => TableOK(x)) /\ (ref \in Views(cat) => ViewOK(x))
      BY <1>12, <2>2
    <3> QED
      BY <1>5, <1>6, <3>1, GuessedOK
  <2>3. \/ (exec.guessed \/ (cmd # "SELECT" /\ ~view.known)) /\ WideBelow(v, cmd)
        \/ \E r \in Users, sets \in BOOLEAN :
              /\ r = s \/ \A w \in Chain(cat, v) \cap Views(cat) : ~cat.views[w].invoker
              /\ exec.chosen = "here" => sets
              /\ WalkSeen(r, s, v, cmd, sets)
    BY <1>2, <1>13 DEF ViewOK
  <2> QED
    BY <2>1, <2>2, <2>3
<1>14. IsStatement(exec') /\ exec'.rel = ref /\ exec'.behind = exec.behind
  BY <1>5, <1>6, <1>7, GuessedOK DEF Guessed
<1> QED
  BY <1>0, <1>13, <1>14 DEF ExecOK

\* What a door leads to is told when what lies behind the statement is.
LEMMA BehindIs == ~Told(Behind) => ~exec.guessed /\ ~Told(exec.behind)
  BY DEF Behind, Told

\* A trigger.
LEMMA FireTriggerStep ==
    ASSUME NEW tr, Settled, ExecOK(exec), FireTrigger(tr)
    PROVE  ExecOK(exec')
<1>0. IsCatalogue(cat) /\ IsStatement(exec) /\ exec.rel \in Tables(cat) /\ OnTable
  BY DEF Settled, ExecOK, FireTrigger, OnTable
<1>1. tr \in TriggersOn(cat, exec.rel) /\ exec' \in Body(tr.fn, Behind) /\ tr.cmd = exec.cmd
  BY DEF FireTrigger, To
<1>2. tr.fn \in DOMAIN cat.fns
  BY <1>0, <1>1, TriggersAre
<1>3. ASSUME ~Told(Behind)
      PROVE  /\ \A d \in RunFunction(cat, tr.fn) : Seen(d)
             /\ cat.fns[tr.fn].hidden = {} \/ tr.fn \in untraced
  <2>1. ~exec.guessed /\ TableOK(exec)
    BY <1>0, <1>3, BehindIs DEF ExecOK
  <2>2. \/ exec.cmd = "TRUNCATE"
        \/ ~tr.row /\ exec.named
        \/ tr.row /\ (exec.rows # {} \/ (tr.timing = "BEFORE" /\ exec.cmd = "INSERT"))
    BY DEF FireTrigger
  <2>3. Fires(cat, exec.rel, tr.cmd, tr, cells, reach)
    BY <1>0, <1>1, <2>1, <2>2, TriggerExpected
  <2> QED
    BY <1>0, <1>1, <1>2, <2>3, FiringSeen
<1> QED
  BY <1>1, <1>2, <1>3, BodyOK

\* A rule.
LEMMA ApplyRuleStep ==
    ASSUME NEW r \in cat.rules, Settled, ExecOK(exec), ApplyRule(r)
    PROVE  ExecOK(exec')
<1> DEFINE owner == Relation(cat, r.rel).owner
           s == exec.session
<1>0. IsCatalogue(cat) /\ Followable(cat) /\ IsStatement(exec)
  BY DEF Settled, ExecOK
<1>1. PICK x \in r.touches : exec' \in Executed(owner, s, x, Kept, Behind)
  BY DEF ApplyRule, To
<1>2. /\ r.rel \in Relations(cat) /\ (r.rel \in Views(cat) => ~cat.views[r.rel].mat)
      /\ r.cmd \in {"INSERT", "UPDATE", "DELETE"} /\ r.touches \subseteq Touches(cat)
      /\ exec.named /\ r.rel = exec.rel /\ r.cmd = exec.cmd
  BY <1>0 DEF IsCatalogue, ApplyRule
<1>3. owner \in Users /\ s \in Users /\ x \in Touches(cat) /\ FALSE \in BOOLEAN
  <2>1. /\ \A t \in Tables(cat) : cat.tables[t].owner \in Users
        /\ \A v \in Views(cat) : cat.views[v].owner \in Users
    BY <1>0 DEF IsCatalogue, IsTable, Users
  <2> QED
    BY <1>0, <1>2, <2>1 DEF Relation, Relations, IsStatement
<1>4. ASSUME ~Told(Behind) PROVE TouchSeen(owner, s, x, FALSE)
  <2>1. ~exec.guessed /\ ~Told(exec.behind)
    BY <1>4, BehindIs
  <2>2. <<r.rel, r.cmd>> \in reach
    <3>1. CASE exec.rel \in Tables(cat)
      BY <1>2, <2>1, <3>1 DEF ExecOK, TableOK
    <3>2. CASE exec.rel \in Views(cat)
      BY <1>2, <2>1, <3>2 DEF ExecOK, ViewOK
    <3> QED
      BY <1>2, <3>1, <3>2 DEF Relations
  <2> QED
    BY <1>3, <2>2, RuleSeen
<1>5. \A w \in Chain(cat, x[1]) \cap Views(cat) : ~cat.views[w].invoker
  BY <1>0 DEF Followable
<1>6. Kept \in Choices /\ (Kept = "here" => FALSE)
  BY KeptIs
<1> HIDE DEF owner
<1> QED
  BY <1>1, <1>3, <1>4, <1>5, <1>6, ExecutedOK

\* What a foreign key leads to.
LEMMA FkCommandsAre ==
    ASSUME NEW fk, NEW cmd
    PROVE  FkCommands(fk, cmd) \subseteq {"DELETE", "UPDATE"}
  BY DEF FkCommands, FkAction

\* A foreign key.
LEMMA CascadeStep ==
    ASSUME NEW x \in Tables(cat), NEW fk \in cat.tables[x].fks, Settled, ExecOK(exec), Cascade(x, fk)
    PROVE  ExecOK(exec')
<1> DEFINE owner == cat.tables[x].owner
<1>0. IsCatalogue(cat) /\ IsStatement(exec) /\ exec.rel \in Tables(cat) /\ owner \in Users /\ x \notin Views(cat)
  BY DEF Settled, ExecOK, Cascade, OnTable, IsCatalogue, IsTable, Users
<1>1. PICK cmd \in FkCommands(fk, exec.cmd) :
         exec' = [Statement(owner, owner, x, cmd, Kept, Behind) EXCEPT !.rows = Rows]
  BY DEF Cascade, To
<1>2. /\ fk.ref = exec.rel /\ ~exec.moved /\ exec.rows # {} /\ exec.cmd \in {"DELETE", "UPDATE"}
  BY DEF Cascade
<1>3. cmd \in {"DELETE", "UPDATE"} /\ cmd \in Commands
  BY <1>1, FkCommandsAre DEF Commands
<1> DEFINE e == Statement(owner, owner, x, cmd, Kept, Behind)
<1>4. Fields(e, owner, owner, x, cmd, Kept, Behind)
  BY StatementFields
<1>5. IsStatement(e)
  <2>1. x \in Relations(cat) /\ (cmd = "TRUNCATE" => x \in Tables(cat))
    BY DEF Relations
  <2> HIDE DEF e
  <2> QED
    BY <1>0, <1>3, <1>4, <2>1, KeptIs, StatementIs
<1> HIDE DEF e
<1>6. /\ exec'.rel = x /\ exec'.cmd = cmd /\ exec'.rows = Rows /\ ~exec'.moved
      /\ exec'.behind = Behind /\ exec'.chosen = Kept /\ exec'.as = owner /\ exec'.session = owner
      /\ exec'.guessed = e.guessed /\ exec'.moved = e.moved /\ exec'.named = e.named
      /\ DOMAIN exec' = DOMAIN e
  BY <1>1, <1>4, <1>5 DEF e, Fields, IsStatement
<1>7. IsStatement(exec')
  BY <1>0, <1>3, <1>5, <1>6, KeptIs DEF IsStatement, Relations
<1>8. ASSUME ~Told(Behind) PROVE TableOK(exec')
  <2>1. cells[<<exec.rel, exec.cmd>>].verdict # "denied"
    BY <1>0, <1>2, <1>8, BehindIs DEF ExecOK, TableOK
  <2> DEFINE key == <<x, exec.cmd>>
             doors == {Door(key[1], cmd, Verdict("undecided"))} \cup Attempted(key[1], cmd)
  <2>2. key \in Tables(cat) \X {"DELETE", "UPDATE"} /\ key[1] = x /\ key[2] = exec.cmd
    BY <1>2
  <2>3. cmd \in UNION {IF cells[<<f.ref, key[2]>>].verdict = "denied" THEN {}
                       ELSE FkCommands(f, key[2]) : f \in cat.tables[key[1]].fks}
    <3>1. cmd \in IF cells[<<fk.ref, key[2]>>].verdict = "denied" THEN {} ELSE FkCommands(fk, key[2])
      BY <1>1, <1>2, <2>1, <2>2
    <3> HIDE DEF key
    <3> QED
      BY <2>2, <3>1
  <2> HIDE DEF key
  <2>4. doors \subseteq FkDoors(cat, cells)
    BY <2>2, <2>3 DEF FkDoors
  <2>5. \A d \in doors : Seen(d)
    BY <2>4 DEF Settled, Followed
  <2> DEFINE verdict == Verdict("undecided")
  <2>6. IsCell(verdict) /\ verdict.verdict = "undecided"
    BY VerdictCell DEF Verdicts
  <2> HIDE DEF verdict
  <2>7. Door(x, cmd, verdict).key = <<x, cmd>> /\ Door(x, cmd, verdict).cell = verdict
    BY <2>6, DoorIs
  <2>8. Door(x, cmd, verdict) \in doors
    BY <2>2 DEF verdict
  <2>9. Wide(cells[<<x, cmd>>])
    <3>1. <<x, cmd>> \in Keys(cat)
      BY <1>3 DEF Keys
    <3> QED
      BY <2>5, <2>6, <2>7, <2>8, <3>1 DEF Seen, Covers, Wide
  <2>10. <<x, cmd>> \in reach
    <3>1. PICK d \in Attempted(x, cmd) : d.key = <<x, cmd>> /\ d.cell.verdict = "attempted"
      BY <1>3, AttemptedDoors
    <3>2. d \in doors
      BY <2>2, <3>1
    <3> QED
      BY <2>5, <3>1, <3>2 DEF Seen
  <2> QED
    BY <1>3, <1>6, <2>9, <2>10, WideAdmitsAll DEF TableOK
<1> QED
  BY <1>0, <1>6, <1>7, <1>8 DEF ExecOK

-------------------------------------------------------------------------------
(* The rounds.                                                             *)

\* The doors of functions, if they are the catalogue's.
LEMMA FunctionsDoors ==
    ASSUME NEW f \in DOMAIN cat.fns, IsCatalogue(cat)
    PROVE  \A d \in RunFunction(cat, f) : IsDoor(d)
<1>1. cat.fns[f].owner \in Users /\ cat.fns[f].touches \in SUBSET Touches(cat)
  BY DEF IsCatalogue, Users
<1> QED
  BY <1>1, RunAsOwnerDoors DEF RunFunction

\* The functions that fire are the catalogue's.
LEMMA FiringAre ==
    ASSUME NEW known, NEW writes, IsCatalogue(cat)
    PROVE  Firing(cat, known, writes) \subseteq DOMAIN cat.fns
<1> SUFFICES ASSUME NEW t \in Tables(cat), NEW tr \in TriggersOn(cat, t)
             PROVE  tr.fn \in DOMAIN cat.fns
  BY DEF Firing
<1> QED
  BY TriggersAre

\* The doors that the principal opens.
LEMMA ChosenDoors ==
    ASSUME IsCatalogue(cat), me \in Users
    PROVE  \A d \in Chosen(cat, me) : IsDoor(d)
<1>1. ASSUME NEW d \in FunctionDoors(cat, me) PROVE IsDoor(d)
  <2>1. PICK f \in Callable(cat, me) : d \in RunFunction(cat, f)
    BY DEF FunctionDoors
  <2>2. f \in DOMAIN cat.fns
    BY DEF Callable
  <2> QED
    BY <2>1, <2>2, FunctionsDoors
<1>2. ASSUME NEW cmd, NEW d \in ViewDoors(cat, me, cmd, Views(cat), FALSE, Unset) PROVE IsDoor(d)
  <2>1. DoorsFor(ViewDoors(cat, me, cmd, Views(cat), FALSE, Unset), cmd)
    BY ViewsDoors
  <2> QED
    BY <2>1 DEF DoorsFor
<1> QED
  BY <1>1, <1>2 DEF Chosen

\* The doors that follow from what is reached.
LEMMA FollowedDoors ==
    ASSUME NEW known, NEW writes, IsCatalogue(cat), IsMatrix(known)
    PROVE  \A d \in Followed(cat, known, writes) : IsDoor(d)
<1>1. ASSUME NEW d \in ParentDoors(cat, known) PROVE IsDoor(d)
  <2>1. PICK k \in Tables(cat) \X Tables(cat) \X Commands :
           d = Door(k[1], k[3], known[<<k[2], k[3]>>])
    BY DEF ParentDoors
  <2>2. <<k[2], k[3]>> \in Keys(cat)
    BY <2>1 DEF Keys
  <2>3. IsCell(known[<<k[2], k[3]>>])
    BY <2>2 DEF IsMatrix
  <2> QED
    BY <2>1, <2>3, DoorIs
<1>2. ASSUME NEW d \in FkDoors(cat, known) PROVE IsDoor(d)
  <2>1. PICK x \in Tables(cat) \X {"DELETE", "UPDATE"} :
           d \in UNION {{Door(x[1], cmd, Verdict("undecided"))} \cup Attempted(x[1], cmd) :
                           cmd \in UNION {IF known[<<fk.ref, x[2]>>].verdict = "denied" THEN {}
                                          ELSE FkCommands(fk, x[2]) : fk \in cat.tables[x[1]].fks}}
    BY DEF FkDoors
  <2>2. PICK cmd : d \in {Door(x[1], cmd, Verdict("undecided"))} \cup Attempted(x[1], cmd)
    BY <2>1
  <2>3. IsCell(Verdict("undecided"))
    BY VerdictCell DEF Verdicts
  <2>4. IsDoor(Door(x[1], cmd, Verdict("undecided")))
    BY <2>3, DoorIs
  <2> QED
    BY <2>2, <2>4, AttemptedDoors DEF DoorsFor
<1>3. ASSUME NEW d \in TriggerDoors(cat, known, writes) PROVE IsDoor(d)
  <2>1. PICK f \in Firing(cat, known, writes) : d \in RunFunction(cat, f)
    BY DEF TriggerDoors
  <2> QED
    BY <2>1, FiringAre, FunctionsDoors
<1>4. ASSUME NEW d \in RuleDoors(cat, writes) PROVE IsDoor(d)
  <2>1. PICK r \in cat.rules :
           d \in RunAsOwner(cat, Relation(cat, r.rel).owner, r.touches, r.name, r.name, FALSE)
    BY DEF RuleDoors
  <2>2. r.rel \in Relations(cat) /\ r.touches \in SUBSET Touches(cat)
    BY DEF IsCatalogue
  <2>3. /\ \A t \in Tables(cat) : cat.tables[t].owner \in Users
        /\ \A v \in Views(cat) : cat.views[v].owner \in Users
    BY DEF IsCatalogue, IsTable, Users
  <2>4. Relation(cat, r.rel).owner \in Users
    BY <2>2, <2>3 DEF Relation, Relations
  <2> QED
    BY <2>1, <2>2, <2>4, RunAsOwnerDoors
<1> QED
  BY <1>1, <1>2, <1>3, <1>4 DEF Followed

\* Merging doors into a matrix loses nothing.
LEMMA FoldAllCovers ==
    ASSUME NEW from, NEW doors, me \in Users, IsMatrix(from), \A d \in doors : IsDoor(d)
    PROVE  LET all == FoldAll(cat, from, doors, me) IN
           /\ IsMatrix(all)
           /\ \A k \in Keys(cat) : Covers(from[k], all[k])
           /\ \A d \in doors : d.key \in Keys(cat) => Covers(d.cell, all[d.key])
<1> DEFINE all == FoldAll(cat, from, doors, me)
           At(k) == {d.cell : d \in {x \in doors : x.key = k}}
<1>1. ASSUME NEW k \in Keys(cat), NEW x \in {from[k]} \cup At(k)
      PROVE  IsCell(all[k]) /\ all[k].verdict # "attempted" /\ Covers(x, all[k])
  <2>1. all[k] = Fold(from[k], At(k), me)
    BY DEF FoldAll
  <2>2. IsCell(from[k]) /\ from[k].verdict # "attempted" /\ \A y \in At(k) : IsCell(y)
    BY DEF IsMatrix, IsDoor
  <2> HIDE DEF At, all
  <2> QED
    BY <1>1, <2>1, <2>2, FoldCovers
<1>2. DOMAIN all = Keys(cat)
  BY DEF FoldAll
<1>3. IsMatrix(all)
  <2> HIDE DEF all
  <2> QED
    BY <1>1, <1>2 DEF IsMatrix
<1>4. \A k \in Keys(cat) : Covers(from[k], all[k])
  BY <1>1
<1>5. ASSUME NEW d \in doors, d.key \in Keys(cat) PROVE Covers(d.cell, all[d.key])
  <2>1. d.cell \in At(d.key)
    OBVIOUS
  <2> HIDE DEF At, all
  <2> QED
    BY <1>1, <1>5, <2>1
<1> QED
  BY <1>3, <1>4, <1>5

\* What a principal opens itself is a matrix.
LEMMA BaseIs ==
    ASSUME IsCatalogue(cat), me \in Users
    PROVE  /\ IsMatrix(Base(cat, me))
           /\ \A k \in Keys(cat) : Covers(CellFor(cat, me, k[1], k[2]), Base(cat, me)[k])
           /\ \A d \in Chosen(cat, me) : d.key \in Keys(cat) => Covers(d.cell, Base(cat, me)[d.key])
<1> DEFINE direct == Direct(cat, me)
<1>1. IsMatrix(direct) /\ \A k \in Keys(cat) : direct[k] = CellFor(cat, me, k[1], k[2])
  <2>1. DOMAIN direct = Keys(cat) /\ \A k \in Keys(cat) : direct[k] = CellFor(cat, me, k[1], k[2])
    BY DEF Direct
  <2>2. ASSUME NEW k \in Keys(cat)
        PROVE  IsCell(CellFor(cat, me, k[1], k[2])) /\ CellFor(cat, me, k[1], k[2]).verdict # "attempted"
    <3>1. k[1] \in Tables(cat)
      BY DEF Keys
    <3> QED
      BY <3>1, CellForType
  <2> HIDE DEF direct
  <2> QED
    BY <2>1, <2>2 DEF IsMatrix
<1>2. Base(cat, me) = FoldAll(cat, direct, Chosen(cat, me), me)
  BY DEF Base
<1> HIDE DEF direct
<1>3. LET all == FoldAll(cat, direct, Chosen(cat, me), me) IN
      /\ IsMatrix(all)
      /\ \A k \in Keys(cat) : Covers(direct[k], all[k])
      /\ \A d \in Chosen(cat, me) : d.key \in Keys(cat) => Covers(d.cell, all[d.key])
  BY <1>1, ChosenDoors, FoldAllCovers
<1> QED
  BY <1>1, <1>2, <1>3

-------------------------------------------------------------------------------
(* The inductive invariant.                                                *)

\* The engine, round by round.
Opening == issuable = Issuable(cat, me) \cup Issued(Chosen(cat, me))
\* The doors listed as untraced when the rounds have ended.
Untraced == (Opaque(cat, Callable(cat, me)) \cup Uncallable(cat, me))
            \cup Opaque(cat, Firing(cat, cells, reach))
\* The engine's half of the inductive invariant.
Engine ==
    /\ cat \in Catalogues /\ me \in Principals /\ phase \in {"analysis", "session"}
    /\ base = Base(cat, me) /\ Opening /\ IsMatrix(cells) /\ untraced \subseteq DOMAIN cat.fns
    /\ phase = "session" =>
          /\ cells = FoldAll(cat, base, Followed(cat, cells, reach), me)
          /\ reach = issuable \cup Issued(Followed(cat, cells, reach))
          /\ untraced = Untraced
\* The inductive invariant.
Inv == /\ Engine
       /\ phase = "analysis" => exec = Idle
       /\ exec = Idle \/ ExecOK(exec)

\* A catalogue and a principal are what they should be.
LEMMA EngineTypes ==
    ASSUME cat \in Catalogues, me \in Principals
    PROVE  IsCatalogue(cat) /\ me \in Users
  BY AccessAssumption, CatalogueAssumption

\* When the rounds have ended, the matrix reckons with every door.
LEMMA EngineSettles ==
    ASSUME Engine, phase = "session", Followable(cat)
    PROVE  Settled
<1> DEFINE followed == Followed(cat, cells, reach)
<1>0. IsCatalogue(cat) /\ me \in Users /\ IsMatrix(cells)
  BY EngineTypes DEF Engine
<1>1. /\ IsMatrix(base)
      /\ \A k \in Keys(cat) : Covers(CellFor(cat, me, k[1], k[2]), base[k])
      /\ \A d \in Chosen(cat, me) : d.key \in Keys(cat) => Covers(d.cell, base[d.key])
  BY <1>0, BaseIs DEF Engine
<1>2. \A d \in followed : IsDoor(d)
  BY <1>0, FollowedDoors
<1>3. /\ cells = FoldAll(cat, base, followed, me) /\ reach = issuable \cup Issued(followed)
      /\ untraced = Untraced /\ Opening
  BY DEF Engine
<1> HIDE DEF followed
<1>4. /\ \A k \in Keys(cat) : Covers(base[k], cells[k])
      /\ \A d \in followed : d.key \in Keys(cat) => Covers(d.cell, cells[d.key])
  <2>1. LET all == FoldAll(cat, base, followed, me) IN
        /\ \A k \in Keys(cat) : Covers(base[k], all[k])
        /\ \A d \in followed : d.key \in Keys(cat) => Covers(d.cell, all[d.key])
    BY <1>0, <1>1, <1>2, FoldAllCovers
  <2> QED
    BY <1>3, <2>1
<1>5. ASSUME NEW k \in Keys(cat), NEW x, Covers(x, base[k]) PROVE Covers(x, cells[k])
  <2>1. IsCell(base[k]) /\ base[k].verdict # "attempted"
    BY <1>1 DEF IsMatrix
  <2>2. Covers(base[k], cells[k])
    BY <1>4
  <2> QED
    BY <1>5, <2>1, <2>2, CoversOn
<1>6. \A d \in Chosen(cat, me) : Seen(d)
  <2> SUFFICES ASSUME NEW d \in Chosen(cat, me) PROVE Seen(d)
    OBVIOUS
  <2>1. d.key \in Keys(cat) => Covers(d.cell, cells[d.key])
    BY <1>1, <1>5
  <2>2. d.cell.verdict = "attempted" => d.key \in reach
    BY <1>3 DEF Opening, Issued
  <2> QED
    BY <2>1, <2>2 DEF Seen
<1>7. \A d \in followed : Seen(d)
  BY <1>3, <1>4 DEF Seen, Issued
<1>8. \A k \in Keys(cat) : Covers(CellFor(cat, me, k[1], k[2]), cells[k])
  BY <1>1, <1>5
<1>9. Issuable(cat, me) \subseteq reach
  BY <1>3 DEF Opening
<1> QED
  BY <1>0, <1>3, <1>6, <1>7, <1>8, <1>9 DEF Settled, Untraced, followed

\* The functions that the engine lists are the catalogue's.
LEMMA UntracedAre ==
    ASSUME IsCatalogue(cat)
    PROVE  Untraced \subseteq DOMAIN cat.fns
  BY FiringAre DEF Untraced, Opaque, Callable, Uncallable

\* At the start.
LEMMA InitInv == Init => Inv
<1> SUFFICES ASSUME Init PROVE Inv
  OBVIOUS
<1>1. cat \in Catalogues /\ me \in Principals /\ phase = "analysis" /\ exec = Idle /\ cells = base
      /\ base = Base(cat, me) /\ Opening
      /\ untraced = Opaque(cat, Callable(cat, me)) \cup Uncallable(cat, me)
  BY DEF Init, Opening
<1>2. IsCatalogue(cat) /\ me \in Users
  BY <1>1, EngineTypes
<1>3. IsMatrix(cells)
  BY <1>1, <1>2, BaseIs
<1>4. untraced \subseteq DOMAIN cat.fns
  BY <1>1 DEF Opaque, Callable, Uncallable
<1> QED
  BY <1>1, <1>3, <1>4 DEF Inv, Engine

\* A round keeps the engine in order.
LEMMA RoundStep ==
    ASSUME Inv, Round
    PROVE  Inv'
<1> DEFINE doors == Followed(cat, cells, reach)
           new == FoldAll(cat, base, doors, me)
           more == issuable \cup Issued(doors)
<1>0. /\ cat \in Catalogues /\ me \in Principals /\ base = Base(cat, me) /\ Opening /\ IsMatrix(cells)
      /\ IsCatalogue(cat) /\ me \in Users /\ phase = "analysis" /\ exec = Idle
  BY EngineTypes DEF Inv, Engine, Round
<1>1. /\ cat' = cat /\ me' = me /\ base' = base /\ issuable' = issuable /\ exec' = exec
      /\ untraced' = Untraced /\ Turn(doors)
  BY DEF Round, Untraced
<1>2. \/ new = cells /\ more = reach /\ phase' = "session" /\ cells' = cells /\ reach' = reach
      \/ phase' = phase /\ cells' = new
  BY <1>1 DEF Turn
<1>3. IsMatrix(new)
  <2>1. IsMatrix(base)
    BY <1>0, BaseIs
  <2>2. \A d \in doors : IsDoor(d)
    BY <1>0, FollowedDoors
  <2> HIDE DEF doors
  <2> QED
    BY <1>0, <2>1, <2>2, FoldAllCovers
<1>4. IsMatrix(cells)'
  BY <1>0, <1>1, <1>2, <1>3 DEF IsMatrix, Keys, Tables
<1>5. (untraced \subseteq DOMAIN cat.fns)'
  BY <1>0, <1>1, UntracedAre
<1>6. (base = Base(cat, me) /\ Opening)'
  BY <1>0, <1>1 DEF Opening
<1>7. phase' = "session" => (/\ cells = FoldAll(cat, base, Followed(cat, cells, reach), me)
                             /\ reach = issuable \cup Issued(Followed(cat, cells, reach))
                             /\ untraced = Untraced)'
  BY <1>0, <1>1, <1>2 DEF Untraced
<1>8. phase' \in {"analysis", "session"}
  BY <1>0, <1>2
<1> QED
  BY <1>0, <1>1, <1>4, <1>5, <1>6, <1>7, <1>8 DEF Inv, Engine

\* A statement that the matrix answers for is one in the next state.
LEMMA Stays ==
    ASSUME ExecOK(exec'), UNCHANGED <<cat, me, phase, base, issuable, cells, reach, untraced>>
    PROVE  ExecOK(exec)'
<1>0. cat' = cat /\ me' = me /\ cells' = cells /\ reach' = reach /\ untraced' = untraced
  OBVIOUS
<1>1. \A cell : CellRows(cell)' = CellRows(cell)
  BY <1>0 DEF CellRows, Readers
<1>2. \A who, s, t, cmd, sets : Answer(who, s, t, cmd, sets) => Answer(who, s, t, cmd, sets)'
  BY <1>0, <1>1 DEF Answer
<1>3. \A v, cmd : WideBelow(v, cmd) => WideBelow(v, cmd)'
  BY <1>0 DEF WideBelow, Tables
<1>4. \A r, s, v, cmd, sets : WalkSeen(r, s, v, cmd, sets) => WalkSeen(r, s, v, cmd, sets)'
  BY <1>0, <1>2, <1>3 DEF WalkSeen
<1>5. IsStatement(exec') => IsStatement(exec)'
  BY <1>0 DEF IsStatement
<1>6. TableOK(exec') => TableOK(exec)'
  BY <1>0, <1>1 DEF TableOK
<1>7. ViewOK(exec') => ViewOK(exec)'
  BY <1>0, <1>3, <1>4 DEF ViewOK
<1>8. Told(exec.behind)' <=> Told(exec'.behind)
  BY <1>0 DEF Told
<1> QED
  BY <1>0, <1>5, <1>6, <1>7, <1>8 DEF ExecOK

\* A statement of a session.
LEMMA SessionStep ==
    ASSUME \A c \in Catalogues : Followable(c), Inv, Next, ~Round
    PROVE  /\ ExecOK(exec') /\ phase = "session"
           /\ UNCHANGED <<cat, me, phase, base, issuable, cells, reach, untraced>>
<1>1. phase = "session" /\ UNCHANGED <<cat, me, phase, base, issuable, cells, reach, untraced>>
  BY DEF Next, Issue, IssueTruncate, Call, OpenView, ReachChild, MoveRow, FireTrigger, ApplyRule,
         Cascade, Start, OnTable, To
<1>2. Settled
  BY <1>1, EngineSettles DEF Inv, Engine
<1>3. exec = Idle => exec.rel \notin Relations(cat)
  BY <1>2 DEF Idle, Settled, IsCatalogue
<1>4. ASSUME NEW rel \in Tables(cat) \cup Views(cat), NEW cmd \in Commands, Issue(rel, cmd)
      PROVE  ExecOK(exec')
  BY <1>2, <1>4, IssueStep
<1>5. ASSUME NEW ts \in SUBSET Tables(cat), IssueTruncate(ts) PROVE ExecOK(exec')
  BY <1>2, <1>5, IssueTruncateStep
<1>6. ASSUME NEW f \in DOMAIN cat.fns, Call(f) PROVE ExecOK(exec')
  BY <1>2, <1>6, CallStep
<1>7. ASSUME exec.rel \in Relations(cat) PROVE ExecOK(exec)
  BY <1>3, <1>7 DEF Inv
<1>8. ASSUME OpenView PROVE ExecOK(exec')
  <2>1. ExecOK(exec)
    BY <1>7, <1>8 DEF OpenView, Relations
  <2> QED
    BY <1>2, <1>8, <2>1, OpenMaterialized, OpenOrdinary
<1>9. ASSUME OnTable PROVE ExecOK(exec)
  BY <1>7, <1>9 DEF OnTable, Relations
<1>10. ASSUME NEW d \in Tables(cat), ReachChild(d) PROVE ExecOK(exec')
  BY <1>2, <1>9, <1>10, ReachChildStep DEF ReachChild
<1>11. ASSUME NEW d \in Tables(cat), NEW cmd \in Commands, MoveRow(d, cmd) PROVE ExecOK(exec')
  BY <1>2, <1>9, <1>11, MoveRowStep DEF MoveRow
<1>12. ASSUME NEW tr, FireTrigger(tr) PROVE ExecOK(exec')
  BY <1>2, <1>9, <1>12, FireTriggerStep DEF FireTrigger
<1>13. ASSUME NEW r \in cat.rules, ApplyRule(r) PROVE ExecOK(exec')
  <2>1. r.rel \in Relations(cat) /\ r.rel = exec.rel
    BY <1>2, <1>13 DEF Settled, IsCatalogue, ApplyRule
  <2>2. ExecOK(exec)
    BY <1>7, <2>1
  <2> QED
    BY <1>2, <1>13, <2>2, ApplyRuleStep
<1>14. ASSUME NEW x \in Tables(cat), NEW fk \in cat.tables[x].fks, Cascade(x, fk) PROVE ExecOK(exec')
  BY <1>2, <1>9, <1>14, CascadeStep DEF Cascade
<1> QED
  BY <1>1, <1>4, <1>5, <1>6, <1>8, <1>10, <1>11, <1>12, <1>13, <1>14 DEF Next

\* Every step keeps the invariant.
LEMMA NextInv ==
    ASSUME \A c \in Catalogues : Followable(c), Inv, [Next]_vars
    PROVE  Inv'
<1>1. CASE UNCHANGED vars
  <2>1. /\ exec' = exec /\ phase' = phase
        /\ UNCHANGED <<cat, me, phase, base, issuable, cells, reach, untraced>>
    BY <1>1 DEF vars
  <2>2. Engine'
    BY <2>1 DEF Inv, Engine, Opening, Untraced, IsMatrix
  <2>3. ExecOK(exec) => ExecOK(exec)'
    BY <2>1, Stays
  <2> QED
    BY <2>1, <2>2, <2>3 DEF Inv
<1>2. CASE Round
  BY <1>2, RoundStep
<1>3. CASE Next /\ ~Round
  <2>1. /\ ExecOK(exec') /\ phase = "session"
        /\ UNCHANGED <<cat, me, phase, base, issuable, cells, reach, untraced>>
    BY <1>3, SessionStep
  <2>2. ExecOK(exec)'
    BY <2>1, Stays
  <2>3. Engine'
    BY <2>1 DEF Inv, Engine, Opening, Untraced, IsMatrix
  <2> QED
    BY <2>1, <2>2, <2>3 DEF Inv
<1> QED
  BY <1>1, <1>2, <1>3

\* The invariant is enough.
LEMMA InvCovers == Inv => CellsCoverReach
<1> SUFFICES ASSUME Inv PROVE CellsCoverReach
  OBVIOUS
<1>1. /\ cat \in Catalogues /\ me \in Principals /\ phase \in {"analysis", "session"}
      /\ DOMAIN cells = Keys(cat) /\ untraced \subseteq DOMAIN cat.fns
      /\ IsCatalogue(cat)
  BY EngineTypes DEF Inv, Engine, IsMatrix
<1>2. CASE exec = Idle
  <2>1. exec.rows = {} /\ exec.rel = Unset
    BY <1>2 DEF Idle
  <2>2. exec.rel \notin Tables(cat)
    BY <1>1, <2>1 DEF IsCatalogue, Relations
  <2> QED
    BY <1>1, <2>1, <2>2 DEF CellsCoverReach, TypeOK
<1>3. CASE ExecOK(exec)
  <2>1. exec.rows \subseteq Rows
    BY <1>3 DEF ExecOK, IsStatement
  <2>2. ASSUME exec.rel \in Tables(cat), ~exec.moved, exec.chosen # "before", ~Told(exec.behind)
        PROVE  exec.rows \subseteq CellRows(cells[<<exec.rel, exec.cmd>>])
    BY <1>3, <2>2 DEF ExecOK, TableOK
  <2> QED
    BY <1>1, <2>1, <2>2 DEF CellsCoverReach, TypeOK
<1> QED
  BY <1>2, <1>3 DEF Inv

\* Whatever the catalogues, as long as the engine can follow them, and whoever
\* the principal: every row that a session touches is one its cell admits, or
\* the door it came through is listed as untraced.
THEOREM MatrixCoversReach ==
    ASSUME \A c \in Catalogues : Followable(c)
    PROVE  Spec => []CellsCoverReach
<1>1. Inv /\ [Next]_vars => Inv'
  BY NextInv
<1> QED
  BY <1>1, InitInv, InvCovers, PTL DEF Spec
===============================================================================
