------------------------------ MODULE LintProofs ------------------------------
(***************************************************************************)
(* What holds of `pgrls lint` for any database, configuration and DDL: the *)
(* three rules about tables without row security share the tables out      *)
(* (OneOwnerPerBypass), and the gate is as good as the rules: where they   *)
(* report every door, a run that passes leaves none unaccepted             *)
(* (NewDoorsFailTheGate).  Lint on a snapshot leaves no rule out that it   *)
(* does not name (NoSilentRule), and the tables that `pgrls generate`      *)
(* scaffolds lint clean and keep tenants apart (GeneratedLintsClean).      *)
(***************************************************************************)
EXTENDS Lint, FiniteSetTheorems, TLAPS

\* The tables a rule of tables fires at.
LEMMA FiresAt ==
    ASSUME NEW d, NEW t \in DOMAIN d.tables
    PROVE  /\ <<t>> \in SEC001(d) <=>
                  /\ ~d.tables[t].rls /\ d.tables[t].policies = <<>>
                  /\ ~AnyRls(d, AncestorsOf(d, t))
           /\ <<t>> \in SEC032(d) <=>
                  /\ ~d.tables[t].rls /\ d.tables[t].policies # <<>>
                  /\ ~AnyRls(d, AncestorsOf(d, t))
           /\ <<t>> \in SEC041(d) <=>
                  /\ ~d.tables[t].rls /\ IsDirectlyReachable(d.tables[t])
                  /\ AnyRls(d, AncestorsOf(d, t))
<1>1. \A x : <<x>> = <<t>> => x = t
  OBVIOUS
<1>2. \A S : <<t>> \in {<<x>> : x \in S} <=> t \in S
  BY <1>1
<1> QED
  BY <1>2 DEF SEC001, SEC032, SEC041, PerTable

\* In every database a table without row security is the finding of at most one
\* of SEC001, SEC032 and SEC041, and of one if its rows can be reached.
THEOREM BypassesHaveOneOwner == Spec => []OneOwnerPerBypass
<1>1. OneOwnerPerBypass
  <2> DEFINE owners(t) == {i \in 1..3 : <<t>> \in <<SEC001(db), SEC032(db), SEC041(db)>>[i]}
  <2> SUFFICES ASSUME NEW t \in DOMAIN db.tables, ~db.tables[t].rls
               PROVE  /\ Cardinality(owners(t)) <= 1
                      /\ IsDirectlyReachable(db.tables[t]) => owners(t) # {}
    BY DEF OneOwnerPerBypass
  <2>1. owners(t) = {i \in 1..3 : \/ i = 1 /\ <<t>> \in SEC001(db)
                                  \/ i = 2 /\ <<t>> \in SEC032(db)
                                  \/ i = 3 /\ <<t>> \in SEC041(db)}
    OBVIOUS
  <2> HIDE DEF owners
  <2>2. \A i, j \in owners(t) : i = j
    BY <2>1, FiresAt
  <2>3. IsDirectlyReachable(db.tables[t]) => owners(t) # {}
    <3>1. IsDirectlyReachable(db.tables[t]) =>
              <<t>> \in SEC001(db) \/ <<t>> \in SEC032(db) \/ <<t>> \in SEC041(db)
      BY FiresAt
    <3>2. 1 \in 1..3 /\ 2 \in 1..3 /\ 3 \in 1..3
      OBVIOUS
    <3> QED
      BY <2>1, <3>1, <3>2
  <2>4. CASE owners(t) = {}
    <3>1. Cardinality({}) = 0
      BY FS_EmptySet
    <3> QED
      BY <2>3, <2>4, <3>1
  <2>5. ASSUME NEW i, owners(t) = {i} PROVE Cardinality(owners(t)) <= 1
    <3>1. Cardinality({i}) = 1
      BY FS_Singleton
    <3> QED
      BY <2>5, <3>1
  <2>6. owners(t) = {} \/ \E i : owners(t) = {i}
    BY <2>2
  <2> QED
    BY <2>3, <2>4, <2>5, <2>6
<1> QED
  BY <1>1, PTL
-------------------------------------------------------------------------------
(* Schemas.                                                                *)

\* Changing a table keeps a schema one.
LEMMA TableChanged ==
    ASSUME NEW d, IsSchema(d), NEW t \in DOMAIN d.tables, NEW x, IsTable(x)
    PROVE  LET e == [d EXCEPT !.tables[t] = x] IN IsSchema(e) /\ DOMAIN e.tables = DOMAIN d.tables
<1> DEFINE e == [d EXCEPT !.tables[t] = x]
<1>1. IsNamed(d.tables, IsTable)
  BY DEF IsSchema
<1>2. e.tables = [d.tables EXCEPT ![t] = x] /\ DOMAIN e.tables = DOMAIN d.tables
  BY DEF IsSchema
<1>3. IsNamed([d.tables EXCEPT ![t] = x], IsTable)
  BY <1>1 DEF IsNamed
<1>4. IsNamed(e.tables, IsTable)
  BY <1>2, <1>3
<1>5. /\ e \in [tables : {e.tables}, views : {e.views}, fns : {e.fns},
               immutable : {e.immutable}, foreign : {e.foreign}, leakproof : SUBSET Names,
               bypass : SUBSET BypassRoles, escalations : SUBSET Escalations,
               reachers : SUBSET Reachers, defaults : SUBSET DefaultGrants]
      /\ e.views = d.views /\ e.fns = d.fns /\ e.immutable = d.immutable /\ e.foreign = d.foreign
  BY DEF IsSchema
<1> HIDE DEF e
<1>6. IsSchema(e)
  BY <1>2, <1>4, <1>5 DEF IsSchema
<1> QED
  BY <1>2, <1>6 DEF e

\* What DDL does to a table, a table has.
LEMMA TablesStay ==
    ASSUME NEW t, IsTable(t)
    PROVE  /\ \A on \in BOOLEAN : IsTable([t EXCEPT !.rls = on]) /\ IsTable([t EXCEPT !.force = on])
           /\ \A n \in Names : \A p : IsPolicy(p) => IsTable([t EXCEPT !.policies = Put(@, n, p)])
           /\ \A n : IsTable([t EXCEPT !.policies = Drop(@, n)])
           /\ \A n \in DOMAIN t.policies, rs \in SUBSET Names :
                 IsTable([t EXCEPT !.policies[n].roles = rs])
           /\ \A g \in TableGrants : IsTable([t EXCEPT !.grants = @ \cup {g}])
           /\ \A g \in TableGrants, c \in t.columns : g.priv # "DELETE" =>
                 IsTable([t EXCEPT !.colgrants = @ \cup {[role |-> g.role, priv |-> g.priv, column |-> c]}])
<1> DEFINE Rest(x) ==
        /\ x \in [schema : Names, rls : BOOLEAN, force : BOOLEAN, partitionOf : Names,
                  inherits : SUBSET Names, columns : SUBSET Names, nullable : SUBSET Names,
                  uuid : SUBSET Names, indexes : {x.indexes}, triggers : SUBSET TriggerSet,
                  fks : SUBSET ForeignKeys, pubs : SUBSET Names, grants : SUBSET TableGrants,
                  colgrants : SUBSET ColumnGrants, policies : {x.policies}]
        /\ x.partitionOf = "" \/ x.inherits = {}
        /\ x.nullable \cup x.uuid \cup {g.column : g \in x.colgrants} \subseteq x.columns
        /\ \A i \in x.indexes : IsIndex(i)
<1>1. \A x : IsTable(x) <=> Rest(x) /\ IsNamed(x.policies, IsPolicy)
  BY DEF IsTable
<1>2. Rest(t) /\ IsNamed(t.policies, IsPolicy)
  BY <1>1
<1>3. ASSUME NEW on \in BOOLEAN
      PROVE  IsTable([t EXCEPT !.rls = on]) /\ IsTable([t EXCEPT !.force = on])
  <2>1. /\ Rest([t EXCEPT !.rls = on]) /\ [t EXCEPT !.rls = on].policies = t.policies
        /\ Rest([t EXCEPT !.force = on]) /\ [t EXCEPT !.force = on].policies = t.policies
    BY <1>2
  <2> HIDE DEF Rest
  <2> QED
    BY <1>1, <1>2, <2>1
<1>4. ASSUME NEW ps, IsNamed(ps, IsPolicy) PROVE IsTable([t EXCEPT !.policies = ps])
  <2>1. Rest([t EXCEPT !.policies = ps]) /\ [t EXCEPT !.policies = ps].policies = ps
    BY <1>2
  <2> HIDE DEF Rest
  <2> QED
    BY <1>1, <1>4, <2>1
<1>5. ASSUME NEW n \in Names, NEW p, IsPolicy(p)
      PROVE  IsTable([t EXCEPT !.policies = Put(@, n, p)])
  <2>1. IsNamed(Put(t.policies, n, p), IsPolicy)
    BY <1>2, <1>5 DEF IsNamed, Put
  <2> QED
    BY <1>4, <2>1
<1>6. ASSUME NEW n PROVE IsTable([t EXCEPT !.policies = Drop(@, n)])
  <2>1. IsNamed(Drop(t.policies, n), IsPolicy)
    BY <1>2 DEF IsNamed, Drop
  <2> QED
    BY <1>4, <2>1
<1>7. ASSUME NEW n \in DOMAIN t.policies, NEW rs \in SUBSET Names
      PROVE  IsTable([t EXCEPT !.policies[n].roles = rs])
  <2>1. IsPolicy(t.policies[n])
    BY <1>2 DEF IsNamed
  <2>2. IsPolicy([t.policies[n] EXCEPT !.roles = rs])
    BY <2>1 DEF IsPolicy
  <2>3. IsNamed([t.policies EXCEPT ![n] = [t.policies[n] EXCEPT !.roles = rs]], IsPolicy)
    BY <1>2, <2>2 DEF IsNamed
  <2> QED
    BY <1>4, <2>3
<1>8. ASSUME NEW g \in TableGrants PROVE IsTable([t EXCEPT !.grants = @ \cup {g}])
  <2> DEFINE x == [t EXCEPT !.grants = @ \cup {g}]
  <2>1. Rest(x) /\ x.policies = t.policies
    BY <1>2
  <2> HIDE DEF Rest, x
  <2>2. IsTable(x)
    BY <1>1, <1>2, <2>1
  <2> QED
    BY <2>2 DEF x
<1>9. ASSUME NEW g \in TableGrants, NEW c \in t.columns, g.priv # "DELETE"
      PROVE  IsTable([t EXCEPT !.colgrants = @ \cup {[role |-> g.role, priv |-> g.priv, column |-> c]}])
  <2> DEFINE y == [role |-> g.role, priv |-> g.priv, column |-> c]
             x == [t EXCEPT !.colgrants = @ \cup {y}]
  <2>1. y \in ColumnGrants /\ y.column \in t.columns
    BY <1>2, <1>9 DEF TableGrants, ColumnGrants
  <2> HIDE DEF y
  <2>2. Rest(x) /\ x.policies = t.policies
    BY <1>2, <2>1
  <2> HIDE DEF Rest, x
  <2>3. IsTable(x)
    BY <1>1, <1>2, <2>2
  <2> QED
    BY <2>3 DEF x, y
<1> QED
  BY <1>3, <1>5, <1>6, <1>7, <1>8, <1>9

\* A new view reads what is there, and its name is no table's.
LEMMA ViewCreated ==
    ASSUME NEW d, IsSchema(d), NEW n \in Names, n \notin DOMAIN d.tables, NEW v, IsView(v),
           v.from \subseteq DOMAIN d.tables \cup DOMAIN d.views
    PROVE  LET e == [d EXCEPT !.views = Put(@, n, v)] IN IsSchema(e) /\ e.tables = d.tables
<1> DEFINE e == [d EXCEPT !.views = Put(@, n, v)]
           vs == Put(d.views, n, v)
<1>1. IsNamed(d.views, IsView)
  BY DEF IsSchema
<1>2. IsNamed(vs, IsView)
  BY <1>1 DEF IsNamed, Put
<1>3. DOMAIN vs = DOMAIN d.views \cup {n}
  BY DEF Put
<1>4. \A w \in DOMAIN vs : vs[w].from \subseteq DOMAIN d.tables \cup DOMAIN vs
  <2> SUFFICES ASSUME NEW w \in DOMAIN vs PROVE vs[w].from \subseteq DOMAIN d.tables \cup DOMAIN vs
    OBVIOUS
  <2>1. vs[w] = IF w = n THEN v ELSE d.views[w]
    BY <1>3 DEF Put
  <2>2. \A x \in DOMAIN d.views : d.views[x].from \subseteq DOMAIN d.tables \cup DOMAIN d.views
    BY DEF IsSchema
  <2> HIDE DEF vs
  <2> QED
    BY <1>3, <2>1, <2>2
<1> HIDE DEF vs
<1>5. /\ e \in [tables : {e.tables}, views : {e.views}, fns : {e.fns},
               immutable : {e.immutable}, foreign : {e.foreign}, leakproof : SUBSET Names,
               bypass : SUBSET BypassRoles, escalations : SUBSET Escalations,
               reachers : SUBSET Reachers, defaults : SUBSET DefaultGrants]
      /\ e.tables = d.tables /\ e.fns = d.fns /\ e.immutable = d.immutable /\ e.foreign = d.foreign
  BY DEF IsSchema
<1>6. e.views = vs
  BY DEF IsSchema, vs
<1> HIDE DEF e
<1>7. DOMAIN e.tables \cap DOMAIN e.views = {}
  BY <1>3, <1>5, <1>6 DEF IsSchema
<1>8. IsSchema(e)
  BY <1>2, <1>4, <1>5, <1>6, <1>7 DEF IsSchema
<1> QED
  BY <1>5, <1>8 DEF e

\* And a function.
LEMMA FunctionCreated ==
    ASSUME NEW d, IsSchema(d), NEW n \in Names, NEW f, IsSecdef(f)
    PROVE  LET e == [d EXCEPT !.fns = Put(@, n, f)] IN IsSchema(e) /\ e.tables = d.tables
<1> DEFINE e == [d EXCEPT !.fns = Put(@, n, f)]
           fs == Put(d.fns, n, f)
<1>1. IsNamed(d.fns, IsSecdef)
  BY DEF IsSchema
<1>2. IsNamed(fs, IsSecdef)
  BY <1>1 DEF IsNamed, Put
<1>3. e.fns = fs
  BY DEF IsSchema
<1> HIDE DEF fs
<1>4. /\ e \in [tables : {e.tables}, views : {e.views}, fns : {e.fns},
               immutable : {e.immutable}, foreign : {e.foreign}, leakproof : SUBSET Names,
               bypass : SUBSET BypassRoles, escalations : SUBSET Escalations,
               reachers : SUBSET Reachers, defaults : SUBSET DefaultGrants]
      /\ e.tables = d.tables /\ e.views = d.views /\ e.immutable = d.immutable /\ e.foreign = d.foreign
  BY DEF IsSchema
<1> HIDE DEF e
<1>5. IsSchema(e)
  BY <1>2, <1>3, <1>4 DEF IsSchema
<1> QED
  BY <1>4, <1>5 DEF e

\* The policies `generate` writes are policies.
LEMMA IsolationIsPolicy ==
    ASSUME NEW o \in Options, NEW permissive \in BOOLEAN
    PROVE  IsPolicy(Isolation(o, permissive))
<1>1. o.column \in Names
  BY LintAssumption
<1>2. SessionTerm(o) \in Names
  BY LintAssumption DEF SessionTerm
<1>3. Col(o.column) \in Operands /\ Select(SessionTerm(o)) \in Operands
  BY <1>1, <1>2 DEF Col, Select, Operand, Operands
<1>4. Eq(Col(o.column), Select(SessionTerm(o))) \in Atoms
  BY <1>3 DEF Eq, Atom, Atoms
<1>5. SessionPredicate(o) \in ClauseSet
  BY <1>4 DEF SessionPredicate, One, ClauseSet
<1>6. {"authenticated"} \in SUBSET Names
  BY LintAssumption
<1> QED
  BY <1>5, <1>6 DEF IsPolicy, Isolation

\* A scaffolded table is a table.
LEMMA GeneratedTable ==
    ASSUME NEW t, IsTable(t), NEW o \in Options, o.column \in t.columns
    PROVE  IsTable(StatementsForTable(t, o))
<1> DEFINE ps == [n \in {"isolation"} \cup (IF o.restrictive THEN {"floor"} ELSE {}) |->
                     Isolation(o, n = "isolation")]
           i == [name |-> o.column, columns |-> <<o.column>>, unique |-> FALSE, primary |-> FALSE]
           x == StatementsForTable(t, o)
<1>1. o.column \in Names
  BY LintAssumption
<1>2. IsIndex(i)
  BY <1>1 DEF IsIndex
<1>3. IsNamed(ps, IsPolicy)
  <2>1. \A n : (n = "isolation") \in BOOLEAN
    OBVIOUS
  <2>2. \A n \in DOMAIN ps : IsPolicy(ps[n])
    BY <2>1, IsolationIsPolicy
  <2>3. DOMAIN ps \subseteq Names
    BY LintAssumption
  <2> QED
    BY <2>2, <2>3 DEF IsNamed
<1> HIDE DEF ps, i
<1>4. x = [t EXCEPT !.rls = TRUE, !.force = TRUE, !.policies = ps, !.indexes = @ \cup {i}]
  BY DEF StatementsForTable, ps, i
<1>5. x.indexes = t.indexes \cup {i} /\ x.policies = ps
  BY <1>4 DEF IsTable
<1> HIDE DEF x
<1>6. /\ x \in [schema : Names, rls : BOOLEAN, force : BOOLEAN, partitionOf : Names,
               inherits : SUBSET Names, columns : SUBSET Names, nullable : SUBSET Names,
               uuid : SUBSET Names, indexes : {x.indexes}, triggers : SUBSET TriggerSet,
               fks : SUBSET ForeignKeys, pubs : SUBSET Names, grants : SUBSET TableGrants,
               colgrants : SUBSET ColumnGrants, policies : {x.policies}]
      /\ x.partitionOf = t.partitionOf /\ x.inherits = t.inherits /\ x.nullable = t.nullable
      /\ x.uuid = t.uuid /\ x.colgrants = t.colgrants /\ x.columns = t.columns
  BY <1>4, <1>5 DEF IsTable
<1>7. \A k \in x.indexes : IsIndex(k)
  BY <1>2, <1>5 DEF IsTable
<1>8. IsTable(x)
  BY <1>3, <1>5, <1>6, <1>7 DEF IsTable
<1> QED
  BY <1>8 DEF x

\* A schema some of whose tables are scaffolded is a schema.
LEMMA GeneratedSchema ==
    ASSUME NEW d, IsSchema(d), NEW o \in Options
    PROVE  LET e == [d EXCEPT !.tables = [t \in DOMAIN d.tables |->
                        IF t \in Targets(d, o) THEN StatementsForTable(d.tables[t], o) ELSE d.tables[t]]]
           IN IsSchema(e) /\ DOMAIN e.tables = DOMAIN d.tables
<1> DEFINE ts == [t \in DOMAIN d.tables |->
                     IF t \in Targets(d, o) THEN StatementsForTable(d.tables[t], o) ELSE d.tables[t]]
           e == [d EXCEPT !.tables = ts]
<1>1. IsNamed(d.tables, IsTable)
  BY DEF IsSchema
<1>2. ASSUME NEW t \in DOMAIN d.tables PROVE IsTable(ts[t])
  <2>1. IsTable(d.tables[t])
    BY <1>1 DEF IsNamed
  <2>2. t \in Targets(d, o) => o.column \in d.tables[t].columns
    BY DEF Targets
  <2>3. t \in Targets(d, o) => IsTable(StatementsForTable(d.tables[t], o))
    BY <2>1, <2>2, GeneratedTable
  <2> QED
    BY <2>1, <2>3
<1>3. DOMAIN ts = DOMAIN d.tables /\ ts = [t \in DOMAIN ts |-> ts[t]]
  OBVIOUS
<1> HIDE DEF ts
<1>4. IsNamed(ts, IsTable)
  BY <1>1, <1>2, <1>3 DEF IsNamed
<1>5. /\ e \in [tables : {e.tables}, views : {e.views}, fns : {e.fns},
               immutable : {e.immutable}, foreign : {e.foreign}, leakproof : SUBSET Names,
               bypass : SUBSET BypassRoles, escalations : SUBSET Escalations,
               reachers : SUBSET Reachers, defaults : SUBSET DefaultGrants]
      /\ e.tables = ts
      /\ e.views = d.views /\ e.fns = d.fns /\ e.immutable = d.immutable /\ e.foreign = d.foreign
  BY DEF IsSchema
<1> HIDE DEF e
<1>6. IsSchema(e)
  BY <1>3, <1>4, <1>5 DEF IsSchema
<1> QED
  BY <1>3, <1>5, <1>6 DEF e, ts

\* What a configuration has, whatever its allowlists name.
LEMMA ConfigWithAllowlists ==
    ASSUME NEW c, IsConfig(c), NEW allow
    PROVE  LET u == [c EXCEPT !.allow = allow] IN
           /\ IsConfig(u) /\ u.allow = allow
           /\ u.only = c.only /\ u.disable = c.disable /\ u.exclude = c.exclude
           /\ u.override = c.override /\ u.trusted = c.trusted /\ u.coverage = c.coverage
           /\ u.pressure = c.pressure /\ u.failOn = c.failOn
BY DEF IsConfig

\* The scope of TypeOK: what a database has to be to stay one.
SchemaOK(d) == /\ IsSchema(d) /\ DdlTables \subseteq DOMAIN d.tables
               /\ DOMAIN d.tables \subseteq DOMAIN Rows

\* Every DDL statement leaves a schema.
LEMMA DdlKeeps ==
    ASSUME SchemaOK(db), NEW t \in DdlTables, NEW x, IsTable(x), Edited([db EXCEPT !.tables[t] = x])
    PROVE  SchemaOK(db') /\ UNCHANGED <<config, baseline>> /\ last' = Idle /\ steps > 0 /\ edits > 0
           /\ steps' = steps - 1 /\ edits' = edits - 1
<1>1. t \in DOMAIN db.tables
  BY DEF SchemaOK
<1>2. db' = [db EXCEPT !.tables[t] = x]
  BY DEF Edited
<1>3. IsSchema(db') /\ DOMAIN db'.tables = DOMAIN db.tables
  BY <1>1, <1>2, TableChanged DEF SchemaOK
<1> QED
  BY <1>3 DEF SchemaOK, Edited

\* Whatever DDL and `generate` do, what lint reads is a schema: parents, columns,
\* policies and views stay as IsSchema says, the tables stay, and nothing is
\* recorded without a baseline file.
THEOREM SchemasStaySchemas == Spec => []TypeOK
<1>1. Init => TypeOK
  BY LintAssumption DEF Init, TypeOK, Idle
<1>2. ASSUME TypeOK, [Next]_vars PROVE TypeOK'
  <2>0. SchemaOK(db)
    BY <1>2 DEF TypeOK, SchemaOK
  <2>a. ASSUME SchemaOK(db'), UNCHANGED <<config, baseline>>, last' = Idle, steps > 0, edits > 0,
               steps' = steps - 1, edits' = edits - 1
        PROVE  TypeOK'
    BY <1>2, <2>a DEF TypeOK, SchemaOK, Idle
  <2>t. ASSUME NEW t \in DdlTables PROVE t \in DOMAIN db.tables /\ IsTable(db.tables[t])
    BY <2>0 DEF SchemaOK, IsSchema, IsNamed
  <2>b. ASSUME NEW t \in DdlTables, NEW x, IsTable(x), Edited([db EXCEPT !.tables[t] = x])
        PROVE  TypeOK'
    BY <2>a, <2>b, <2>0, DdlKeeps
  <2>1. ASSUME NEW t \in DdlTables, NEW on \in BOOLEAN, SetRls(t, on) \/ SetForce(t, on)
        PROVE  TypeOK'
    <3> DEFINE y == [db.tables[t] EXCEPT !.rls = on]
               z == [db.tables[t] EXCEPT !.force = on]
    <3>1. IsTable(y) /\ IsTable(z)
      BY <2>t, TablesStay
    <3>2. /\ [db EXCEPT !.tables[t].rls = on] = [db EXCEPT !.tables[t] = y]
          /\ [db EXCEPT !.tables[t].force = on] = [db EXCEPT !.tables[t] = z]
      OBVIOUS
    <3>3. Edited([db EXCEPT !.tables[t] = y]) \/ Edited([db EXCEPT !.tables[t] = z])
      BY <2>1, <3>2 DEF SetRls, SetForce
    <3> HIDE DEF y, z
    <3> QED
      BY <2>b, <3>1, <3>3
  <2>2. ASSUME NEW t \in DdlTables, NEW n \in DOMAIN Policies, NEW p \in Policies[n], CreatePolicy(t, n, p)
        PROVE  TypeOK'
    <3> DEFINE y == [db.tables[t] EXCEPT !.policies = Put(@, n, p)]
    <3>1. n \in Names /\ IsPolicy(p)
      BY LintAssumption DEF IsNamed
    <3>2. IsTable(y)
      BY <2>t, <3>1, TablesStay
    <3>3. [db EXCEPT !.tables[t].policies = Put(@, n, p)] = [db EXCEPT !.tables[t] = y]
      OBVIOUS
    <3>4. Edited([db EXCEPT !.tables[t] = y])
      BY <2>2, <3>3 DEF CreatePolicy
    <3> HIDE DEF y
    <3> QED
      BY <2>b, <3>2, <3>4
  <2>3. ASSUME NEW t \in DdlTables, NEW n \in DOMAIN db.tables[t].policies, DropPolicy(t, n)
        PROVE  TypeOK'
    <3> DEFINE y == [db.tables[t] EXCEPT !.policies = Drop(@, n)]
    <3>1. IsTable(y)
      BY <2>t, TablesStay
    <3>2. [db EXCEPT !.tables[t].policies = Drop(@, n)] = [db EXCEPT !.tables[t] = y]
      OBVIOUS
    <3>3. Edited([db EXCEPT !.tables[t] = y])
      BY <2>3, <3>2 DEF DropPolicy
    <3> HIDE DEF y
    <3> QED
      BY <2>b, <3>1, <3>3
  <2>4. ASSUME NEW t \in DdlTables, NEW n \in DOMAIN db.tables[t].policies, NEW rs \in RoleSets,
               AlterPolicyRoles(t, n, rs)
        PROVE  TypeOK'
    <3> DEFINE y == [db.tables[t] EXCEPT !.policies[n].roles = rs]
    <3>1. rs \in SUBSET Names
      BY LintAssumption
    <3>2. IsTable(y)
      BY <2>t, <3>1, TablesStay
    <3>3. [db EXCEPT !.tables[t].policies[n].roles = rs] = [db EXCEPT !.tables[t] = y]
      OBVIOUS
    <3>4. Edited([db EXCEPT !.tables[t] = y])
      BY <2>4, <3>3 DEF AlterPolicyRoles
    <3> HIDE DEF y
    <3> QED
      BY <2>b, <3>2, <3>4
  <2>5. ASSUME NEW t \in DdlTables, NEW g \in Grants, Grant(t, g) PROVE TypeOK'
    <3> DEFINE y == [db.tables[t] EXCEPT !.grants = @ \cup {g}]
    <3>1. g \in TableGrants
      BY LintAssumption
    <3>2. IsTable(y)
      BY <2>t, <3>1, TablesStay
    <3>3. [db EXCEPT !.tables[t].grants = @ \cup {g}] = [db EXCEPT !.tables[t] = y]
      OBVIOUS
    <3>4. Edited([db EXCEPT !.tables[t] = y])
      BY <2>5, <3>3 DEF Grant
    <3> HIDE DEF y
    <3> QED
      BY <2>b, <3>2, <3>4
  <2>6. ASSUME NEW t \in DdlTables, NEW g \in Grants, NEW c \in db.tables[t].columns, GrantColumn(t, g, c)
        PROVE  TypeOK'
    <3> DEFINE h == [role |-> g.role, priv |-> g.priv, column |-> c]
               y == [db.tables[t] EXCEPT !.colgrants = @ \cup {h}]
    <3>1. g \in TableGrants
      BY LintAssumption
    <3>2. IsTable(y)
      BY <2>t, <2>6, <3>1, TablesStay DEF GrantColumn
    <3> HIDE DEF h
    <3>3. [db EXCEPT !.tables[t].colgrants = @ \cup {h}] = [db EXCEPT !.tables[t] = y]
      OBVIOUS
    <3>4. Edited([db EXCEPT !.tables[t] = y])
      BY <2>6, <3>3 DEF GrantColumn, h
    <3> HIDE DEF y
    <3> QED
      BY <2>b, <3>2, <3>4
  <2>7. ASSUME NEW n \in DOMAIN Views, NEW v \in Views[n], CreateView(n, v) PROVE TypeOK'
    <3>1. n \in Names /\ IsView(v) /\ n \notin DOMAIN Rows
      BY LintAssumption DEF IsNamed
    <3>2. db' = [db EXCEPT !.views = Put(@, n, v)]
      BY <2>7 DEF CreateView, Edited
    <3>3. n \notin DOMAIN db.tables
      BY <2>0, <3>1 DEF SchemaOK
    <3>4. IsSchema(db') /\ db'.tables = db.tables
      BY <2>0, <2>7, <3>1, <3>2, <3>3, ViewCreated DEF SchemaOK, CreateView
    <3> QED
      BY <2>0, <2>a, <2>7, <3>4 DEF SchemaOK, CreateView, Edited
  <2>8. ASSUME NEW n \in DOMAIN Fns, CreateFunction(n, Fns[n]) PROVE TypeOK'
    <3>1. n \in Names /\ IsSecdef(Fns[n])
      BY LintAssumption DEF IsNamed
    <3>2. db' = [db EXCEPT !.fns = Put(@, n, Fns[n])]
      BY <2>8 DEF CreateFunction, Edited
    <3>3. IsSchema(db') /\ db'.tables = db.tables
      BY <2>0, <3>1, <3>2, FunctionCreated DEF SchemaOK
    <3> QED
      BY <2>0, <2>a, <2>8, <3>3 DEF SchemaOK, CreateFunction, Edited
  <2>9. CASE LintRun
    <3>1. PICK found \in {RunRules(db, config)} :
              LET fresh == IF baseline.file THEN {f \in found : ~Recorded(f, baseline.keys)} ELSE {} IN
              /\ last' = [op |-> IF ShouldFail(fresh, config) THEN "fail" ELSE "pass", tables |-> {}]
              /\ baseline' = IF baseline.file THEN baseline
                             ELSE [file |-> TRUE, keys |-> {Key(f) : f \in found}]
      BY <2>9 DEF LintRun, WriteBaseline
    <3>2. UNCHANGED <<db, config, edits>> /\ steps > 0 /\ steps' = steps - 1
      BY <2>9 DEF LintRun, Ran
    <3>3. last'.op \in {"pass", "fail"}
      BY <3>1
    <3>4. CASE baseline.file
      BY <1>2, <3>1, <3>2, <3>3, <3>4 DEF TypeOK
    <3>5. CASE ~baseline.file
      <4>1. baseline' = [file |-> TRUE, keys |-> {Key(f) : f \in found}]
        BY <3>1, <3>5
      <4>2. baseline'.file = TRUE /\ baseline' \in [file : BOOLEAN, keys : {baseline'.keys}]
        BY <4>1
      <4> QED
        BY <1>2, <3>2, <3>3, <4>2 DEF TypeOK
    <3> QED
      BY <1>2, <3>4, <3>5 DEF TypeOK
  <2>10. CASE UpdateBaseline
    <3>1. /\ UNCHANGED <<db, config, edits>> /\ steps > 0 /\ steps' = steps - 1
          /\ last' = Idle /\ \E keys : baseline' = [file |-> TRUE, keys |-> keys]
      BY <2>10 DEF UpdateBaseline, Ran, WriteBaseline
    <3> QED
      BY <1>2, <3>1 DEF TypeOK, Idle
  <2>11. ASSUME NEW v \in config.versions, LintSnapshot(v) PROVE TypeOK'
    <3>1. /\ UNCHANGED <<db, config, baseline, edits>> /\ steps > 0 /\ steps' = steps - 1
          /\ last'.op = "snapshot"
      BY <2>11 DEF LintSnapshot, Ran
    <3> QED
      BY <1>2, <3>1 DEF TypeOK
  <2>12. ASSUME NEW f, Allow(f) PROVE TypeOK'
    <3>1. IsConfig(config')
      BY <1>2, <2>12, ConfigWithAllowlists DEF Allow, TypeOK
    <3>2. /\ UNCHANGED <<db, baseline, edits>> /\ steps > 0 /\ steps' = steps - 1 /\ last' = Idle
      BY <2>12 DEF Allow, Ran
    <3> QED
      BY <1>2, <3>1, <3>2 DEF TypeOK, Idle
  <2>13. ASSUME NEW o \in Options, Generate(o) PROVE TypeOK'
    <3>1. IsSchema(db') /\ DOMAIN db'.tables = DOMAIN db.tables
      BY <2>0, <2>13, GeneratedSchema DEF SchemaOK, Generate
    <3>2. /\ UNCHANGED <<config, baseline, edits>> /\ steps > 0 /\ steps' = steps - 1
          /\ last' = [op |-> "generated", tables |-> Targets(db, o), option |-> o]
      BY <2>13 DEF Generate, Ran
    <3>3. Targets(db, o) \subseteq DOMAIN db.tables
      BY DEF Targets
    <3> QED
      BY <1>2, <3>1, <3>2, <3>3 DEF TypeOK
  <2>14. CASE UNCHANGED vars
    BY <1>2, <2>14 DEF TypeOK, vars
  <2> QED
    BY <1>2, <2>1, <2>2, <2>3, <2>4, <2>5, <2>6, <2>7, <2>8, <2>9, <2>10, <2>11, <2>12, <2>13, <2>14
    DEF Next
<1> QED
  BY <1>1, <1>2, PTL DEF Spec
-------------------------------------------------------------------------------
(* The gate.                                                                *)

\* A configuration whose gate minds findings above "info" (the default).
Gating(c) == IsConfig(c) /\ c.failOn \in {"warning", "info"}
FindingAt(d, c, r, at) ==
    [rule |-> r, at |-> at,
     severity |-> IF r \in DOMAIN c.override THEN c.override[r] ELSE SeverityOf(d, r, at)]

\* A finding is a location of a selected rule that no allowlist names.
LEMMA RunRulesAre ==
    ASSUME NEW d, NEW c, NEW f
    PROVE  f \in RunRules(d, c) <=>
               \E r \in Selected(c, DOMAIN Registry(d, c)) : \E at \in Registry(d, c)[r] :
                   ~Allowed(c, r, at) /\ f = FindingAt(d, c, r, at)
<1> DEFINE Of(hits, r) == {FindingAt(d, c, r, l) : l \in {x \in hits[r] : ~Allowed(c, r, x)}}
<1>1. RunRules(d, c) =
          UNION {UNION {Of(hits, r) : r \in Selected(c, DOMAIN hits)} : hits \in {Registry(d, c)}}
  BY DEF RunRules, FindingAt
<1>2. RunRules(d, c) = UNION {Of(Registry(d, c), r) : r \in Selected(c, DOMAIN Registry(d, c))}
  BY <1>1
<1> QED
  BY <1>2

\* Rules name three severities.
LEMMA SeverityIs ==
    ASSUME NEW d, NEW r, NEW at
    PROVE  SeverityOf(d, r, at) \in Severities
BY DEF SeverityOf, SEC004Severity, Severities

\* Allowlists change what is reported, not what rules find.
LEMMA AllowlistOnly ==
    ASSUME NEW d, NEW c, Gating(c), NEW allow
    PROVE  LET u == [c EXCEPT !.allow = allow] IN
           /\ Registry(d, u) = Registry(d, c)
           /\ \A rules : Selected(u, rules) = Selected(c, rules)
           /\ \A r, at : FindingAt(d, u, r, at) = FindingAt(d, c, r, at)
           /\ u.allow = allow /\ Gating(u)
<1> DEFINE u == [c EXCEPT !.allow = allow]
<1>1. /\ u.only = c.only /\ u.disable = c.disable /\ u.exclude = c.exclude
      /\ u.override = c.override /\ u.trusted = c.trusted /\ u.coverage = c.coverage
      /\ u.pressure = c.pressure /\ u.failOn = c.failOn /\ u.allow = allow /\ IsConfig(u)
  BY ConfigWithAllowlists DEF Gating
<1> HIDE DEF u
<1>2. Registry(d, u) = Registry(d, c)
  BY <1>1 DEF Registry
<1>3. \A rules : Selected(u, rules) = Selected(c, rules)
  BY <1>1 DEF Selected
<1>4. \A r, at : FindingAt(d, u, r, at) = FindingAt(d, c, r, at)
  BY <1>1 DEF FindingAt
<1>5. Gating(u)
  BY <1>1 DEF Gating
<1> QED
  BY <1>1, <1>2, <1>3, <1>4, <1>5 DEF u

\* A run that passes has failed on nothing it has not recorded: every finding
\* above "info" has an entry.
LEMMA PassedRun ==
    ASSUME Gating(config), LintRun, last'.op = "pass",
           NEW f \in RunRules(db, Unlisted), f.severity # "info"
    PROVE  Key(f) \in baseline'.keys \/ Entry(f.rule, f.at) \in config.allow
<1>1. PICK found \in {RunRules(db, config)} :
          LET fresh == IF baseline.file THEN {g \in found : ~Recorded(g, baseline.keys)} ELSE {} IN
          /\ last' = [op |-> IF ShouldFail(fresh, config) THEN "fail" ELSE "pass", tables |-> {}]
          /\ baseline' = IF baseline.file THEN baseline
                         ELSE [file |-> TRUE, keys |-> {Key(g) : g \in found}]
  BY DEF LintRun, WriteBaseline
<1>2. PICK r \in Selected(Unlisted, DOMAIN Registry(db, Unlisted)) :
          \E at \in Registry(db, Unlisted)[r] : f = FindingAt(db, Unlisted, r, at)
  BY RunRulesAre
<1>3. PICK at \in Registry(db, Unlisted)[r] : f = FindingAt(db, Unlisted, r, at)
  BY <1>2
<1>4. /\ r \in Selected(config, DOMAIN Registry(db, config)) /\ at \in Registry(db, config)[r]
      /\ f = FindingAt(db, config, r, at)
  BY <1>2, <1>3, AllowlistOnly DEF Unlisted
<1>5. f.rule = r /\ f.at = at
  BY <1>4 DEF FindingAt
<1>6. CASE Allowed(config, r, at)
  BY <1>5, <1>6 DEF Allowed
<1>7. CASE ~Allowed(config, r, at)
  <2>1. f \in found
    BY <1>1, <1>4, <1>7, RunRulesAre
  <2>2. CASE ~baseline.file
    BY <1>1, <2>1, <2>2
  <2>3. CASE baseline.file
    <3>1. ~ShouldFail({g \in found : ~Recorded(g, baseline.keys)}, config)
      BY <1>1, <2>3
    <3>2. f.severity \in Severities
      <4>1. \A x \in DOMAIN config.override : config.override[x] \in Severities
        BY DEF Gating, IsConfig, IsNamed
      <4> QED
        BY <1>4, <4>1, SeverityIs DEF FindingAt
    <3>3. IsAtOrAbove(f.severity, config.failOn)
      BY <3>2 DEF IsAtOrAbove, Severities, Gating
    <3>4. Recorded(f, baseline.keys)
      BY <2>1, <3>1, <3>3 DEF ShouldFail
    <3> QED
      BY <1>1, <2>3, <3>4 DEF Recorded
  <2> QED
    BY <2>2, <2>3
<1> QED
  BY <1>6, <1>7

\* Only a run of lint passes, and nothing it passed changes after it.
LEMMA PassesByLint ==
    ASSUME [Next]_vars, last'.op = "pass"
    PROVE  LintRun \/ UNCHANGED vars
<1>1. ASSUME NEW d, Edited(d) PROVE FALSE
  BY <1>1 DEF Edited, Idle
<1>2. ASSUME NEW v, LintSnapshot(v) PROVE last'.op = "snapshot"
  BY <1>2 DEF LintSnapshot
<1>3. ASSUME NEW o, Generate(o) PROVE last'.op = "generated"
  BY <1>3 DEF Generate
<1>4. ~UpdateBaseline /\ \A f : ~Allow(f)
  BY DEF UpdateBaseline, Allow, Idle
<1> QED
  BY <1>1, <1>2, <1>3, <1>4 DEF Next, SetRls, SetForce, CreatePolicy, AlterPolicyRoles, DropPolicy, Grant,
                    GrantColumn, CreateView, CreateFunction

\* The gate minds what it minded at the start.
LEMMA StaysGating ==
    ASSUME Gating(config), [Next]_vars
    PROVE  Gating(config')
<1>1. ASSUME NEW d, Edited(d) PROVE config' = config
  BY <1>1 DEF Edited
<1>2. ASSUME NEW f, Allow(f) PROVE Gating(config')
  BY <1>2, AllowlistOnly DEF Allow
<1>3. LintRun \/ UpdateBaseline \/ (\E v : LintSnapshot(v)) \/ (\E o : Generate(o))
      => config' = config
  BY DEF LintRun, UpdateBaseline, LintSnapshot, Generate
<1> QED
  BY <1>1, <1>2, <1>3 DEF vars, Next, SetRls, SetForce, CreatePolicy, AlterPolicyRoles, DropPolicy,
                          Grant, GrantColumn, CreateView, CreateFunction

\* The gate is as good as the rules.  As long as lint reports every door (what
\* DoorsReported says of the rules), a run that passes leaves no door open but
\* those whose finding is in the baseline or on an allowlist: baseline files,
\* allowlists, DDL between the runs, and selected rules let none through.
THEOREM GateIsAsGoodAsTheRules ==
    ASSUME \A s \in Starts : s.config.failOn \in {"warning", "info"}
    PROVE  Spec /\ []DoorsReported => []NewDoorsFailTheGate
<1> DEFINE I == Gating(config) /\ NewDoorsFailTheGate
<1>1. Init => I
  BY LintAssumption DEF Init, NewDoorsFailTheGate, Idle, Gating
<1>2. ASSUME I, DoorsReported, DoorsReported', [Next]_vars PROVE I'
  <2>1. Gating(config')
    BY <1>2, StaysGating
  <2>2. CASE last'.op # "pass"
    BY <2>1, <2>2 DEF NewDoorsFailTheGate
  <2>3. CASE last'.op = "pass" /\ UNCHANGED vars
    BY <1>2, <2>1, <2>3 DEF NewDoorsFailTheGate, vars, Unlisted
  <2>4. CASE last'.op = "pass" /\ LintRun
    <3>1. UNCHANGED <<db, config>> /\ Unlisted' = Unlisted
      BY <2>4 DEF LintRun, Unlisted
    <3>2. \A x \in Doors(db) :
              \/ Blind(db, x)
              \/ \E f \in RunRules(db, Unlisted) : Reports(db, f, x) /\ f.severity # "info"
      BY <1>2 DEF DoorsReported
    <3>3. \A x \in Doors(db) :
              \/ Blind(db, x)
              \/ \E f \in RunRules(db, Unlisted) :
                     /\ Reports(db, f, x)
                     /\ Key(f) \in baseline'.keys \/ Entry(f.rule, f.at) \in config.allow
      BY <1>2, <2>4, <3>2, PassedRun
    <3>4. NewDoorsFailTheGate'
      BY <3>1, <3>3 DEF NewDoorsFailTheGate
    <3> QED
      BY <2>1, <3>4
  <2> QED
    BY <1>2, <2>2, <2>3, <2>4, PassesByLint
<1> QED
  BY <1>1, <1>2, PTL DEF Spec
-------------------------------------------------------------------------------
(* Snapshots.                                                              *)

\* The indexes of a snapshot that tells (x) which of them is the primary key's.
Indexes(I, x) == {[i EXCEPT !.primary = x /\ @] : i \in I}
LeadsWith(I, c) == \E i \in I : i.columns # <<>> /\ Head(i.columns) = c

\* An index keeps its columns.
LEMMA LeadingIndexes ==
    ASSUME NEW I, \A i \in I : IsIndex(i), NEW x \in BOOLEAN, NEW c
    PROVE  /\ LeadsWith(Indexes(I, x), c) <=> LeadsWith(I, c)
           /\ x => Indexes(I, x) = I
<1> DEFINE f(i) == [i EXCEPT !.primary = x /\ @]
           J == {f(i) : i \in I}
<1>0. J = Indexes(I, x)
  BY DEF Indexes
<1>1. \A i \in I : f(i).columns = i.columns /\ (x => f(i) = i)
  BY DEF IsIndex
<1> HIDE DEF f
<1>2. x => J = I
  BY <1>1
<1>3. LeadsWith(J, c) <=> \E i \in I : f(i).columns # <<>> /\ Head(f(i).columns) = c
  BY DEF LeadsWith
<1>4. LeadsWith(J, c) <=> LeadsWith(I, c)
  BY <1>1, <1>3 DEF LeadsWith
<1> QED
  BY <1>0, <1>2, <1>4

\* What every snapshot tells of a table, and what those of a version do.
Told(t, u) == /\ u.schema = t.schema /\ u.rls = t.rls /\ u.force = t.force
              /\ u.partitionOf = t.partitionOf /\ u.columns = t.columns
              /\ u.grants = t.grants /\ u.policies = t.policies
ToldSince(t, u, v) ==
    /\ v >= 5 => u.nullable = t.nullable /\ u.uuid = t.uuid
    /\ v >= 6 => u.triggers = t.triggers
    /\ v >= 7 => \A c : LeadsWith(u.indexes, c) <=> LeadsWith(t.indexes, c)
    /\ v >= 13 => u.indexes = t.indexes
    /\ v >= 15 => u.colgrants = t.colgrants
    /\ v >= 17 => u.inherits = t.inherits
    /\ v >= 20 => u.fks = t.fks
    /\ v >= 22 => u.pubs = t.pubs

\* What a snapshot of some version tells of a table.
LEMMA TablesTold ==
    ASSUME NEW t, IsTable(t), NEW v \in Versions
    PROVE  LET u == TableFromDict(t, v) IN Told(t, u) /\ ToldSince(t, u, v) /\ (v >= 24 => u = t)
<1> DEFINE u == TableFromDict(t, v)
           J == Indexes(t.indexes, v >= 13)
<1>1. v \in Nat /\ v >= 3
  BY DEF Versions
<1>2. t = [schema |-> t.schema, rls |-> t.rls, force |-> t.force, partitionOf |-> t.partitionOf,
           inherits |-> t.inherits, columns |-> t.columns, nullable |-> t.nullable, uuid |-> t.uuid,
           indexes |-> t.indexes, triggers |-> t.triggers, fks |-> t.fks, pubs |-> t.pubs,
           grants |-> t.grants, colgrants |-> t.colgrants, policies |-> t.policies]
  BY DEF IsTable
<1>3. \A i \in t.indexes : IsIndex(i)
  BY DEF IsTable
<1>4. (v >= 13) \in BOOLEAN
  OBVIOUS
<1>5. v >= 13 => J = t.indexes
  BY <1>3, <1>4, LeadingIndexes
<1>6. \A c : LeadsWith(J, c) <=> LeadsWith(t.indexes, c)
  BY <1>3, <1>4, LeadingIndexes
<1> HIDE DEF J
<1>7. u = [schema |-> t.schema, rls |-> t.rls, force |-> t.force, partitionOf |-> t.partitionOf,
           inherits |-> From(v, 17, t.inherits, {}), columns |-> t.columns,
           nullable |-> From(v, 5, t.nullable, {}), uuid |-> From(v, 5, t.uuid, {}),
           indexes |-> From(v, 7, J, {}), triggers |-> From(v, 6, t.triggers, {}),
           fks |-> From(v, 20, t.fks, {}), pubs |-> From(v, 22, t.pubs, {}),
           grants |-> t.grants, colgrants |-> From(v, 15, t.colgrants, {}),
           policies |-> t.policies]
  <2>1. u = [t EXCEPT
        !.nullable = From(v, 5, @, {}), !.uuid = From(v, 5, @, {}),
        !.triggers = From(v, 6, @, {}), !.indexes = From(v, 7, J, {}),
        !.colgrants = From(v, 15, @, {}),
        !.inherits = From(v, 17, @, {}), !.fks = From(v, 20, @, {}),
        !.pubs = From(v, 22, @, {})]
    BY DEF TableFromDict, TableSince, J, Indexes
  <2> HIDE DEF u
  <2> QED
    BY <1>2, <2>1
<1> HIDE DEF u
<1>8. Told(t, u)
  BY <1>7 DEF Told
<1>9. ToldSince(t, u, v)
  BY <1>1, <1>5, <1>6, <1>7 DEF ToldSince, From
<1>10. v >= 24 => u = t
  BY <1>1, <1>2, <1>5, <1>7 DEF From
<1> QED
  BY <1>8, <1>9, <1>10 DEF u

\* What a snapshot tells of a view and of a SECURITY DEFINER function.
ViewTold(w, x, v) ==
    /\ x.schema = w.schema /\ x.mat = w.mat /\ x.invoker = w.invoker /\ x.barrier = w.barrier
    /\ x.from = w.from /\ x.where = w.where /\ x.calls = w.calls
    /\ v >= 23 => x.grants = w.grants
FunctionTold(f, g, v) ==
    /\ g.language = f.language /\ g.reads = f.reads
    /\ v >= 8 => g.path = f.path
    /\ v >= 16 => g.bypass = f.bypass /\ g.execute = f.execute
\* e: d as a snapshot of version v tells it.
Tells(d, e, v) ==
    /\ DOMAIN e.tables = DOMAIN d.tables
    /\ \A t \in DOMAIN d.tables : Told(d.tables[t], e.tables[t]) /\ ToldSince(d.tables[t], e.tables[t], v)
    /\ DOMAIN e.views \subseteq DOMAIN d.views
    /\ v >= 4 => /\ DOMAIN e.views = DOMAIN d.views /\ DOMAIN e.fns = DOMAIN d.fns
                 /\ \A w \in DOMAIN d.views : ViewTold(d.views[w], e.views[w], v)
                 /\ \A f \in DOMAIN d.fns : FunctionTold(d.fns[f], e.fns[f], v)
    /\ v >= 9 => e.bypass = d.bypass
    /\ v >= 10 => e.leakproof = d.leakproof
    /\ v >= 11 => e.escalations = d.escalations
    /\ v >= 18 => e.defaults = d.defaults
    /\ v >= 19 => e.immutable = d.immutable
    /\ v >= 21 => e.reachers = d.reachers
    /\ v >= 24 => e.foreign = d.foreign

\* A snapshot read back, field by field.
LEMMA SnapshotFields ==
    ASSUME NEW d, IsSchema(d), NEW v \in Versions
    PROVE  LET e == FromSnapshot(d, v) IN
           /\ e.tables = [t \in DOMAIN d.tables |-> TableFromDict(d.tables[t], v)]
           /\ e.views = From(v, 4, [w \in DOMAIN d.views |-> ViewFromDict(d.views[w], v)], <<>>)
           /\ e.fns = From(v, 4, [f \in DOMAIN d.fns |-> SecdefFromDict(d.fns[f], v)], <<>>)
           /\ e.bypass = From(v, 9, d.bypass, {}) /\ e.leakproof = From(v, 10, d.leakproof, {})
           /\ e.escalations = From(v, 11, d.escalations, {}) /\ e.defaults = From(v, 18, d.defaults, {})
           /\ e.immutable = From(v, 19, d.immutable, <<>>) /\ e.reachers = From(v, 21, d.reachers, {})
           /\ e.foreign = From(v, 24, d.foreign, <<>>)
           /\ e = [tables |-> e.tables, views |-> e.views, fns |-> e.fns, immutable |-> e.immutable,
                   foreign |-> e.foreign, leakproof |-> e.leakproof, bypass |-> e.bypass,
                   escalations |-> e.escalations, reachers |-> e.reachers, defaults |-> e.defaults]
<1> DEFINE ts == [t \in DOMAIN d.tables |-> TableFromDict(d.tables[t], v)]
           vs == From(v, 4, [w \in DOMAIN d.views |-> ViewFromDict(d.views[w], v)], <<>>)
           fs == From(v, 4, [f \in DOMAIN d.fns |-> SecdefFromDict(d.fns[f], v)], <<>>)
           e == FromSnapshot(d, v)
<1>1. d = [tables |-> d.tables, views |-> d.views, fns |-> d.fns, immutable |-> d.immutable,
           foreign |-> d.foreign, leakproof |-> d.leakproof, bypass |-> d.bypass,
           escalations |-> d.escalations, reachers |-> d.reachers, defaults |-> d.defaults]
  BY DEF IsSchema
<1>2. e = [d EXCEPT !.tables = ts, !.views = vs, !.fns = fs,
        !.bypass = From(v, 9, @, {}), !.leakproof = From(v, 10, @, {}),
        !.escalations = From(v, 11, @, {}), !.defaults = From(v, 18, @, {}),
        !.immutable = From(v, 19, @, <<>>), !.reachers = From(v, 21, @, {}),
        !.foreign = From(v, 24, @, <<>>)]
  BY DEF FromSnapshot, ObjectSince
<1> HIDE DEF ts, vs, fs, e
<1>3. e = [tables |-> ts, views |-> vs, fns |-> fs, immutable |-> From(v, 19, d.immutable, <<>>),
           foreign |-> From(v, 24, d.foreign, <<>>), leakproof |-> From(v, 10, d.leakproof, {}),
           bypass |-> From(v, 9, d.bypass, {}), escalations |-> From(v, 11, d.escalations, {}),
           reachers |-> From(v, 21, d.reachers, {}), defaults |-> From(v, 18, d.defaults, {})]
  BY <1>1, <1>2
<1> QED
  BY <1>3 DEF ts, vs, fs, e

\* What a snapshot of some version tells of a view.
LEMMA ViewsTold ==
    ASSUME NEW w, IsView(w), NEW v \in Versions
    PROVE  ViewTold(w, ViewFromDict(w, v), v) /\ (v >= 24 => ViewFromDict(w, v) = w)
BY DEF IsView, ViewTold, ViewFromDict, From, ObjectSince, Versions

\* And of a function.
LEMMA FunctionsTold ==
    ASSUME NEW f, IsSecdef(f), NEW v \in Versions
    PROVE  FunctionTold(f, SecdefFromDict(f, v), v) /\ (v >= 24 => SecdefFromDict(f, v) = f)
<1>1. v \in Nat
  BY DEF Versions
<1>2. f = [bypass |-> f.bypass, execute |-> f.execute, path |-> f.path, language |-> f.language,
           reads |-> f.reads]
      /\ f.bypass \in BOOLEAN
  BY DEF IsSecdef
<1>3. SecdefFromDict(f, v) =
          [bypass |-> v >= 16 /\ f.bypass, execute |-> From(v, 16, f.execute, {}),
           path |-> From(v, 8, f.path, <<>>), language |-> f.language, reads |-> f.reads]
  <2> DEFINE b == v >= 16 /\ f.bypass
             p == From(v, 8, f.path, <<>>)
             q == From(v, 16, f.execute, {})
  <2>1. SecdefFromDict(f, v) = [f EXCEPT !.path = p, !.execute = q, !.bypass = b]
    BY DEF SecdefFromDict, ObjectSince
  <2> HIDE DEF b, p, q
  <2>2. SecdefFromDict(f, v) = [bypass |-> b, execute |-> q, path |-> p, language |-> f.language,
                                reads |-> f.reads]
    BY <1>2, <2>1
  <2> QED
    BY <2>2 DEF b, p, q
<1>4. v >= 16 => (v >= 16 /\ f.bypass) = f.bypass
  BY <1>2
<1> QED
  BY <1>1, <1>2, <1>3, <1>4 DEF FunctionTold, From

\* The snapshot of a schema tells what its version writes.
LEMMA SnapshotTells ==
    ASSUME NEW d, IsSchema(d), NEW v \in Versions
    PROVE  Tells(d, FromSnapshot(d, v), v)
<1> DEFINE e == FromSnapshot(d, v)
<1>1. /\ e.tables = [t \in DOMAIN d.tables |-> TableFromDict(d.tables[t], v)]
      /\ e.views = From(v, 4, [w \in DOMAIN d.views |-> ViewFromDict(d.views[w], v)], <<>>)
      /\ e.fns = From(v, 4, [f \in DOMAIN d.fns |-> SecdefFromDict(d.fns[f], v)], <<>>)
      /\ e.bypass = From(v, 9, d.bypass, {}) /\ e.leakproof = From(v, 10, d.leakproof, {})
      /\ e.escalations = From(v, 11, d.escalations, {}) /\ e.defaults = From(v, 18, d.defaults, {})
      /\ e.immutable = From(v, 19, d.immutable, <<>>) /\ e.reachers = From(v, 21, d.reachers, {})
      /\ e.foreign = From(v, 24, d.foreign, <<>>)
  BY SnapshotFields
<1> HIDE DEF e
<1>2. IsNamed(d.tables, IsTable) /\ IsNamed(d.views, IsView) /\ IsNamed(d.fns, IsSecdef)
  BY DEF IsSchema
<1>3. \A t \in DOMAIN d.tables : Told(d.tables[t], e.tables[t]) /\ ToldSince(d.tables[t], e.tables[t], v)
  BY <1>1, <1>2, TablesTold DEF IsNamed
<1>4. v \in Nat
  BY DEF Versions
<1>5. DOMAIN e.views \subseteq DOMAIN d.views
  BY <1>1 DEF From
<1>6. ASSUME v >= 4
      PROVE  /\ DOMAIN e.views = DOMAIN d.views /\ DOMAIN e.fns = DOMAIN d.fns
             /\ \A w \in DOMAIN d.views : ViewTold(d.views[w], e.views[w], v)
             /\ \A f \in DOMAIN d.fns : FunctionTold(d.fns[f], e.fns[f], v)
  <2>1. /\ e.views = [w \in DOMAIN d.views |-> ViewFromDict(d.views[w], v)]
        /\ e.fns = [f \in DOMAIN d.fns |-> SecdefFromDict(d.fns[f], v)]
    BY <1>1, <1>6 DEF From
  <2> QED
    BY <1>2, <2>1, ViewsTold, FunctionsTold DEF IsNamed
<1>7. DOMAIN e.tables = DOMAIN d.tables
  BY <1>1
<1>8. /\ v >= 9 => e.bypass = d.bypass
      /\ v >= 10 => e.leakproof = d.leakproof
      /\ v >= 11 => e.escalations = d.escalations
      /\ v >= 18 => e.defaults = d.defaults
      /\ v >= 19 => e.immutable = d.immutable
      /\ v >= 21 => e.reachers = d.reachers
      /\ v >= 24 => e.foreign = d.foreign
  BY <1>1, <1>4 DEF From
<1> QED
  BY <1>3, <1>5, <1>6, <1>7, <1>8 DEF Tells, e

\* The snapshot of a schema of a version that leaves no rule out is the schema.
LEMMA SnapshotIsWhole ==
    ASSUME NEW d, IsSchema(d), NEW v \in Versions, v >= 24
    PROVE  FromSnapshot(d, v) = d
<1> DEFINE e == FromSnapshot(d, v)
<1>1. v \in Nat
  BY DEF Versions
<1>2. /\ e.tables = [t \in DOMAIN d.tables |-> TableFromDict(d.tables[t], v)]
      /\ e.views = [w \in DOMAIN d.views |-> ViewFromDict(d.views[w], v)]
      /\ e.fns = [f \in DOMAIN d.fns |-> SecdefFromDict(d.fns[f], v)]
      /\ e.bypass = d.bypass /\ e.leakproof = d.leakproof
      /\ e.escalations = d.escalations /\ e.defaults = d.defaults
      /\ e.immutable = d.immutable /\ e.reachers = d.reachers /\ e.foreign = d.foreign
      /\ e = [tables |-> e.tables, views |-> e.views, fns |-> e.fns, immutable |-> e.immutable,
              foreign |-> e.foreign, leakproof |-> e.leakproof, bypass |-> e.bypass,
              escalations |-> e.escalations, reachers |-> e.reachers, defaults |-> e.defaults]
  BY <1>1, SnapshotFields DEF From
<1> HIDE DEF e
<1>3. IsNamed(d.tables, IsTable) /\ IsNamed(d.views, IsView) /\ IsNamed(d.fns, IsSecdef)
  BY DEF IsSchema
<1>4. \A t \in DOMAIN d.tables : TableFromDict(d.tables[t], v) = d.tables[t]
  BY <1>3, TablesTold DEF IsNamed
<1>5. e.tables = d.tables
  BY <1>2, <1>3, <1>4 DEF IsNamed
<1>6. e.views = d.views
  BY <1>2, <1>3, ViewsTold DEF IsNamed
<1>7. e.fns = d.fns
  BY <1>2, <1>3, FunctionsTold DEF IsNamed
<1>8. d = [tables |-> d.tables, views |-> d.views, fns |-> d.fns, immutable |-> d.immutable,
           foreign |-> d.foreign, leakproof |-> d.leakproof, bypass |-> d.bypass,
           escalations |-> d.escalations, reachers |-> d.reachers, defaults |-> d.defaults]
  BY DEF IsSchema
<1> QED
  BY <1>2, <1>5, <1>6, <1>7, <1>8 DEF e

\* The policies are the same, and what policy rules read of their tables.
SamePolicies(d, e) ==
    /\ PolicyIds(e) = PolicyIds(d)
    /\ \A id \in PolicyIds(d) : /\ PolicyAt(e, id) = PolicyAt(d, id)
                                /\ Told(d.tables[id[1]], e.tables[id[1]])
\* Every snapshot tells the policies.
LEMMA PoliciesTold ==
    ASSUME NEW d, NEW e, NEW v, Tells(d, e, v)
    PROVE  SamePolicies(d, e)
<1>1. DOMAIN e.tables = DOMAIN d.tables /\ \A t \in DOMAIN d.tables : Told(d.tables[t], e.tables[t])
  BY DEF Tells
<1>2. \A t \in DOMAIN d.tables : e.tables[t].policies = d.tables[t].policies
  BY <1>1 DEF Told
<1>3. \A x \in {d, e} : PolicyIds(x) = UNION {{<<t, n>> : n \in DOMAIN d.tables[t].policies} : t \in DOMAIN d.tables}
  BY <1>1, <1>2 DEF PolicyIds
<1>4. \A id \in PolicyIds(d) : id[1] \in DOMAIN d.tables
  BY DEF PolicyIds
<1> QED
  BY <1>1, <1>2, <1>3, <1>4 DEF SamePolicies, PolicyAt

\* The rules that read policies find on the snapshot what they find on the schema.
LEMMA PolicyRulesTold ==
    ASSUME NEW d, NEW e, SamePolicies(d, e)
    PROVE  /\ SEC003(e) = SEC003(d) /\ SEC004(e) = SEC004(d) /\ SEC005(e) = SEC005(d)
           /\ SEC006(e) = SEC006(d) /\ SEC008(e) = SEC008(d) /\ SEC010(e) = SEC010(d)
           /\ SEC011(e) = SEC011(d) /\ SEC018(e) = SEC018(d) /\ SEC019(e) = SEC019(d)
           /\ SEC020(e) = SEC020(d) /\ SEC021(e) = SEC021(d) /\ SEC024(e) = SEC024(d)
           /\ SEC026(e) = SEC026(d) /\ SEC028(e) = SEC028(d) /\ SEC031(e) = SEC031(d)
           /\ SEC033(e) = SEC033(d) /\ SEC034(e) = SEC034(d) /\ SEC036(e) = SEC036(d)
           /\ SEC037(e) = SEC037(d) /\ SEC038(e) = SEC038(d) /\ SEC039(e) = SEC039(d)
           /\ SEC040(e) = SEC040(d) /\ SEC055(e) = SEC055(d) /\ HYG001(e) = HYG001(d)
           /\ PERF001(e) = PERF001(d) /\ PERF002(e) = PERF002(d) /\ HYG002(e) = HYG002(d)
           /\ \A c : HYG004(e, c) = HYG004(d, c)
<1>1. /\ PolicyIds(e) = PolicyIds(d)
      /\ \A id \in PolicyIds(d) :
            /\ PolicyAt(e, id) = PolicyAt(d, id)
            /\ e.tables[id[1]].columns = d.tables[id[1]].columns
  BY DEF SamePolicies, Told
<1>2. /\ SEC003(e) = SEC003(d) /\ SEC006(e) = SEC006(d) /\ SEC008(e) = SEC008(d)
      /\ SEC019(e) = SEC019(d) /\ SEC020(e) = SEC020(d)
  BY <1>1 DEF PerPolicy, SEC003, SEC006, SEC008, SEC019, SEC020
<1>3. SEC004(e) = SEC004(d) /\ SEC010(e) = SEC010(d) /\ SEC011(e) = SEC011(d)
  BY <1>1 DEF PerPolicy, InClause, SEC004, SEC010, SEC011
<1>4. SEC005(e) = SEC005(d) /\ HYG001(e) = HYG001(d)
  BY <1>1 DEF PerPolicy, SEC005, HYG001
<1>5. SEC018(e) = SEC018(d)
  BY <1>1 DEF PerPolicy, InClause, SEC018, ComparesRole
<1>6. SEC021(e) = SEC021(d) /\ SEC036(e) = SEC036(d)
  BY <1>1 DEF PerPolicy, InClause, SEC021, SEC036
<1>7. /\ SEC024(e) = SEC024(d) /\ SEC028(e) = SEC028(d) /\ SEC031(e) = SEC031(d)
      /\ SEC033(e) = SEC033(d) /\ SEC034(e) = SEC034(d)
  BY <1>1 DEF PerPolicy, SEC024, SEC028, SEC031, SEC033, SEC034
<1>8. SEC026(e) = SEC026(d) /\ SEC037(e) = SEC037(d) /\ PERF001(e) = PERF001(d)
  BY <1>1 DEF PerPolicy, InClause, SEC026, SEC037, PERF001
<1>9. SEC038(e) = SEC038(d) /\ SEC039(e) = SEC039(d) /\ PERF002(e) = PERF002(d)
  BY <1>1 DEF PerPolicy, SEC038, SEC039, PERF002
<1>10. SEC040(e) = SEC040(d)
  <2>1. \A t, u, c : u.columns = t.columns => ScopingColumns(u, c, TRUE) = ScopingColumns(t, c, TRUE)
    BY DEF ScopingColumns
  <2> DEFINE Fires(x, p) == /\ p.permissive /\ p.cmd = "ALL" /\ p.check # Absent
                            /\ ~IsLiteralTrue(p.check) /\ ~IsLiteralFalse(p.check)
                            /\ ScopingColumns(x, p.using, TRUE) # {} /\ ScopingColumns(x, p.check, TRUE) = {}
  <2>2. ASSUME NEW t, NEW u, NEW p, u.columns = t.columns
        PROVE  Fires(u, p) <=> Fires(t, p)
    <3>1. ScopingColumns(u, p.using, TRUE) = ScopingColumns(t, p.using, TRUE)
      BY <2>1, <2>2
    <3>2. ScopingColumns(u, p.check, TRUE) = ScopingColumns(t, p.check, TRUE)
      BY <2>1, <2>2
    <3> QED
      BY <3>1, <3>2
  <2>3. \A x : SEC040(x) = {id \in PolicyIds(x) : Fires(x.tables[id[1]], PolicyAt(x, id))}
    BY DEF PerPolicy, SEC040
  <2> HIDE DEF Fires
  <2>4. \A id \in PolicyIds(d) : \A p : Fires(e.tables[id[1]], p) <=> Fires(d.tables[id[1]], p)
    BY <1>1, <2>2
  <2> QED
    BY <1>1, <2>3, <2>4
<1>11. SEC055(e) = SEC055(d)
  <2>1. (\A id \in PolicyIds(e) : ~Raising(PolicyAt(e, id))) <=> \A id \in PolicyIds(d) : ~Raising(PolicyAt(d, id))
    BY <1>1
  <2> DEFINE silent(x) == {id \in PolicyIds(x) : ~Raising(PolicyAt(x, id))
                              /\ {"setting", "setting_plain"} \cap Calls(PolicyAt(x, id)) # {}}
  <2>2. silent(e) = silent(d)
    BY <1>1
  <2>3. \A x : SEC055(x) = IF \A id \in PolicyIds(x) : ~Raising(PolicyAt(x, id)) THEN {} ELSE silent(x)
    BY DEF PerPolicy, SEC055
  <2> HIDE DEF silent
  <2> QED
    BY <2>1, <2>2, <2>3
<1>12. HYG002(e) = HYG002(d) /\ \A c : HYG004(e, c) = HYG004(d, c)
  BY <1>1 DEF HYG002, HYG004
<1> QED
  BY <1>2, <1>3, <1>4, <1>5, <1>6, <1>7, <1>8, <1>9, <1>10, <1>11, <1>12

\* What rules of tables read of all tables.
TablesAlike(d, e) ==
    /\ DOMAIN e.tables = DOMAIN d.tables
    /\ \A t \in DOMAIN d.tables : Told(d.tables[t], e.tables[t])

\* The parents of partitions are told, so ancestors are the same.
LEMMA SameAncestors ==
    ASSUME NEW d, NEW e, TablesAlike(d, e), NEW t
    PROVE  AncestorsOf(e, t) = AncestorsOf(d, t) /\ AncestorsOf(d, t) \subseteq DOMAIN d.tables
<1> DEFINE up(x) == [k \in DOMAIN x.tables |-> {x.tables[k].partitionOf} \ {""}]
<1>1. up(e) = up(d)
  BY DEF TablesAlike, Told
<1>2. \A x : AncestorsOf(x, t) = Above(up(x), t)
  BY DEF AncestorsOf
<1>3. DOMAIN up(d) = DOMAIN d.tables
  OBVIOUS
<1> HIDE DEF up
<1> QED
  BY <1>1, <1>2, <1>3 DEF Above

\* So are those by inheritance where the snapshot tells parents.
LEMMA SameInheritance ==
    ASSUME NEW d, NEW e, TablesAlike(d, e), NEW t,
           \A k \in DOMAIN d.tables : e.tables[k].inherits = d.tables[k].inherits
    PROVE  /\ InheritanceAncestorsOf(e, t) = InheritanceAncestorsOf(d, t)
           /\ InheritanceAncestorsOf(d, t) \subseteq DOMAIN d.tables
<1> DEFINE up(x) == [k \in DOMAIN x.tables |-> x.tables[k].inherits]
<1>1. up(e) = up(d)
  BY DEF TablesAlike
<1>2. \A x : InheritanceAncestorsOf(x, t) = Above(up(x), t)
  BY DEF InheritanceAncestorsOf
<1>3. DOMAIN up(d) = DOMAIN d.tables
  OBVIOUS
<1> HIDE DEF up
<1> QED
  BY <1>1, <1>2, <1>3 DEF Above

\* Row security is told.
LEMMA SameRls ==
    ASSUME NEW d, NEW e, TablesAlike(d, e), NEW ts \in SUBSET DOMAIN d.tables
    PROVE  AnyRls(e, ts) <=> AnyRls(d, ts)
BY DEF AnyRls, TablesAlike, Told

\* Tables without, or with half of, row security: what the rules find on the
\* snapshot is what they find on the schema.
LEMMA TableRulesTold ==
    ASSUME NEW d, NEW e, TablesAlike(d, e)
    PROVE  /\ SEC001(e) = SEC001(d) /\ SEC002(e) = SEC002(d) /\ SEC007(e) = SEC007(d)
           /\ SEC009(e) = SEC009(d) /\ SEC012(e) = SEC012(d) /\ SEC022(e) = SEC022(d)
           /\ SEC027(e) = SEC027(d) /\ SEC032(e) = SEC032(d)
           /\ SEC050Unscopable(e) = SEC050Unscopable(d)
           /\ \A pressure : PERF005(e, pressure) = PERF005(d, pressure)
<1>1. /\ DOMAIN e.tables = DOMAIN d.tables
      /\ \A t \in DOMAIN d.tables :
            /\ e.tables[t].rls = d.tables[t].rls /\ e.tables[t].force = d.tables[t].force
            /\ e.tables[t].partitionOf = d.tables[t].partitionOf
            /\ e.tables[t].columns = d.tables[t].columns
            /\ e.tables[t].schema = d.tables[t].schema
            /\ e.tables[t].policies = d.tables[t].policies
  BY DEF TablesAlike, Told
<1>2. \A t : AnyRls(e, AncestorsOf(e, t)) <=> AnyRls(d, AncestorsOf(d, t))
  BY SameAncestors, SameRls
<1>3. \A t \in DOMAIN d.tables : /\ PoliciesOf(e.tables[t]) = PoliciesOf(d.tables[t])
                                 /\ Mentioned(e.tables[t]) = Mentioned(d.tables[t])
  BY <1>1 DEF PoliciesOf, Mentioned
<1>4. SEC001(e) = SEC001(d) /\ SEC032(e) = SEC032(d)
  BY <1>1, <1>2 DEF PerTable, SEC001, SEC032
<1>5. SEC002(e) = SEC002(d) /\ SEC009(e) = SEC009(d)
  BY <1>1 DEF PerTable, SEC002, SEC009
<1>6. SEC007(e) = SEC007(d) /\ SEC012(e) = SEC012(d)
  BY <1>1, <1>3 DEF PerTable, SEC007, SEC012
<1>7. SEC022(e) = SEC022(d) /\ SEC027(e) = SEC027(d)
  <2> DEFINE Only(ps) == /\ \E p \in ps : p.permissive
                         /\ \A p \in ps : p.cmd \notin WriteCommands \cup {"DELETE"}
  <2>1. /\ \A x : SEC022(x) = PerTable(x, LAMBDA n : LET t == x.tables[n] IN
                                  t.rls /\ t.partitionOf = "" /\ Only(PoliciesOf(t)))
        /\ \A x : SEC027(x) = PerTable(x, LAMBDA n : LET t == x.tables[n] IN
               t.rls /\ t.policies # <<>> /\ ~(t.columns \cap PrincipalColumns \subseteq Mentioned(t)))
    BY DEF SEC022, SEC027, PerTable
  <2> HIDE DEF Only
  <2> QED
    BY <1>1, <1>3, <2>1 DEF PerTable
<1>8. SEC050Unscopable(e) = SEC050Unscopable(d)
  BY <1>1 DEF PerTable, SEC050Unscopable
<1>9. \A pressure : PERF005(e, pressure) = PERF005(d, pressure)
  BY <1>1 DEF PerTable, PERF005
<1> QED
  BY <1>4, <1>5, <1>6, <1>7, <1>8, <1>9

\* Rules of policies that read other tables, or their table's name.
LEMMA PolicyTableRulesTold ==
    ASSUME NEW d, NEW e, TablesAlike(d, e), SamePolicies(d, e)
    PROVE  /\ SEC050(e) = SEC050(d)
           /\ \A names : HYG003(e, names) = HYG003(d, names)
           /\ DOMAIN e.views \subseteq DOMAIN d.views => SEC025(d) \subseteq SEC025(e)
<1>1. /\ DOMAIN e.tables = DOMAIN d.tables
      /\ \A t \in DOMAIN d.tables :
            /\ e.tables[t].rls = d.tables[t].rls
            /\ e.tables[t].columns = d.tables[t].columns
            /\ e.tables[t].schema = d.tables[t].schema
            /\ e.tables[t].policies = d.tables[t].policies
  BY DEF TablesAlike, Told
<1>2. /\ PolicyIds(e) = PolicyIds(d)
      /\ \A id \in PolicyIds(d) : PolicyAt(e, id) = PolicyAt(d, id) /\ id[1] \in DOMAIN d.tables
  <2>1. \A id \in PolicyIds(d) : id[1] \in DOMAIN d.tables
    BY DEF PolicyIds
  <2> QED
    BY <2>1 DEF SamePolicies
<1>3. \A t \in DOMAIN d.tables : PoliciesOf(e.tables[t]) = PoliciesOf(d.tables[t])
  BY <1>1 DEF PoliciesOf
<1>4. SEC050(e) = SEC050(d)
  BY <1>1, <1>2, <1>3 DEF SEC050
<1>5. \A names : HYG003(e, names) = HYG003(d, names)
  BY <1>1, <1>2 DEF HYG003, PolicyAt
<1>6. ASSUME DOMAIN e.views \subseteq DOMAIN d.views
      PROVE SEC025(d) \subseteq SEC025(e)
  BY <1>1, <1>2, <1>6 DEF SEC025
<1> QED
  BY <1>4, <1>5, <1>6

\* Rules of tables that read what older snapshots lack.
LEMMA TableRulesToldSince ==
    ASSUME NEW d, NEW e, NEW v \in Versions, Tells(d, e, v)
    PROVE  /\ v >= 5 => SEC030(e) = SEC030(d)
           /\ v >= 6 => SEC013(e) = SEC013(d)
           /\ v >= 7 => PERF003(e) = PERF003(d) /\ PERF004(e) = PERF004(d)
           /\ v >= 13 => SEC035(e) = SEC035(d)
           /\ v >= 15 => SEC041(e) = SEC041(d) /\ SEC045(e) = SEC045(d) /\ SEC049(e) = SEC049(d)
           /\ v >= 17 => SEC043(e) = SEC043(d)
           /\ v >= 20 => SEC047(e) = SEC047(d)
           /\ v >= 22 => SEC051(e) = SEC051(d)
<1>0. v \in Nat
  BY DEF Versions
<1>1. TablesAlike(d, e) /\ \A t \in DOMAIN d.tables : ToldSince(d.tables[t], e.tables[t], v)
  BY DEF Tells, TablesAlike
<1>2. /\ DOMAIN e.tables = DOMAIN d.tables
      /\ \A t \in DOMAIN d.tables :
            /\ e.tables[t].rls = d.tables[t].rls
            /\ e.tables[t].columns = d.tables[t].columns
            /\ e.tables[t].schema = d.tables[t].schema
            /\ e.tables[t].grants = d.tables[t].grants
            /\ e.tables[t].policies = d.tables[t].policies
  BY <1>1 DEF TablesAlike, Told
<1>3. \A t \in DOMAIN d.tables : PoliciesOf(e.tables[t]) = PoliciesOf(d.tables[t])
  BY <1>2 DEF PoliciesOf
<1>4. ASSUME v >= 5 PROVE SEC030(e) = SEC030(d)
  <2>1. \A t \in DOMAIN d.tables : e.tables[t].nullable = d.tables[t].nullable
    BY <1>1, <1>4 DEF ToldSince
  <2>2. \A t \in DOMAIN d.tables : \A c : ScopingColumns(e.tables[t], c, FALSE) = ScopingColumns(d.tables[t], c, FALSE)
    BY <1>2 DEF ScopingColumns
  <2>3. \A t \in DOMAIN d.tables : Scoping(e.tables[t]) = Scoping(d.tables[t])
    <3> DEFINE of(x, p) == ScopingColumns(x, p.using, FALSE) \cup ScopingColumns(x, p.check, FALSE)
    <3>1. \A t \in DOMAIN d.tables : \A p : of(e.tables[t], p) = of(d.tables[t], p)
      BY <2>2
    <3>2. \A x : Scoping(x) = UNION {of(x, p) : p \in PoliciesOf(x)}
      BY DEF Scoping
    <3> HIDE DEF of
    <3> QED
      BY <1>3, <3>1, <3>2
  <2> QED
    BY <1>2, <2>1, <2>3 DEF PerTable, SEC030
<1>5. ASSUME v >= 6 PROVE SEC013(e) = SEC013(d)
  <2>1. \A t \in DOMAIN d.tables : e.tables[t].triggers = d.tables[t].triggers
    BY <1>0, <1>1, <1>5 DEF ToldSince
  <2> QED
    BY <1>2, <2>1 DEF SEC013
<1>6. ASSUME v >= 7 PROVE PERF003(e) = PERF003(d) /\ PERF004(e) = PERF004(d)
  <2>1. \A t, c : HasLeadingIndex(t, c) <=> LeadsWith(t.indexes, c)
    BY DEF HasLeadingIndex, LeadsWith
  <2>2. \A t \in DOMAIN d.tables : \A c : HasLeadingIndex(e.tables[t], c) <=> HasLeadingIndex(d.tables[t], c)
    BY <1>0, <1>1, <1>6, <2>1 DEF ToldSince
  <2>3. /\ PolicyIds(e) = PolicyIds(d)
        /\ \A id \in PolicyIds(d) : PolicyAt(e, id) = PolicyAt(d, id) /\ id[1] \in DOMAIN d.tables
    <3>1. \A id \in PolicyIds(d) : id[1] \in DOMAIN d.tables
      BY DEF PolicyIds
    <3> QED
      BY <3>1, PoliciesTold DEF SamePolicies
  <2>4. PERF003(e) = PERF003(d)
    BY <1>2, <2>2, <2>3 DEF PerPolicy, PERF003
  <2>5. PERF004(e) = PERF004(d)
    BY <1>2, <2>2, <2>3 DEF PerPolicy, PERF004
  <2> QED
    BY <2>4, <2>5
<1>7. ASSUME v >= 13 PROVE SEC035(e) = SEC035(d)
  <2>1. \A t \in DOMAIN d.tables : e.tables[t].indexes = d.tables[t].indexes /\ e.tables[t].uuid = d.tables[t].uuid
    BY <1>0, <1>1, <1>7 DEF ToldSince
  <2>2. \A t \in DOMAIN d.tables : Discriminators(e.tables[t]) = Discriminators(d.tables[t])
    BY <1>2, <1>3 DEF Discriminators
  <2>3. \A t \in DOMAIN d.tables : Unscoped(e.tables[t]) = Unscoped(d.tables[t])
    BY <2>1, <2>2 DEF Unscoped
  <2> QED
    BY <1>2, <2>3 DEF SEC035
<1>8. ASSUME v >= 15
      PROVE  /\ SEC041(e) = SEC041(d) /\ SEC045(e) = SEC045(d) /\ SEC049(e) = SEC049(d)
             /\ \A t \in DOMAIN d.tables : IsDirectlyReachable(e.tables[t]) <=> IsDirectlyReachable(d.tables[t])
  <2>1. \A t \in DOMAIN d.tables : e.tables[t].colgrants = d.tables[t].colgrants
    BY <1>0, <1>1, <1>8 DEF ToldSince
  <2>2. \A t \in DOMAIN d.tables : IsDirectlyReachable(e.tables[t]) <=> IsDirectlyReachable(d.tables[t])
    BY <1>2, <2>1 DEF IsDirectlyReachable
  <2>3. \A t : AnyRls(e, AncestorsOf(e, t)) <=> AnyRls(d, AncestorsOf(d, t))
    BY <1>1, SameAncestors, SameRls
  <2>4. SEC041(e) = SEC041(d)
    BY <1>2, <2>2, <2>3 DEF PerTable, SEC041
  <2>5. SEC045(e) = SEC045(d)
    BY <1>2, <2>1 DEF SEC045
  <2>6. \A t \in DOMAIN d.tables : \A r : UnrestrictedFor(e.tables[t], r) <=> UnrestrictedFor(d.tables[t], r)
    BY <1>2, <1>3 DEF UnrestrictedFor
  <2>7. SEC049(e) = SEC049(d)
    BY <1>2, <2>1, <2>6 DEF PerTable, SEC049
  <2> QED
    BY <2>2, <2>4, <2>5, <2>7
<1>9. ASSUME v >= 17 PROVE SEC043(e) = SEC043(d)
  <2>1. \A t \in DOMAIN d.tables : e.tables[t].inherits = d.tables[t].inherits
    BY <1>0, <1>1, <1>9 DEF ToldSince
  <2>2. \A t : AnyRls(e, InheritanceAncestorsOf(e, t)) <=> AnyRls(d, InheritanceAncestorsOf(d, t))
    BY <1>1, <2>1, SameInheritance, SameRls
  <2>3. \A t \in DOMAIN d.tables : IsDirectlyReachable(e.tables[t]) <=> IsDirectlyReachable(d.tables[t])
    BY <1>0, <1>8, <1>9
  <2> QED
    BY <1>2, <2>2, <2>3 DEF PerTable, SEC043
<1>10. ASSUME v >= 20 PROVE SEC047(e) = SEC047(d)
  <2>1. \A t \in DOMAIN d.tables : e.tables[t].fks = d.tables[t].fks
    BY <1>0, <1>1, <1>10 DEF ToldSince
  <2>2. \A t \in DOMAIN d.tables : ChildWritableBy(e.tables[t]) <=> ChildWritableBy(d.tables[t])
    BY <1>2, <1>3 DEF ChildWritableBy
  <2>3. \A t \in DOMAIN d.tables : RowSecuredParents(e, t) = RowSecuredParents(d, t)
    BY <1>2, <2>1 DEF RowSecuredParents
  <2>4. {t \in DOMAIN e.tables : ChildWritableBy(e.tables[t])}
            = {t \in DOMAIN d.tables : ChildWritableBy(d.tables[t])}
    BY <1>2, <2>2
  <2> QED
    BY <2>3, <2>4 DEF SEC047
<1>11. ASSUME v >= 22 PROVE SEC051(e) = SEC051(d)
  <2>1. \A t \in DOMAIN d.tables : e.tables[t].pubs = d.tables[t].pubs
    BY <1>0, <1>1, <1>11 DEF ToldSince
  <2> QED
    BY <1>2, <2>1 DEF PerTable, SEC051
<1> QED
  BY <1>4, <1>5, <1>6, <1>7, <1>8, <1>9, <1>10, <1>11

\* Rules of functions and roles.
LEMMA ObjectRulesTold ==
    ASSUME NEW d, NEW e, NEW v \in Versions, Tells(d, e, v)
    PROVE  /\ v >= 4 => SEC014(e) = SEC014(d)
           /\ v >= 8 => SEC015(e) = SEC015(d)
           /\ v >= 9 => SEC016(e) = SEC016(d) /\ SEC023(e) = SEC023(d)
           /\ v >= 10 => SEC017(e) = SEC017(d)
           /\ v >= 11 => SEC029(e) = SEC029(d)
           /\ v >= 16 => SEC042(e) = SEC042(d)
           /\ v >= 18 => SEC044(e) = SEC044(d)
           /\ v >= 19 => \A trusted : SEC046(e, trusted) = SEC046(d, trusted)
           /\ v >= 21 => \A trusted : SEC048(e, trusted) = SEC048(d, trusted)
           /\ v >= 24 => SEC053(e) = SEC053(d)
<1>0. v \in Nat
  BY DEF Versions
<1>1. ASSUME v >= 4
      PROVE  /\ DOMAIN e.fns = DOMAIN d.fns
             /\ \A f \in DOMAIN d.fns : FunctionTold(d.fns[f], e.fns[f], v)
  BY <1>1 DEF Tells
<1>2. /\ v >= 9 => e.bypass = d.bypass
      /\ v >= 10 => e.leakproof = d.leakproof
      /\ v >= 11 => e.escalations = d.escalations
      /\ v >= 18 => e.defaults = d.defaults
      /\ v >= 19 => e.immutable = d.immutable
      /\ v >= 21 => e.reachers = d.reachers
      /\ v >= 24 => e.foreign = d.foreign
  BY DEF Tells
<1>3. /\ PolicyIds(e) = PolicyIds(d)
      /\ \A id \in PolicyIds(d) : PolicyAt(e, id) = PolicyAt(d, id)
  BY PoliciesTold DEF SamePolicies
<1>4. v >= 4 => SEC014(e) = SEC014(d)
  BY <1>1 DEF PerFn, SEC014
<1>5. v >= 8 => SEC015(e) = SEC015(d)
  <2>1. ASSUME v >= 8 PROVE \A f \in DOMAIN d.fns : e.fns[f].path = d.fns[f].path
    BY <1>0, <1>1, <2>1 DEF FunctionTold
  <2> QED
    BY <1>0, <1>1, <2>1 DEF PerFn, SEC015
<1>6. v >= 16 => SEC042(e) = SEC042(d)
  <2>1. ASSUME v >= 16
        PROVE  \A f \in DOMAIN d.fns : e.fns[f].bypass = d.fns[f].bypass /\ e.fns[f].execute = d.fns[f].execute
    BY <1>0, <1>1, <2>1 DEF FunctionTold
  <2> QED
    BY <1>0, <1>1, <2>1 DEF PerFn, SEC042
<1>7. v >= 9 => SEC016(e) = SEC016(d) /\ SEC023(e) = SEC023(d)
  BY <1>2, <1>3 DEF PerPolicy, SEC016, SEC023
<1>8. /\ v >= 10 => SEC017(e) = SEC017(d)
      /\ v >= 11 => SEC029(e) = SEC029(d)
      /\ v >= 18 => SEC044(e) = SEC044(d)
  BY <1>2 DEF SEC017, SEC029, SEC044
<1>9. v >= 19 => \A trusted : SEC046(e, trusted) = SEC046(d, trusted)
  BY <1>2, <1>3 DEF PerPolicy, SEC046
<1>10. v >= 21 => \A trusted : SEC048(e, trusted) = SEC048(d, trusted)
  BY <1>2 DEF SEC048
<1>11. v >= 24 => SEC053(e) = SEC053(d)
  BY <1>2 DEF SEC053
<1> QED
  BY <1>4, <1>5, <1>6, <1>7, <1>8, <1>9, <1>10, <1>11

\* The rules of views find on the snapshot what they find on the schema.
LEMMA ViewRulesTold ==
    ASSUME NEW d, NEW e, NEW v \in Versions, Tells(d, e, v), v >= 4
    PROVE  /\ VIEW001(e) = VIEW001(d) /\ VIEW002(e) = VIEW002(d) /\ VIEW003(e) = VIEW003(d)
           /\ VIEW004(e) = VIEW004(d)
           /\ v >= 23 => SEC052(e) = SEC052(d) /\ SEC054(e) = SEC054(d)
<1>0. v \in Nat
  BY DEF Versions
<1>1. TablesAlike(d, e) /\ DOMAIN e.tables = DOMAIN d.tables
  BY DEF Tells, TablesAlike
<1>2. /\ DOMAIN e.views = DOMAIN d.views /\ DOMAIN e.fns = DOMAIN d.fns
      /\ \A w \in DOMAIN d.views : ViewTold(d.views[w], e.views[w], v)
      /\ \A f \in DOMAIN d.fns : FunctionTold(d.fns[f], e.fns[f], v)
  BY DEF Tells
<1>3. \A w \in DOMAIN d.views :
          /\ e.views[w].schema = d.views[w].schema /\ e.views[w].mat = d.views[w].mat
          /\ e.views[w].invoker = d.views[w].invoker /\ e.views[w].barrier = d.views[w].barrier
          /\ e.views[w].from = d.views[w].from /\ e.views[w].where = d.views[w].where
          /\ e.views[w].calls = d.views[w].calls
  BY <1>2 DEF ViewTold
<1>4. \A w \in DOMAIN d.views : ReadsRls(e, e.views[w]) <=> ReadsRls(d, d.views[w])
  <2> DEFINE from(x) == [w \in DOMAIN x.views |-> x.views[w].from]
  <2>1. from(e) = from(d)
    BY <1>2, <1>3
  <2>2. \A x, w : Below(x, w) = Reached(from(x), w.from)
    BY DEF Below
  <2> HIDE DEF from
  <2>3. \A w \in DOMAIN d.views : Below(e, e.views[w]) = Below(d, d.views[w])
    BY <1>3, <2>1, <2>2
  <2>4. \A w \in DOMAIN d.views : ViewTables(e, e.views[w]) = ViewTables(d, d.views[w])
    BY <1>1, <2>3 DEF ViewTables
  <2>5. \A w : ViewTables(d, w) \subseteq DOMAIN d.tables
    BY DEF ViewTables
  <2> QED
    BY <1>1, <2>4, <2>5, SameRls DEF ReadsRls
<1>5. VIEW001(e) = VIEW001(d) /\ VIEW002(e) = VIEW002(d) /\ VIEW003(e) = VIEW003(d)
  BY <1>2, <1>3, <1>4 DEF PerView, VIEW001, VIEW002, VIEW003
<1>6. \A f \in DOMAIN d.fns : SecdefFnLeaks(e, e.fns[f]) <=> SecdefFnLeaks(d, d.fns[f])
  <2>1. \A f \in DOMAIN d.fns : e.fns[f].language = d.fns[f].language /\ e.fns[f].reads = d.fns[f].reads
    BY <1>2 DEF FunctionTold
  <2>2. \A f \in DOMAIN d.fns : AnyRls(e, d.fns[f].reads \cap DOMAIN d.tables)
                                <=> AnyRls(d, d.fns[f].reads \cap DOMAIN d.tables)
    BY <1>1, SameRls
  <2> QED
    BY <1>1, <2>1, <2>2 DEF SecdefFnLeaks
<1>7. VIEW004(e) = VIEW004(d)
  BY <1>2, <1>3, <1>6 DEF PerView, VIEW004
<1>8. ASSUME v >= 23 PROVE SEC052(e) = SEC052(d) /\ SEC054(e) = SEC054(d)
  <2>1. \A w \in DOMAIN d.views : e.views[w].grants = d.views[w].grants
    BY <1>0, <1>2, <1>8 DEF ViewTold
  <2>2. SEC052(e) = SEC052(d)
    BY <1>2, <1>3, <2>1 DEF PerView, SEC052
  <2>3. SEC054(e) = SEC054(d)
    BY <1>2, <1>3, <1>4, <2>1 DEF PerView, SEC054
  <2> QED
    BY <2>2, <2>3
<1> QED
  BY <1>5, <1>7, <1>8

\* The rules lint does not leave out, by the version.
LEMMA NotInert ==
    ASSUME NEW v \in Versions, NEW r, r \notin InertRuleIds("snapshot", v)
    PROVE  /\ r \in {"SEC014", "VIEW001", "VIEW002", "VIEW003", "VIEW004"} => v >= 4
           /\ r = "SEC013" => v >= 6
           /\ r \in {"PERF003", "PERF004"} => v >= 7
           /\ r = "SEC015" => v >= 8
           /\ r \in {"SEC016", "SEC023"} => v >= 9
           /\ r = "SEC017" => v >= 10
           /\ r = "SEC029" => v >= 11
           /\ r = "SEC035" => v >= 13
           /\ r = "SEC042" => v >= 16
           /\ r = "SEC043" => v >= 17
           /\ r = "SEC044" => v >= 18
           /\ r = "SEC046" => v >= 19
           /\ r = "SEC047" => v >= 20
           /\ r = "SEC048" => v >= 21
           /\ r = "SEC051" => v >= 22
           /\ r \in {"SEC052", "SEC054"} => v >= 23
           /\ r = "SEC053" => v >= 24
<1>1. v \in Nat
  BY DEF Versions
<1>2. \A x \in DOMAIN CatalogDependentRules : r = x => v >= CatalogDependentRules[x]
  <2>1. \A x \in DOMAIN CatalogDependentRules : CatalogDependentRules[x] \in Nat
    BY DEF CatalogDependentRules
  <2> QED
    BY <1>1, <2>1 DEF InertRuleIds
<1> QED
  BY <1>2 DEF CatalogDependentRules

\* Where no rule is left out, the snapshot is of a version that writes all of them read.
LEMMA NothingInert ==
    ASSUME NEW v \in Versions, InertRuleIds("snapshot", v) = {}
    PROVE  v >= 24
BY NotInert

\* What a rule that is not left out finds on a schema it finds on its snapshot.
LEMMA RulesTold ==
    ASSUME NEW d, IsSchema(d), NEW v \in Versions, NEW c,
           NEW r \in DOMAIN Registry(d, c) \ InertRuleIds("snapshot", v)
    PROVE  \/ Registry(d, c)[r] \subseteq Registry(FromSnapshot(d, v), c)[r]
           \/ Unnoticed(r, v)
<1> DEFINE e == FromSnapshot(d, v)
<1>0. v \in Nat
  BY DEF Versions
<1>1. Tells(d, e, v)
  BY SnapshotTells
<1> HIDE DEF e
<1>2. SamePolicies(d, e) /\ TablesAlike(d, e) /\ DOMAIN e.views \subseteq DOMAIN d.views
  BY <1>1, PoliciesTold DEF Tells, TablesAlike
<1>3. /\ SEC003(e) = SEC003(d) /\ SEC004(e) = SEC004(d) /\ SEC005(e) = SEC005(d)
      /\ SEC006(e) = SEC006(d) /\ SEC008(e) = SEC008(d) /\ SEC010(e) = SEC010(d)
      /\ SEC011(e) = SEC011(d) /\ SEC018(e) = SEC018(d) /\ SEC019(e) = SEC019(d)
      /\ SEC020(e) = SEC020(d) /\ SEC021(e) = SEC021(d) /\ SEC024(e) = SEC024(d)
      /\ SEC026(e) = SEC026(d) /\ SEC028(e) = SEC028(d) /\ SEC031(e) = SEC031(d)
      /\ SEC033(e) = SEC033(d) /\ SEC034(e) = SEC034(d) /\ SEC036(e) = SEC036(d)
      /\ SEC037(e) = SEC037(d) /\ SEC038(e) = SEC038(d) /\ SEC039(e) = SEC039(d)
      /\ SEC040(e) = SEC040(d) /\ SEC055(e) = SEC055(d) /\ HYG001(e) = HYG001(d)
      /\ PERF001(e) = PERF001(d) /\ PERF002(e) = PERF002(d) /\ HYG002(e) = HYG002(d)
      /\ HYG004(e, c.coverage) = HYG004(d, c.coverage)
  BY <1>2, PolicyRulesTold
<1>4. /\ SEC001(e) = SEC001(d) /\ SEC002(e) = SEC002(d) /\ SEC007(e) = SEC007(d)
      /\ SEC009(e) = SEC009(d) /\ SEC012(e) = SEC012(d) /\ SEC022(e) = SEC022(d)
      /\ SEC027(e) = SEC027(d) /\ SEC032(e) = SEC032(d)
      /\ SEC050(e) \cup SEC050Unscopable(e) = SEC050(d) \cup SEC050Unscopable(d)
      /\ PERF005(e, c.pressure) = PERF005(d, c.pressure)
      /\ HYG003(e, PolicyNames) = HYG003(d, PolicyNames)
      /\ SEC025(d) \subseteq SEC025(e)
  BY <1>2, TableRulesTold, PolicyTableRulesTold
<1>5. /\ r = "SEC013" => SEC013(e) = SEC013(d)
      /\ r = "SEC035" => SEC035(e) = SEC035(d)
      /\ r = "SEC043" => SEC043(e) = SEC043(d)
      /\ r = "SEC047" => SEC047(e) = SEC047(d)
      /\ r = "SEC051" => SEC051(e) = SEC051(d)
      /\ r = "PERF003" => PERF003(e) = PERF003(d)
      /\ r = "PERF004" => PERF004(e) = PERF004(d)
  BY <1>1, NotInert, TableRulesToldSince
<1>6. /\ r = "SEC030" => SEC030(e) = SEC030(d) \/ Unnoticed(r, v)
      /\ r = "SEC041" => SEC041(e) = SEC041(d) \/ Unnoticed(r, v)
      /\ r = "SEC045" => SEC045(e) = SEC045(d) \/ Unnoticed(r, v)
      /\ r = "SEC049" => SEC049(e) = SEC049(d) \/ Unnoticed(r, v)
  BY <1>0, <1>1, TableRulesToldSince DEF Unnoticed, TableSince
<1>7. /\ r = "SEC014" => SEC014(e) = SEC014(d)
      /\ r = "SEC015" => SEC015(e) = SEC015(d)
      /\ r = "SEC016" => SEC016(e) = SEC016(d)
      /\ r = "SEC023" => SEC023(e) = SEC023(d)
      /\ r = "SEC017" => SEC017(e) = SEC017(d)
      /\ r = "SEC029" => SEC029(e) = SEC029(d)
      /\ r = "SEC042" => SEC042(e) = SEC042(d)
      /\ r = "SEC044" => SEC044(e) = SEC044(d)
      /\ r = "SEC046" => SEC046(e, c.trusted) = SEC046(d, c.trusted)
      /\ r = "SEC048" => SEC048(e, c.trusted) = SEC048(d, c.trusted)
      /\ r = "SEC053" => SEC053(e) = SEC053(d)
  BY <1>1, NotInert, ObjectRulesTold
<1>8. /\ r = "VIEW001" => VIEW001(e) = VIEW001(d)
      /\ r = "VIEW002" => VIEW002(e) = VIEW002(d)
      /\ r = "VIEW003" => VIEW003(e) = VIEW003(d)
      /\ r = "VIEW004" => VIEW004(e) = VIEW004(d)
      /\ r = "SEC052" => SEC052(e) = SEC052(d)
      /\ r = "SEC054" => SEC054(e) = SEC054(d)
  <2>1. r \in {"VIEW001", "VIEW002", "VIEW003", "VIEW004", "SEC052", "SEC054"} => v >= 4
    BY <1>0, NotInert
  <2> QED
    BY <1>1, <2>1, NotInert, ViewRulesTold
<1>9. Registry(d, c)[r] \subseteq Registry(e, c)[r] \/ Unnoticed(r, v)
  BY <1>3, <1>4, <1>5, <1>6, <1>7, <1>8 DEF Registry
<1> QED
  BY <1>9 DEF e

\* What the last run of lint on a snapshot says: it ran on a snapshot of the
\* database as it still is, with the configuration as it still is.
SnapshotConfig(c, v) == [c EXCEPT !.exclude = @ \cup InertRuleIds("snapshot", v)]
LastSnapshot == last.op = "snapshot" =>
    /\ last.version \in Versions
    /\ last.clean => ~ShouldFail(RunRules(FromSnapshot(db, last.version),
                                          SnapshotConfig(config, last.version)), config)

\* Only a run on a snapshot is one, and nothing it read changes after it.
LEMMA SnapshotsByLint ==
    ASSUME [Next]_vars, last'.op = "snapshot"
    PROVE  (\E v \in config.versions : LintSnapshot(v)) \/ UNCHANGED vars
<1>1. ASSUME NEW d, Edited(d) PROVE FALSE
  BY <1>1 DEF Edited, Idle
<1>2. ASSUME LintRun PROVE last'.op \in {"pass", "fail"}
  BY <1>2 DEF LintRun
<1>3. ASSUME NEW o, Generate(o) PROVE last'.op = "generated"
  BY <1>3 DEF Generate
<1>4. ~UpdateBaseline /\ \A f : ~Allow(f)
  BY DEF UpdateBaseline, Allow, Idle
<1> QED
  BY <1>1, <1>2, <1>3, <1>4 DEF Next, SetRls, SetForce, CreatePolicy, AlterPolicyRoles, DropPolicy, Grant,
                    GrantColumn, CreateView, CreateFunction

\* The configuration that leaves no rule out is the configuration.
LEMMA NothingExcluded ==
    ASSUME NEW c, IsConfig(c), NEW v, InertRuleIds("snapshot", v) = {}
    PROVE  SnapshotConfig(c, v) = c
BY DEF SnapshotConfig, IsConfig

\* Lint on a snapshot leaves no rule out in silence.  A rule that it does not
\* name as left out finds on a snapshot of any version all that it finds on the
\* database (but for the rules of Unnoticed), and where it left none out, a run
\* on the snapshot that is clean is a clean database's.
THEOREM SnapshotsLeaveNoRuleOutInSilence == Spec => []NoSilentRule
<1>1. Init => LastSnapshot
  BY DEF Init, Idle, LastSnapshot
<1>2. ASSUME TypeOK, LastSnapshot, [Next]_vars PROVE LastSnapshot'
  <2>1. CASE last'.op # "snapshot"
    BY <2>1 DEF LastSnapshot
  <2>2. CASE UNCHANGED vars
    BY <1>2, <2>2 DEF LastSnapshot, vars, SnapshotConfig
  <2>3. ASSUME NEW v \in config.versions, LintSnapshot(v) PROVE LastSnapshot'
    <3>1. v \in Versions
      BY <1>2 DEF TypeOK, IsConfig
    <3>2. UNCHANGED <<db, config>>
      BY <2>3 DEF LintSnapshot
    <3>3. PICK found \in {RunRules(FromSnapshot(db, v), SnapshotConfig(config, v))} :
              last' = [op |-> "snapshot", tables |-> {}, version |-> v, clean |-> ~ShouldFail(found, config)]
      BY <2>3 DEF LintSnapshot, SnapshotConfig
    <3>4. last'.version = v /\ (last'.clean => ~ShouldFail(found, config))
      BY <3>3
    <3>5. found = RunRules(FromSnapshot(db, v), SnapshotConfig(config, v))
      OBVIOUS
    <3>6. last'.clean => ~ShouldFail(RunRules(FromSnapshot(db', v), SnapshotConfig(config', v)), config')
      BY <3>2, <3>4, <3>5
    <3> QED
      BY <3>1, <3>4, <3>6 DEF LastSnapshot, SnapshotConfig
  <2> QED
    BY <1>2, <2>1, <2>2, <2>3, SnapshotsByLint
<1>3. ASSUME TypeOK, LastSnapshot PROVE NoSilentRule
  <2> SUFFICES ASSUME last.op = "snapshot"
      PROVE LET v == last.version IN
        /\ \A rule \in DOMAIN Registry(db, config) \ InertRuleIds("snapshot", v) :
               Registry(db, config)[rule] \subseteq Registry(FromSnapshot(db, v), config)[rule] \/ Unnoticed(rule, v)
        /\ last.clean /\ InertRuleIds("snapshot", v) = {} => ~ShouldFail(RunRules(db, config), config)
    BY DEF NoSilentRule
  <2>1. IsSchema(db) /\ IsConfig(config) /\ last.version \in Versions
    BY <1>3 DEF TypeOK, LastSnapshot
  <2>2. ASSUME NEW rule \in DOMAIN Registry(db, config) \ InertRuleIds("snapshot", last.version)
        PROVE  \/ Registry(db, config)[rule] \subseteq Registry(FromSnapshot(db, last.version), config)[rule]
               \/ Unnoticed(rule, last.version)
    BY <2>1, RulesTold
  <2>3. ASSUME last.clean, InertRuleIds("snapshot", last.version) = {}
        PROVE  ~ShouldFail(RunRules(db, config), config)
    <3>1. FromSnapshot(db, last.version) = db
      BY <2>1, <2>3, NothingInert, SnapshotIsWhole
    <3>2. SnapshotConfig(config, last.version) = config
      BY <2>1, <2>3, NothingExcluded
    <3> QED
      BY <1>3, <2>3, <3>1, <3>2 DEF LastSnapshot
  <2> QED
    BY <2>2, <2>3
<1> QED
  BY <1>1, <1>2, <1>3, SchemasStaySchemas, PTL DEF Spec
-------------------------------------------------------------------------------
(* Generated tables.                                                       *)

\* The functions that the predicates of `generate` call.
GeneratedCalls == {"require_tenant", "auth.uid", "setting"}
GeneratedAtom(o) == Eq(Col(o.column), Select(SessionTerm(o)))

\* A predicate that `generate` writes: a column of the table is what one of
\* these functions returns, in a subquery of its own.
LEMMA GeneratedPredicate ==
    ASSUME NEW o
    PROVE  LET c == SessionPredicate(o) IN
           /\ c = {{GeneratedAtom(o)}} /\ AtomsOf(c) = {GeneratedAtom(o)} /\ Plain(c) = {GeneratedAtom(o)}
           /\ c # Absent /\ ~IsLiteralTrue(c) /\ ~IsLiteralFalse(c) /\ ~HasTrueDisjunct(c)
           /\ OperandsOf(c) = {Col(o.column), Select(SessionTerm(o))}
           /\ OperandsOf({Plain(c)}) = OperandsOf(c)
           /\ OwnColumns(c) = {o.column} /\ PlainColumns(c) = {o.column}
           /\ FindFuncCalls(c) = {SessionTerm(o)} /\ SessionTerm(o) \in GeneratedCalls
           /\ RangeVars(c) = {}
<1> DEFINE c == SessionPredicate(o)
           a == GeneratedAtom(o)
<1>1. c = {{a}} /\ a.op = "=" /\ a.l = Col(o.column) /\ a.r = Select(SessionTerm(o))
  BY DEF SessionPredicate, One, GeneratedAtom, Eq, Atom
<1> HIDE DEF c, a
<1>2. AtomsOf(c) = {a}
  BY <1>1 DEF AtomsOf
<1>3. Plain(c) = {a}
  BY <1>1, <1>2 DEF Plain
<1>4. c # Absent /\ ~IsLiteralTrue(c) /\ ~IsLiteralFalse(c) /\ ~HasTrueDisjunct(c)
  <2>1. a # Yes /\ a # No
    BY <1>1 DEF Yes, No, Atom
  <2> QED
    BY <1>1, <2>1 DEF Absent, IsLiteralTrue, IsLiteralFalse, HasTrueDisjunct, One
<1>5. OperandsOf(c) = {Col(o.column), Select(SessionTerm(o))}
  BY <1>1, <1>2 DEF OperandsOf
<1>6. OperandsOf({Plain(c)}) = OperandsOf(c)
  BY <1>2, <1>3 DEF OperandsOf, AtomsOf
<1>7. /\ Col(o.column).is = "column" /\ Col(o.column).of = o.column
      /\ Select(SessionTerm(o)).is = "select" /\ Select(SessionTerm(o)).of = SessionTerm(o)
  BY DEF Col, Select, Operand
<1>8. OwnColumns(c) = {o.column} /\ PlainColumns(c) = {o.column}
  BY <1>5, <1>6, <1>7 DEF OwnColumns, PlainColumns
<1>9. FindFuncCalls(c) = {SessionTerm(o)}
  BY <1>5, <1>7 DEF FindFuncCalls, CallsOf, Functions
<1>10. RangeVars(c) = {}
  BY <1>5, <1>7 DEF RangeVars
<1>11. SessionTerm(o) \in GeneratedCalls
  BY DEF SessionTerm, GeneratedCalls
<1> QED
  BY <1>1, <1>2, <1>3, <1>4, <1>5, <1>6, <1>8, <1>9, <1>10, <1>11 DEF c, a

\* What `generate` makes of a table, and of the tables T of a schema.
Scaffolded(u, o) ==
    /\ u.rls /\ u.force /\ o.column \in u.columns /\ u.policies # <<>>
    /\ DOMAIN u.policies = {"isolation"} \cup (IF o.restrictive THEN {"floor"} ELSE {})
    /\ \A n \in DOMAIN u.policies : u.policies[n] = Isolation(o, n = "isolation")
    /\ HasLeadingIndex(u, o.column)
Generated(e, T, o) == T \subseteq DOMAIN e.tables /\ \A t \in T : Scaffolded(e.tables[t], o)

\* A table that is scaffolded is.
LEMMA TableScaffolded ==
    ASSUME NEW t, IsTable(t), NEW o \in Options, o.column \in t.columns
    PROVE  Scaffolded(StatementsForTable(t, o), o)
<1> DEFINE ps == [n \in {"isolation"} \cup (IF o.restrictive THEN {"floor"} ELSE {}) |->
                     Isolation(o, n = "isolation")]
           i == [name |-> o.column, columns |-> <<o.column>>, unique |-> FALSE, primary |-> FALSE]
           u == StatementsForTable(t, o)
<1>1. DOMAIN ps = {"isolation"} \cup (IF o.restrictive THEN {"floor"} ELSE {})
      /\ \A n \in DOMAIN ps : ps[n] = Isolation(o, n = "isolation")
  OBVIOUS
<1>2. i.columns = <<o.column>> /\ Head(i.columns) = o.column /\ i.columns # <<>>
  OBVIOUS
<1> HIDE DEF ps, i
<1>3. u = [t EXCEPT !.rls = TRUE, !.force = TRUE, !.policies = ps, !.indexes = @ \cup {i}]
  BY DEF StatementsForTable, ps, i
<1>4. u.rls /\ u.force /\ u.columns = t.columns /\ u.policies = ps /\ i \in u.indexes
  BY <1>3 DEF IsTable
<1> HIDE DEF u
<1>5. ps # <<>>
  <2>1. "isolation" \in DOMAIN ps
    BY <1>1
  <2>2. DOMAIN <<>> = {}
    OBVIOUS
  <2> QED
    BY <2>1, <2>2
<1>6. HasLeadingIndex(u, o.column)
  BY <1>2, <1>4 DEF HasLeadingIndex
<1> QED
  BY <1>1, <1>4, <1>5, <1>6 DEF Scaffolded, u

\* A policy that scopes rows by the caller's tenant.
Isolates(p, o) == /\ p.cmd = "ALL" /\ p.roles = {"authenticated"}
                  /\ p.using = SessionPredicate(o) /\ p.check = SessionPredicate(o)

\* Every policy of a scaffolded table does, and one of them is permissive.
LEMMA ScaffoldedPolicies ==
    ASSUME NEW u, NEW o, Scaffolded(u, o)
    PROVE  /\ \A n \in DOMAIN u.policies : /\ n \in {"isolation", "floor"}
                                           /\ Isolates(u.policies[n], o)
                                           /\ u.policies[n].permissive = (n = "isolation")
           /\ \A p \in PoliciesOf(u) : Isolates(p, o)
           /\ \E p \in PoliciesOf(u) : p.permissive
           /\ o.restrictive => \E p \in PoliciesOf(u) : ~p.permissive
<1>1. \A x \in BOOLEAN : Isolates(Isolation(o, x), o) /\ Isolation(o, x).permissive = x
  BY DEF Isolates, Isolation
<1>2. \A n : (n = "isolation") \in BOOLEAN
  OBVIOUS
<1>3. \A n \in DOMAIN u.policies : /\ n \in {"isolation", "floor"}
                                   /\ Isolates(u.policies[n], o)
                                   /\ u.policies[n].permissive = (n = "isolation")
  BY <1>1, <1>2 DEF Scaffolded
<1>4. "isolation" \in DOMAIN u.policies /\ (o.restrictive => "floor" \in DOMAIN u.policies)
  BY DEF Scaffolded
<1>5. \E p \in PoliciesOf(u) : p.permissive
  BY <1>3, <1>4 DEF PoliciesOf
<1>6. o.restrictive => \E p \in PoliciesOf(u) : ~p.permissive
  BY <1>3, <1>4 DEF PoliciesOf
<1> QED
  BY <1>3, <1>5, <1>6 DEF PoliciesOf

\* The policies of generated tables.
LEMMA GeneratedPolicies ==
    ASSUME NEW e, NEW T, NEW o, Generated(e, T, o), NEW id \in PolicyIds(e), Head(id) \in T
    PROVE  /\ id[1] \in T /\ id[2] \in {"isolation", "floor"} /\ id = <<id[1], id[2]>>
           /\ Isolates(PolicyAt(e, id), o)
           /\ PolicyAt(e, id).permissive = (id[2] = "isolation")
           /\ Scaffolded(e.tables[id[1]], o)
<1>1. PICK t \in DOMAIN e.tables : \E n \in DOMAIN e.tables[t].policies : id = <<t, n>>
  BY DEF PolicyIds
<1>2. PICK n \in DOMAIN e.tables[t].policies : id = <<t, n>>
  BY <1>1
<1>3. Head(id) = t /\ id[1] = t /\ id[2] = n
  BY <1>2
<1>4. Scaffolded(e.tables[t], o)
  BY <1>3 DEF Generated
<1>5. n \in {"isolation", "floor"} /\ Isolates(e.tables[t].policies[n], o)
      /\ e.tables[t].policies[n].permissive = (n = "isolation")
  BY <1>4, ScaffoldedPolicies
<1> QED
  BY <1>2, <1>3, <1>4, <1>5 DEF PolicyAt

\* A rule that finds nothing at the tables T.
Silent(S, T) == \A at \in S : Head(at) \notin T

\* The prover finds no session without an identity that reads every row of an
\* isolated table: none reads the row whose column is NULL.
LEMMA IsolationIsNoOpenRead ==
    ASSUME NEW o
    PROVE  ~AnonReadCounterexample(SessionPredicate(o))
<1> DEFINE c == SessionPredicate(o)
           a == GeneratedAtom(o)
           session == AnonSession(FALSE, NotSet)
           w == [x \in Variables(c) |-> [v |-> "anon", n |-> TRUE]]
<1>1. c = {{a}} /\ OperandsOf(c) = {Col(o.column), Select(SessionTerm(o))}
  BY GeneratedPredicate
<1>2. a.op = "=" /\ a.l = Col(o.column) /\ Col(o.column).is = "column"
  BY DEF GeneratedAtom, Eq, Atom, Col, Operand
<1> HIDE DEF a
<1>3. Col(o.column) \in Variables(c)
  <2>1. \A x : Unwrapped(x) = IF x.is = "select" THEN Call(x.of) ELSE x
    BY DEF Unwrapped
  <2> QED
    BY <1>1, <1>2, <2>1 DEF Variables
<1> HIDE DEF c
<1>4. w \in Worlds(c)
  BY ProofAssumption DEF Worlds
<1>5. w[Col(o.column)] = [v |-> "anon", n |-> TRUE]
  BY <1>3
<1> HIDE DEF w, session
<1>6. Encoded(Col(o.column), w, session) = Value("anon", TRUE, FALSE)
  BY <1>2, <1>5 DEF Encoded
<1>7. ~IsTrue(a, w, session)
  <2>1. Value("anon", TRUE, FALSE).n = TRUE
    BY DEF Value
  <2> DEFINE r == Encoded(a.r, w, session)
  <2> HIDE DEF r
  <2>2. ~Comparison("=", Value("anon", TRUE, FALSE), r)
    BY <2>1 DEF Comparison
  <2> QED
    BY <1>2, <1>6, <2>2 DEF IsTrue, r
<1>8. ~Passes(c, w, session)
  BY <1>1, <1>7 DEF Passes, c
<1>9. \E x \in Worlds(c) : ~Passes(c, x, session)
  BY <1>4, <1>8
<1> HIDE DEF c, session
<1>10. ProveAnonSession(c, session) # "total"
  BY <1>9 DEF ProveAnonSession
<1> QED
  BY <1>10 DEF AnonReadCounterexample, c, session

\* The rules of policies find nothing at the policies that `generate` writes.
LEMMA PolicyRulesSilent ==
    ASSUME NEW e, NEW T, NEW o, Generated(e, T, o)
    PROVE  /\ Silent(SEC003(e), T) /\ Silent(SEC004(e), T) /\ Silent(SEC005(e), T) /\ Silent(SEC006(e), T)
           /\ Silent(SEC008(e), T) /\ Silent(SEC010(e), T) /\ Silent(SEC011(e), T) /\ Silent(SEC018(e), T)
           /\ Silent(SEC019(e), T) /\ Silent(SEC020(e), T) /\ Silent(SEC021(e), T) /\ Silent(SEC024(e), T)
           /\ Silent(SEC025(e), T) /\ Silent(SEC026(e), T) /\ Silent(SEC028(e), T) /\ Silent(SEC031(e), T)
           /\ Silent(SEC033(e), T) /\ Silent(SEC034(e), T) /\ Silent(SEC036(e), T) /\ Silent(SEC037(e), T)
           /\ Silent(SEC038(e), T) /\ Silent(SEC039(e), T) /\ Silent(SEC040(e), T)
           /\ o.strict => Silent(SEC055(e), T)
           /\ Silent(HYG001(e), T) /\ Silent(HYG002(e), T)
           /\ Silent(PERF001(e), T) /\ Silent(PERF002(e), T) /\ Silent(PERF003(e), T) /\ Silent(PERF004(e), T)
<1> DEFINE c == SessionPredicate(o)
           a == GeneratedAtom(o)
           f == SessionTerm(o)
           G == {id \in PolicyIds(e) : Head(id) \in T}
           P(id) == PolicyAt(e, id)
<1>1. \A id \in G : /\ P(id).cmd = "ALL" /\ P(id).roles = {"authenticated"}
                    /\ P(id).using = c /\ P(id).check = c
                    /\ o.column \in e.tables[id[1]].columns /\ id[2] \in {"isolation", "floor"}
                    /\ HasLeadingIndex(e.tables[id[1]], o.column)
  BY GeneratedPolicies DEF Isolates, Scaffolded
<1>2. \A S : (\A at \in S : at \in PolicyIds(e)) /\ (\A id \in G : id \notin S) => Silent(S, T)
  BY DEF Silent
<1>3. /\ c = {{a}} /\ AtomsOf(c) = {a} /\ Plain(c) = {a}
      /\ c # Absent /\ ~IsLiteralTrue(c) /\ ~IsLiteralFalse(c) /\ ~HasTrueDisjunct(c)
      /\ OperandsOf(c) = {a.l, a.r} /\ OperandsOf({Plain(c)}) = {a.l, a.r}
      /\ OwnColumns(c) = {o.column} /\ PlainColumns(c) = {o.column}
      /\ FindFuncCalls(c) = {f} /\ f \in GeneratedCalls /\ RangeVars(c) = {}
  BY GeneratedPredicate DEF GeneratedAtom, Eq, Atom
<1>4. /\ a.op = "=" /\ a.l.is = "column" /\ a.l.of = o.column
      /\ a.r.is = "select" /\ a.r.of = f
      /\ \A s \in Sides(a) : (s[1] = a.l /\ s[2] = a.r) \/ (s[1] = a.r /\ s[2] = a.l)
  BY DEF GeneratedAtom, Eq, Atom, Col, Select, Operand, Sides
<1>5. \A id \in G : Calls(P(id)) = {f}
  BY <1>1, <1>3 DEF Calls
<1>5a. \A id \in G : PlainColumns(P(id).using) \cup PlainColumns(P(id).check) = {o.column}
  BY <1>1, <1>3
<1> HIDE DEF c, a, f, G
<1>6. Silent(SEC003(e), T) /\ Silent(SEC006(e), T) /\ Silent(SEC008(e), T)
  <2>1. Silent(SEC003(e), T)
    <3>1. \A id \in SEC003(e) : id \in PolicyIds(e) /\ "PUBLIC" \in P(id).roles
      BY DEF PerPolicy, SEC003, Public
    <3> QED
      BY <1>1, <1>2, <3>1
  <2>2. Silent(SEC006(e), T)
    BY <1>1, <1>2, <1>3 DEF PerPolicy, SEC006
  <2>3. Silent(SEC008(e), T)
    BY <1>1, <1>2, <1>3 DEF PerPolicy, SEC008
  <2> QED
    BY <2>1, <2>2, <2>3
<1>7. Silent(SEC004(e), T)
  BY <1>1, <1>2, <1>3, <1>4 DEF PerPolicy, InClause, SEC004, InvertedAuth, DisjunctAtoms
<1>8. Silent(SEC005(e), T) /\ Silent(SEC010(e), T) /\ Silent(SEC011(e), T)
  BY <1>1, <1>2, <1>3 DEF PerPolicy, InClause, SEC005, SEC010, SEC011
<1>9. Silent(SEC018(e), T)
  <2>1. \A t : ~ComparesRole(t, c)
    BY <1>3, <1>4 DEF ComparesRole
  <2>2. \A id \in SEC018(e) : /\ id \in PolicyIds(e)
                              /\ \E t : ComparesRole(t, P(id).using) \/ ComparesRole(t, P(id).check)
    BY DEF PerPolicy, InClause, SEC018
  <2> QED
    BY <1>1, <1>2, <2>1, <2>2
<1>10. Silent(SEC019(e), T) /\ Silent(SEC024(e), T) /\ Silent(SEC034(e), T)
  BY <1>1, <1>2, <1>3, <1>5 DEF PerPolicy, SEC019, SEC024, SEC034, GeneratedCalls
<1>11. Silent(SEC020(e), T) /\ Silent(SEC028(e), T) /\ Silent(SEC031(e), T)
  BY <1>1, <1>2, <1>3 DEF PerPolicy, SEC020, SEC028, SEC031
<1>12. Silent(SEC021(e), T)
  <2> DEFINE Named(x) == \E k \in AtomsOf(x) : \E s \in Sides(k) : s[1].is \in {"column", "inner"} /\ s[2].is = "literal"
  <2>1. ~Named(c)
    BY <1>3, <1>4
  <2>2. \A id \in SEC021(e) : id \in PolicyIds(e) /\ (Named(P(id).using) \/ Named(P(id).check))
    BY DEF PerPolicy, InClause, SEC021
  <2> HIDE DEF Named
  <2> QED
    BY <1>1, <1>2, <2>1, <2>2
<1>13. Silent(SEC025(e), T)
  BY <1>1, <1>2, <1>3 DEF SEC025
<1>14. Silent(SEC026(e), T) /\ Silent(SEC036(e), T)
  BY <1>1, <1>2, <1>3, <1>4 DEF PerPolicy, InClause, SEC026, SEC036, PatternOnAuth
<1>15. Silent(SEC033(e), T) /\ Silent(PERF002(e), T)
  BY <1>1, <1>2, <1>3, <1>5, GenerateAssumption DEF PerPolicy, SEC033, PERF002, GeneratedCalls
<1>16. Silent(SEC037(e), T)
  <2>1. a.l # Call("auth.role") /\ a.r # Call("auth.role")
    BY <1>4 DEF Call, Operand
  <2> QED
    BY <1>1, <1>2, <1>3, <1>4, <2>1 DEF PerPolicy, InClause, SEC037, UnknownRole
<1>17. Silent(SEC038(e), T)
  <2>1. ~AnonReadCounterexample(c)
    BY IsolationIsNoOpenRead DEF c
  <2> QED
    BY <1>1, <1>2, <2>1 DEF PerPolicy, SEC038
<1>18. Silent(SEC039(e), T) /\ Silent(SEC040(e), T)
  <2>1. \A id \in SEC039(e) : id \in PolicyIds(e) /\ "anon" \in P(id).roles
    BY DEF PerPolicy, SEC039
  <2>2. \A id \in SEC040(e) : /\ id \in PolicyIds(e)
                              /\ ScopingColumns(e.tables[id[1]], P(id).using, TRUE)
                                 # ScopingColumns(e.tables[id[1]], P(id).check, TRUE)
    BY DEF PerPolicy, SEC040
  <2>3. \A id \in G : P(id).using = P(id).check
    BY <1>1
  <2>4. \A id \in G : id \notin SEC040(e)
    BY <2>2, <2>3
  <2>5. \A id \in G : id \notin SEC039(e)
    BY <1>1, <2>1
  <2> QED
    BY <1>2, <2>1, <2>2, <2>4, <2>5
<1>19. ASSUME o.strict PROVE Silent(SEC055(e), T)
  <2>1. f = "require_tenant"
    BY <1>19 DEF SessionTerm, f
  <2>2. SEC055(e) \subseteq {id \in PolicyIds(e) : {"setting", "setting_plain"} \cap Calls(P(id)) # {}}
    BY DEF SEC055, PerPolicy
  <2> QED
    BY <1>2, <1>5, <2>1, <2>2
<1>20. Silent(HYG001(e), T)
  BY <1>1, <1>2, <1>5a DEF PerPolicy, HYG001
<1>21. Silent(HYG002(e), T)
  BY <1>1, <1>2, GenerateAssumption DEF HYG002
<1>22. Silent(PERF001(e), T)
  BY <1>1, <1>2, <1>3, <1>4 DEF PerPolicy, InClause, PERF001, PerRowCall, CallsAuth, Functions
<1>23. Silent(PERF003(e), T)
  BY <1>1, <1>2, <1>5a DEF PerPolicy, PERF003
<1>24. Silent(PERF004(e), T)
  <2>1. Wrapped(c) = {}
    BY <1>3, <1>4 DEF Wrapped
  <2> QED
    BY <1>1, <1>2, <2>1 DEF PerPolicy, PERF004
<1> QED
  BY <1>6, <1>7, <1>8, <1>9, <1>10, <1>11, <1>12, <1>13, <1>14, <1>15, <1>16, <1>17, <1>18, <1>19,
     <1>20, <1>21, <1>22, <1>23, <1>24

\* The rules of tables find nothing at the tables themselves.
LEMMA TableRulesSilent ==
    ASSUME NEW e, NEW T, NEW o, Generated(e, T, o)
    PROVE  /\ Silent(SEC001(e), T) /\ Silent(SEC002(e), T) /\ (o.restrictive => Silent(SEC007(e), T))
           /\ Silent(SEC009(e), T) /\ Silent(SEC012(e), T) /\ Silent(SEC022(e), T)
           /\ Silent(SEC032(e), T) /\ Silent(SEC041(e), T) /\ Silent(SEC043(e), T)
           /\ Silent(SEC049(e), T) /\ Silent(SEC051(e), T) /\ Silent(HYG003(e, PolicyNames), T)
<1>1. \A t \in T : LET u == e.tables[t] IN
          /\ t \in DOMAIN e.tables /\ u.rls /\ u.force /\ u.policies # <<>>
          /\ \A p \in PoliciesOf(u) : Isolates(p, o)
          /\ \E p \in PoliciesOf(u) : p.permissive
          /\ o.restrictive => \E p \in PoliciesOf(u) : ~p.permissive
  BY ScaffoldedPolicies DEF Generated, Scaffolded
<1>2. \A S : (\A at \in S : at = <<at[1]>> /\ at[1] \notin T) => Silent(S, T)
  <2>1. \A at : at = <<at[1]>> => Head(at) = at[1]
    OBVIOUS
  <2> QED
    BY <2>1 DEF Silent
<1>3. ~IsLiteralTrue(SessionPredicate(o))
  BY GeneratedPredicate
<1>4. Silent(SEC001(e), T) /\ Silent(SEC002(e), T) /\ Silent(SEC009(e), T) /\ Silent(SEC032(e), T)
  BY <1>1, <1>2 DEF PerTable, SEC001, SEC002, SEC009, SEC032
<1>5. Silent(SEC041(e), T) /\ Silent(SEC043(e), T) /\ Silent(SEC051(e), T)
  BY <1>1, <1>2 DEF PerTable, SEC041, SEC043, SEC051
<1>6. (o.restrictive => Silent(SEC007(e), T)) /\ Silent(SEC012(e), T)
  BY <1>1, <1>2 DEF PerTable, SEC007, SEC012
<1>7. Silent(SEC022(e), T)
  <2>1. \A t \in T : \E p \in PoliciesOf(e.tables[t]) : p.cmd = "ALL"
    BY <1>1 DEF Isolates
  <2>2. \A at \in SEC022(e) : \E n : /\ at = <<n>>
                                     /\ \A p \in PoliciesOf(e.tables[n]) : p.cmd # "ALL"
    BY DEF PerTable, SEC022, WriteCommands
  <2>3. \A at \in SEC022(e) : at = <<at[1]>> /\ at[1] \notin T
    BY <2>1, <2>2
  <2> QED
    BY <1>2, <2>3
<1>8. Silent(SEC049(e), T)
  <2>1. \A t \in T : \A r : ~UnrestrictedFor(e.tables[t], r)
    BY <1>1, <1>3 DEF UnrestrictedFor, Isolates
  <2>2. \A at \in SEC049(e) : \E n : at = <<n>> /\ \E r : UnrestrictedFor(e.tables[n], r)
    BY DEF PerTable, SEC049
  <2>3. \A at \in SEC049(e) : at = <<at[1]>> /\ at[1] \notin T
    BY <2>1, <2>2
  <2> QED
    BY <1>2, <2>3
<1>9. Silent(HYG003(e, PolicyNames), T)
  <2> SUFFICES ASSUME NEW id \in HYG003(e, PolicyNames), Head(id) \in T PROVE FALSE
    BY DEF Silent
  <2>1. id \in PolicyIds(e)
    BY DEF HYG003
  <2>2. PICK i \in DOMAIN PolicyNames, j \in DOMAIN PolicyNames :
            /\ i < j /\ PolicyNames[j] = id[2] /\ PolicyNames[i] \in DOMAIN e.tables[id[1]].policies
            /\ PolicyAt(e, <<id[1], PolicyNames[i]>>) = PolicyAt(e, id)
    BY DEF HYG003
  <2>3. /\ id[1] \in T /\ id[2] \in {"isolation", "floor"}
        /\ PolicyAt(e, id).permissive = (id[2] = "isolation")
        /\ Scaffolded(e.tables[id[1]], o)
    BY <2>1, GeneratedPolicies
  <2>4. PolicyAt(e, <<id[1], PolicyNames[i]>>) = e.tables[id[1]].policies[PolicyNames[i]]
    BY DEF PolicyAt
  <2>5. /\ PolicyNames[i] \in {"isolation", "floor"}
        /\ e.tables[id[1]].policies[PolicyNames[i]].permissive = (PolicyNames[i] = "isolation")
    BY <2>2, <2>3, ScaffoldedPolicies
  <2>6. (PolicyNames[i] = "isolation") <=> (id[2] = "isolation")
    BY <2>2, <2>3, <2>4, <2>5
  <2>7. PolicyNames[i] = PolicyNames[j]
    BY <2>2, <2>3, <2>5, <2>6
  <2>8. i = j
    BY <2>7, PolicyNamesAssumption
  <2>9. i \in Nat /\ j \in Nat
    BY PolicyNamesAssumption
  <2> QED
    BY <2>2, <2>8, <2>9
<1> QED
  BY <1>4, <1>5, <1>6, <1>7, <1>8, <1>9

\* And those of views are at views, whose names are no table's.
LEMMA ViewRulesSilent ==
    ASSUME NEW e, IsSchema(e), NEW T \in SUBSET DOMAIN e.tables
    PROVE  /\ Silent(VIEW001(e), T) /\ Silent(VIEW002(e), T) /\ Silent(VIEW003(e), T)
           /\ Silent(VIEW004(e), T) /\ Silent(SEC052(e), T) /\ Silent(SEC054(e), T)
<1>1. \A w \in DOMAIN e.views : w \notin T
  BY DEF IsSchema
<1>2. \A S : (\A at \in S : at = <<at[1]>> /\ at[1] \in DOMAIN e.views) => Silent(S, T)
  <2>1. \A at : at = <<at[1]>> => Head(at) = at[1]
    OBVIOUS
  <2> QED
    BY <1>1, <2>1 DEF Silent
<1> QED
  BY <1>2 DEF PerView, VIEW001, VIEW002, VIEW003, VIEW004, SEC052, SEC054

\* A finding is one of a rule of the registry.
LEMMA FindingOfRule ==
    ASSUME NEW d, NEW c, NEW f \in RunRules(d, c)
    PROVE  f.rule \in DOMAIN Registry(d, c) /\ f.at \in Registry(d, c)[f.rule]
<1>1. PICK r \in Selected(c, DOMAIN Registry(d, c)) :
          \E at \in Registry(d, c)[r] : ~Allowed(c, r, at) /\ f = FindingAt(d, c, r, at)
  BY RunRulesAre
<1>2. PICK at \in Registry(d, c)[r] : f = FindingAt(d, c, r, at)
  BY <1>1
<1>3. f.rule = r /\ f.at = at
  BY <1>2 DEF FindingAt
<1>4. r \in DOMAIN Registry(d, c)
  BY DEF Selected
<1> QED
  BY <1>2, <1>3, <1>4

\* What lint finds at the tables that `generate` scaffolded stood there before,
\* or is not about tables.
LEMMA GeneratedFindings ==
    ASSUME NEW e, NEW T, NEW o, NEW c, NEW f \in RunRules(e, c),
           IsSchema(e), Generated(e, T, o), Head(f.at) \in T
    PROVE  f.rule \in ElsewhereRules \cup Standing(o)
<1> DEFINE r == f.rule
           a == f.at
<1>1. r \in DOMAIN Registry(e, c) /\ a \in Registry(e, c)[r]
  BY FindingOfRule
<1>2. \A x : Silent(x, T) => a \notin x
  BY DEF Silent
<1>3. T \in SUBSET DOMAIN e.tables
  BY DEF Generated
<1>4. /\ a \notin SEC003(e) /\ a \notin SEC004(e) /\ a \notin SEC005(e) /\ a \notin SEC006(e)
      /\ a \notin SEC008(e) /\ a \notin SEC010(e) /\ a \notin SEC011(e) /\ a \notin SEC018(e)
      /\ a \notin SEC019(e) /\ a \notin SEC020(e) /\ a \notin SEC021(e) /\ a \notin SEC024(e)
      /\ a \notin SEC025(e) /\ a \notin SEC026(e) /\ a \notin SEC028(e) /\ a \notin SEC031(e)
      /\ a \notin SEC033(e) /\ a \notin SEC034(e) /\ a \notin SEC036(e) /\ a \notin SEC037(e)
      /\ a \notin SEC038(e) /\ a \notin SEC039(e) /\ a \notin SEC040(e)
      /\ (o.strict => a \notin SEC055(e))
      /\ a \notin HYG001(e) /\ a \notin HYG002(e)
      /\ a \notin PERF001(e) /\ a \notin PERF002(e) /\ a \notin PERF003(e) /\ a \notin PERF004(e)
  BY <1>2, PolicyRulesSilent
<1>5. /\ a \notin SEC001(e) /\ a \notin SEC002(e) /\ (o.restrictive => a \notin SEC007(e))
      /\ a \notin SEC009(e) /\ a \notin SEC012(e) /\ a \notin SEC022(e)
      /\ a \notin SEC032(e) /\ a \notin SEC041(e) /\ a \notin SEC043(e)
      /\ a \notin SEC049(e) /\ a \notin SEC051(e) /\ a \notin HYG003(e, PolicyNames)
  BY <1>2, TableRulesSilent
<1>6. /\ a \notin VIEW001(e) /\ a \notin VIEW002(e) /\ a \notin VIEW003(e)
      /\ a \notin VIEW004(e) /\ a \notin SEC052(e) /\ a \notin SEC054(e)
  BY <1>2, <1>3, ViewRulesSilent
<1> DEFINE A == {"SEC003", "SEC004", "SEC005", "SEC006", "SEC008", "SEC010", "SEC011", "SEC018",
                 "SEC019", "SEC020", "SEC021", "SEC024", "SEC025", "SEC026", "SEC028", "SEC031",
                 "SEC033", "SEC034", "SEC036", "SEC037", "SEC038", "SEC039", "SEC040", "HYG001",
                 "HYG002", "PERF001", "PERF002", "PERF003", "PERF004"}
           B == {"SEC001", "SEC002", "SEC009", "SEC012", "SEC022", "SEC032", "SEC041", "SEC043",
                 "SEC049", "SEC051", "HYG003", "VIEW001", "VIEW002", "VIEW003", "VIEW004", "SEC052",
                 "SEC054"}
<1> HIDE DEF r, a
<1>7. \/ r \in A \cup B \cup ElsewhereRules \cup Standing(o)
      \/ (r = "SEC055" /\ o.strict) \/ (r = "SEC007" /\ o.restrictive)
  <2>1. DOMAIN Registry(e, c) \subseteq A \cup B \cup ElsewhereRules
            \cup {"SEC013", "SEC023", "SEC027", "SEC030", "SEC035", "SEC045", "SEC046", "SEC047",
                  "SEC050", "HYG004", "PERF005", "SEC055", "SEC007"}
    BY DEF Registry, ElsewhereRules
  <2> HIDE DEF A, B
  <2> QED
    BY <1>1, <2>1 DEF Standing
<1>8. r \notin A
  BY <1>1, <1>4 DEF Registry
<1>9. r \notin B
  BY <1>1, <1>5, <1>6 DEF Registry
<1>10. /\ ~(r = "SEC055" /\ o.strict)
       /\ ~(r = "SEC007" /\ o.restrictive)
  BY <1>1, <1>4, <1>5 DEF Registry
<1> QED
  BY <1>7, <1>8, <1>9, <1>10 DEF r

\* A row that passes what `generate` writes has the value that the session has.
LEMMA IsolatedRow ==
    ASSUME NEW o, NEW s, NEW r, Admits(SessionPredicate(o), s, r)
    PROVE  r[o.column] = s[SessionTerm(o)]
<1> DEFINE a == GeneratedAtom(o)
<1>1. PICK d \in SessionPredicate(o) : \A b \in d : Truth(b, s, r) = "T"
  BY DEF Admits
<1>2. Truth(a, s, r) = "T"
  <2>1. SessionPredicate(o) = {{a}}
    BY GeneratedPredicate
  <2> HIDE DEF a
  <2> QED
    BY <1>1, <2>1
<1>3. a.op = "=" /\ a.l = Col(o.column) /\ a.r = Select(SessionTerm(o))
  BY DEF GeneratedAtom, Eq, Atom
<1> HIDE DEF a
<1>4. Val(a.l, s, r) = r[o.column]
  BY <1>3 DEF Val, Col, Operand
<1>5. Val(a.r, s, r) = s[SessionTerm(o)]
  <2>1. a.r.is = "select" /\ a.r.of = SessionTerm(o)
    BY <1>3 DEF Select, Operand
  <2>2. SessionTerm(o) # "setting_strict"
    BY DEF SessionTerm
  <2> QED
    BY <2>1, <2>2 DEF Val, Read
<1> QED
  BY <1>2, <1>3, <1>4, <1>5 DEF Truth

\* Row security of a scaffolded table lets a session have its own rows only.
LEMMA ScaffoldedAccess ==
    ASSUME NEW e, NEW t, NEW o, NEW role, NEW cmd, NEW s, NEW r,
           Scaffolded(e.tables[t], o), ~HasBypass(e, role), MayTouch(e, t, role, cmd, s, r)
    PROVE  r[o.column] = s[SessionTerm(o)]
<1> DEFINE u == e.tables[t]
<1>1. u.rls /\ \A p \in PoliciesOf(u) : Isolates(p, o)
  BY ScaffoldedPolicies DEF Scaffolded
<1> HIDE DEF u
<1>2. PICK p \in PoliciesOf(u) : Admits(Gate(p, cmd), s, r)
  BY <1>1 DEF MayTouch, u
<1>3. Gate(p, cmd) = SessionPredicate(o)
  BY <1>1 DEF Gate, Isolates
<1> QED
  BY <1>2, <1>3, IsolatedRow

\* What a step of `generate` leaves behind.
LEMMA AfterGenerate ==
    ASSUME IsSchema(db), NEW o \in Options, Generate(o)
    PROVE  Generated(db', last'.tables, o) /\ last'.option = o
<1> DEFINE T == Targets(db, o)
           tables == [t \in DOMAIN db.tables |->
                         IF t \in T THEN StatementsForTable(db.tables[t], o) ELSE db.tables[t]]
<1>1. db' = [db EXCEPT !.tables = tables] /\ last'.tables = T /\ last'.option = o
  BY DEF Generate
<1>2. db'.tables = tables
  BY <1>1 DEF IsSchema
<1>3. T \subseteq DOMAIN db.tables /\ \A t \in T : o.column \in db.tables[t].columns
  BY DEF Targets
<1>4. \A t \in T : IsTable(db.tables[t])
  BY <1>3 DEF IsSchema, IsNamed
<1>5. \A t \in T : db'.tables[t] = StatementsForTable(db.tables[t], o)
  BY <1>2, <1>3
<1>6. \A t \in T : Scaffolded(db'.tables[t], o)
  BY <1>3, <1>4, <1>5, TableScaffolded
<1> QED
  BY <1>1, <1>2, <1>3, <1>6 DEF Generated

\* The last step of lint, by the step that set it: only Generate generates.
LEMMA GeneratedByGenerate ==
    ASSUME [Next]_vars, last'.op = "generated"
    PROVE  (\E o \in Options : Generate(o)) \/ UNCHANGED vars
<1>1. ASSUME NEW d, Edited(d) PROVE FALSE
  BY <1>1 DEF Edited, Idle
<1>2. ~LintRun
  BY DEF LintRun
<1>3. ASSUME NEW v, LintSnapshot(v) PROVE last'.op = "snapshot"
  BY <1>3 DEF LintSnapshot
<1>4. ~UpdateBaseline /\ \A f : ~Allow(f)
  BY DEF UpdateBaseline, Allow, Idle
<1> QED
  BY <1>1, <1>2, <1>3, <1>4 DEF Next, SetRls, SetForce, CreatePolicy, AlterPolicyRoles, DropPolicy, Grant,
                    GrantColumn, CreateView, CreateFunction

\* The tables of the last `generate` are as it left them.
LastGenerated == last.op = "generated" => Generated(db, last.tables, last.option)

\* The tables `pgrls generate` scaffolds lint clean, whatever schema they stand
\* in: a finding at one of them is of a rule that looks at what generation does
\* not touch (Standing) or at objects of other kinds.  And no request reads or
\* inserts a row of such a table that has not the value its session has for the
\* tenant, roles that bypass row security aside.
THEOREM ScaffoldedTablesLintClean == Spec => []GeneratedLintsClean
<1>1. Init => LastGenerated
  BY DEF Init, Idle, LastGenerated
<1>2. ASSUME TypeOK, LastGenerated, [Next]_vars PROVE LastGenerated'
  <2>1. CASE last'.op # "generated"
    BY <2>1 DEF LastGenerated
  <2>2. CASE UNCHANGED vars
    BY <1>2, <2>2 DEF LastGenerated, vars
  <2>3. ASSUME NEW o \in Options, Generate(o) PROVE LastGenerated'
    <3>1. Generated(db', last'.tables, o) /\ last'.option = o
      BY <1>2, <2>3, AfterGenerate DEF TypeOK
    <3> QED
      BY <3>1 DEF LastGenerated
  <2> QED
    BY <1>2, <2>1, <2>2, <2>3, GeneratedByGenerate
<1>3. ASSUME TypeOK, LastGenerated PROVE GeneratedLintsClean
  <2> SUFFICES ASSUME last.op = "generated"
      PROVE  /\ \A f \in RunRules(db, Unlisted) :
                    Head(f.at) \in last.tables => f.rule \in ElsewhereRules \cup Standing(last.option)
             /\ \A t \in last.tables, role \in {"anon", "authenticated"}, by \in {"SELECT", "INSERT"} :
                   HasBypass(db, role) \/
                   \A uid \in {Null, "A"}, tenant \in {Null, "A", "B"} :
                       LET s == Session(role, uid, tenant) IN
                       \A r \in Through(db, by, t, role, s) :
                           r[last.option.column] = s[SessionTerm(last.option)]
    BY DEF GeneratedLintsClean
  <2>1. IsSchema(db) /\ Generated(db, last.tables, last.option)
    BY <1>3 DEF TypeOK, LastGenerated
  <2>2. ASSUME NEW f \in RunRules(db, Unlisted), Head(f.at) \in last.tables
        PROVE  f.rule \in ElsewhereRules \cup Standing(last.option)
    BY <2>1, <2>2, GeneratedFindings
  <2>3. ASSUME NEW t \in last.tables, NEW role, NEW by \in {"SELECT", "INSERT"}, NEW s,
               NEW r \in Through(db, by, t, role, s), ~HasBypass(db, role)
        PROVE  r[last.option.column] = s[SessionTerm(last.option)]
    <3>1. MayTouch(db, t, role, by, s, r)
      BY DEF Through
    <3>2. Scaffolded(db.tables[t], last.option)
      BY <2>1 DEF Generated
    <3> DEFINE o == last.option
    <3>3. Scaffolded(db.tables[t], o)
      BY <3>2
    <3> HIDE DEF o
    <3>4. r[o.column] = s[SessionTerm(o)]
      BY <2>3, <3>1, <3>3, ScaffoldedAccess
    <3> QED
      BY <3>4 DEF o
  <2> QED
    BY <2>2, <2>3
<1> QED
  BY <1>1, <1>2, <1>3, SchemasStaySchemas, PTL DEF Spec
===============================================================================
