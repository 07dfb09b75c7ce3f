---------------------------- MODULE ObjectRules ----------------------------
(***************************************************************************)
(* The lint rules that read tables, views, functions and roles, and the    *)
(* registry of all rules.                                                  *)
(***************************************************************************)
EXTENDS PolicyRules

CONSTANTS PrincipalColumns,    \* SEC027's
          PiiColumns,          \* the columns with a name like "email"
          PolicyNames          \* in the order of their names

ASSUME PolicyNamesAssumption ==
    /\ PolicyNames \in Seq(Names)
    /\ \A i, j \in DOMAIN PolicyNames : PolicyNames[i] = PolicyNames[j] => i = j

RowAccess == {"SELECT", "INSERT", "UPDATE", "DELETE"}
LowTrust == {"anon", "authenticated", Public}     \* who PostgREST requests run as
Exposed == {"public"}                             \* the schemas PostgREST serves

PerTable(db, Fires(_)) == {<<t>> : t \in {x \in DOMAIN db.tables : Fires(x)}}
PerView(db, Fires(_)) == {<<v>> : v \in {x \in DOMAIN db.views : Fires(db.views[x])}}
PerFn(db, Fires(_)) == {<<f>> : f \in {x \in DOMAIN db.fns : Fires(db.fns[x])}}
\* What one or more steps lead to.  steps: where one step leads from each.
Reached(steps, start) ==
    LET reach[k \in Nat] ==
            IF k = 0 THEN start
            ELSE reach[k - 1] \cup UNION {steps[x] : x \in reach[k - 1] \cap DOMAIN steps}
    IN reach[Cardinality(DOMAIN steps)]
\* The tables above t, by the parents of each.
Above(parents, t) == Reached(parents, parents[t]) \cap DOMAIN parents
AncestorsOf(db, t) ==
    Above([x \in DOMAIN db.tables |-> {db.tables[x].partitionOf} \ {""}], t)
InheritanceAncestorsOf(db, t) == Above([x \in DOMAIN db.tables |-> db.tables[x].inherits], t)
AnyRls(db, ts) == \E t \in ts : db.tables[t].rls
\* The policies of a table, as a set.
PoliciesOf(t) == {t.policies[n] : n \in DOMAIN t.policies}
Granted(grants, roles, privs) == \E g \in grants : g.role \in roles /\ g.priv \in privs
-------------------------------------------------------------------------------
(* Tables without, or with half of, row security.                          *)

SEC001(db) == PerTable(db, LAMBDA n : LET t == db.tables[n] IN
    ~t.rls /\ t.policies = <<>> /\ ~AnyRls(db, AncestorsOf(db, n)))
SEC002(db) == PerTable(db, LAMBDA n : db.tables[n].rls /\ ~db.tables[n].force)
SEC007(db) == PerTable(db, LAMBDA n : LET t == db.tables[n] IN
    t.rls /\ t.policies # <<>> /\ \A p \in PoliciesOf(t) : p.permissive)
SEC009(db) == PerTable(db, LAMBDA n : db.tables[n].rls /\ db.tables[n].policies = <<>>)
SEC012(db) == PerTable(db, LAMBDA n : LET t == db.tables[n] IN
    t.rls /\ t.policies # <<>> /\ \A p \in PoliciesOf(t) : ~p.permissive)
SEC022(db) == PerTable(db, LAMBDA n : LET t == db.tables[n] IN
    /\ t.rls /\ t.partitionOf = "" /\ \E p \in PoliciesOf(t) : p.permissive
    /\ \A p \in PoliciesOf(t) : p.cmd \notin WriteCommands \cup {"DELETE"})
\* Mutant: the rule does not look at the ancestors.
WithPolicies(db) == PerTable(db, LAMBDA n : ~db.tables[n].rls /\ db.tables[n].policies # <<>>)
SEC032(db) == PerTable(db, LAMBDA n : LET t == db.tables[n] IN
    ~t.rls /\ t.policies # <<>> /\ ~AnyRls(db, AncestorsOf(db, n)))
\* Mutant: column grants are not looked at.
TableReachable(t) == \E g \in t.grants : g.priv \in RowAccess
\* A child of a table with row security is read around it.
IsDirectlyReachable(t) == \E g \in t.grants \cup t.colgrants : g.priv \in RowAccess
SEC041(db) == PerTable(db, LAMBDA n : LET t == db.tables[n] IN
    ~t.rls /\ IsDirectlyReachable(t) /\ AnyRls(db, AncestorsOf(db, n)))
SEC043(db) == PerTable(db, LAMBDA n : LET t == db.tables[n] IN
    ~t.rls /\ IsDirectlyReachable(t) /\ AnyRls(db, InheritanceAncestorsOf(db, n)))
SEC051(db) == PerTable(db, LAMBDA n :
    ~db.tables[n].rls /\ "supabase_realtime" \in db.tables[n].pubs)
-------------------------------------------------------------------------------
(* Tables whose row security is got around.                                *)

SEC013(db) == UNION {{<<t, tr.name>> : tr \in {x \in db.tables[t].triggers : x.enabled}} :
                         t \in {x \in DOMAIN db.tables : db.tables[x].rls}}
\* A principal's column that no policy mentions.
Mentioned(t) == UNION {OwnColumns(p.using) \cup OwnColumns(p.check) : p \in PoliciesOf(t)}
SEC027(db) == PerTable(db, LAMBDA n : LET t == db.tables[n] IN
    t.rls /\ t.policies # <<>> /\ ~(t.columns \cap PrincipalColumns \subseteq Mentioned(t)))
Scoping(t) == UNION {ScopingColumns(t, p.using, FALSE) \cup ScopingColumns(t, p.check, FALSE) :
                         p \in PoliciesOf(t)}
SEC030(db) == PerTable(db, LAMBDA n :
    db.tables[n].rls /\ Scoping(db.tables[n]) \cap db.tables[n].nullable # {})
\* A unique index without the tenant: its conflicts tell one tenant of another.
Discriminators(t) ==
    {o.of : o \in {x \in UNION {OperandsOf(p.using) \cup OperandsOf(p.check) : p \in PoliciesOf(t)} :
        /\ x.is \in {"column", "wrap"} /\ x.of \in t.columns
        /\ \E p \in PoliciesOf(t) : \E a \in Plain(p.using) \cup Plain(p.check) :
               a.op = "=" /\ \E s \in Sides(a) : s[1] = x /\ CallsAuth(s[2])}}
Unscoped(t) == {i \in t.indexes :
    LET cols == {i.columns[k] : k \in DOMAIN i.columns} IN
    /\ i.unique /\ ~i.primary /\ cols # {} /\ ~(cols \subseteq t.uuid)
    /\ Discriminators(t) # {} /\ cols \cap Discriminators(t) = {}}
SEC035(db) == UNION {{<<t, i.name>> : i \in Unscoped(db.tables[t])} :
                         t \in {x \in DOMAIN db.tables : db.tables[x].rls}}
SEC045(db) == UNION {{<<t, g.column>> : g \in {x \in db.tables[t].colgrants :
                          /\ x.role \in {"anon", Public} /\ x.column \in PiiColumns
                          /\ x.priv \in {"SELECT", "INSERT", "UPDATE"}}} : t \in DOMAIN db.tables}
\* Writing a child row tells whether a hidden parent row exists.
ChildWritableBy(t) == \E r \in Anonymous :
    /\ Granted(t.grants, {r, Public}, WriteCommands)
    /\ t.rls => \E p \in PoliciesOf(t) :
                    p.permissive /\ p.cmd \in WriteCommands /\ {r, Public} \cap p.roles # {}
RowSecuredParents(db, t) ==
    {fk \in db.tables[t].fks : fk.ref \in DOMAIN db.tables /\ db.tables[fk.ref].rls}
SEC047(db) == UNION {{<<t, fk.name>> : fk \in RowSecuredParents(db, t)} :
                         t \in {x \in DOMAIN db.tables : ChildWritableBy(db.tables[x])}}
\* PostgREST serves every row to a role that anyone may have.
UnrestrictedFor(t, role) ==
    LET applicable == {p \in PoliciesOf(t) : p.cmd \in {"SELECT", "ALL"}
                                             /\ {Public, role} \cap p.roles # {}} IN
    ~t.rls \/ /\ \E p \in applicable : p.permissive /\ IsLiteralTrue(p.using)
              /\ \A p \in applicable : p.permissive \/ IsLiteralTrue(p.using)
SEC049(db) == PerTable(db, LAMBDA n : LET t == db.tables[n] IN
    /\ t.schema \in Exposed
    /\ \E r \in LowTrust : Granted(t.grants \cup t.colgrants, {r}, {"SELECT"}) /\ UnrestrictedFor(t, r))
\* Supabase storage: policies that are not confined to a bucket.
Bucket(c) == "bucket_id" \in PlainColumns(c)
CommandClause(p) == IF p.cmd = "INSERT" THEN p.check ELSE p.using
SEC050(db) == {id \in PolicyIds(db) : LET t == db.tables[id[1]]  p == PolicyAt(db, id) IN
    /\ id[1] = "objects" /\ t.schema = "storage" /\ "bucket_id" \in t.columns
    /\ \A q \in PoliciesOf(t) : q.permissive \/ ~(Bucket(q.using) \/ Bucket(q.check))
    /\ p.permissive /\ CommandClause(p) # Absent
    /\ ~IsLiteralTrue(CommandClause(p)) /\ ~Bucket(CommandClause(p))}
\* Its note where the table has no such column.
SEC050Unscopable(db) == PerTable(db, LAMBDA n : LET t == db.tables[n] IN
    n = "objects" /\ t.schema = "storage" /\ "bucket_id" \notin t.columns /\ t.policies # <<>>)
SEC053(db) == {<<f>> : f \in {x \in DOMAIN db.foreign :
    db.foreign[x].schema \in Exposed /\ Granted(db.foreign[x].grants, LowTrust, {"SELECT"})}}
\* pressure: the tables `pgrls perf` found scanned; {} without its artifact.
PERF005(db, pressure) == PerTable(db, LAMBDA n : db.tables[n].rls /\ n \in pressure)
-------------------------------------------------------------------------------
(* Functions and roles.                                                    *)

SEC014(db) == PerFn(db, LAMBDA f : TRUE)
IsPgTempSafe(path) == /\ path # <<>> /\ path[Len(path)] = "pg_temp"
                      /\ \A i \in 1..(Len(path) - 1) : path[i] # "pg_temp"
SEC015(db) == PerFn(db, LAMBDA f : ~IsPgTempSafe(f.path))
SEC016(db) == {<<r.name>> : r \in {x \in db.bypass : ~x.super}}
SEC017(db) == {<<f>> : f \in db.leakproof}
SEC029(db) == {<<m.member>> : m \in db.escalations}
SEC042(db) == PerFn(db, LAMBDA f : f.bypass /\ Anonymous \cap f.execute # {})
SEC044(db) == {<<d.schema>> : d \in {x \in db.defaults : x.role = Public /\ x.priv \in RowAccess}}
SEC048(db, trusted) == {<<m.member>> : m \in {x \in db.reachers : x.via \ trusted # {}}}
-------------------------------------------------------------------------------
(* Views.                                                                  *)

\* The relations below a view, through the views it reads.
Below(db, v) == Reached([w \in DOMAIN db.views |-> db.views[w].from], v.from)
ViewTables(db, v) == Below(db, v) \cap DOMAIN db.tables
ReadsRls(db, v) == AnyRls(db, ViewTables(db, v))
SEC052(db) == PerView(db, LAMBDA v :
    /\ v.schema \in Exposed /\ Granted(v.grants, LowTrust, {"SELECT"}) /\ (v.mat \/ ~v.invoker)
    /\ "users" \in v.from /\ \A o \in OperandsOf(v.where) : ~CallsIdentity(o))
SEC054(db) == PerView(db, LAMBDA v :
    v.mat /\ v.schema \in Exposed /\ Granted(v.grants, LowTrust, {"SELECT"}) /\ ReadsRls(db, v))
VIEW001(db) == PerView(db, LAMBDA v : ~v.mat /\ ~v.invoker /\ ReadsRls(db, v))
VIEW002(db) == PerView(db, LAMBDA v : ~v.mat /\ ~v.barrier /\ ReadsRls(db, v))
VIEW003(db) == PerView(db, LAMBDA v : v.mat /\ ReadsRls(db, v))
SecdefFnLeaks(db, f) == f.language = "sql" /\ AnyRls(db, f.reads \cap DOMAIN db.tables)
VIEW004(db) == PerView(db, LAMBDA v :
    \E f \in v.calls \cap DOMAIN db.fns : SecdefFnLeaks(db, db.fns[f]))
-------------------------------------------------------------------------------
\* Every rule's locations.  c: the configuration.
Registry(d, c) == [
    SEC001 |-> SEC001(d), SEC002 |-> SEC002(d), SEC003 |-> SEC003(d), SEC004 |-> SEC004(d),
    SEC005 |-> SEC005(d), SEC006 |-> SEC006(d), SEC007 |-> SEC007(d), SEC008 |-> SEC008(d),
    SEC009 |-> SEC009(d), SEC010 |-> SEC010(d), SEC011 |-> SEC011(d), SEC012 |-> SEC012(d),
    SEC013 |-> SEC013(d), SEC014 |-> SEC014(d), SEC015 |-> SEC015(d), SEC016 |-> SEC016(d),
    SEC017 |-> SEC017(d), SEC018 |-> SEC018(d), SEC019 |-> SEC019(d), SEC020 |-> SEC020(d),
    SEC021 |-> SEC021(d), SEC022 |-> SEC022(d), SEC023 |-> SEC023(d), SEC024 |-> SEC024(d),
    SEC025 |-> SEC025(d), SEC026 |-> SEC026(d), SEC027 |-> SEC027(d), SEC028 |-> SEC028(d),
    SEC029 |-> SEC029(d), SEC030 |-> SEC030(d), SEC031 |-> SEC031(d), SEC032 |-> SEC032(d),
    SEC033 |-> SEC033(d), SEC034 |-> SEC034(d), SEC035 |-> SEC035(d), SEC036 |-> SEC036(d),
    SEC037 |-> SEC037(d), SEC038 |-> SEC038(d), SEC039 |-> SEC039(d), SEC040 |-> SEC040(d),
    SEC041 |-> SEC041(d), SEC042 |-> SEC042(d), SEC043 |-> SEC043(d), SEC044 |-> SEC044(d),
    SEC045 |-> SEC045(d), SEC046 |-> SEC046(d, c.trusted), SEC047 |-> SEC047(d),
    SEC048 |-> SEC048(d, c.trusted), SEC049 |-> SEC049(d),
    SEC050 |-> SEC050(d) \cup SEC050Unscopable(d), SEC051 |-> SEC051(d), SEC052 |-> SEC052(d),
    SEC053 |-> SEC053(d), SEC054 |-> SEC054(d), SEC055 |-> SEC055(d),
    HYG001 |-> HYG001(d), HYG002 |-> HYG002(d), HYG003 |-> HYG003(d, PolicyNames),
    HYG004 |-> HYG004(d, c.coverage), PERF001 |-> PERF001(d), PERF002 |-> PERF002(d),
    PERF003 |-> PERF003(d), PERF004 |-> PERF004(d), PERF005 |-> PERF005(d, c.pressure),
    VIEW001 |-> VIEW001(d), VIEW002 |-> VIEW002(d), VIEW003 |-> VIEW003(d), VIEW004 |-> VIEW004(d)]
===============================================================================
