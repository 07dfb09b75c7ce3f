---------------------------- MODULE PolicyRules ----------------------------
(***************************************************************************)
(* The lint rules that read one policy at a time.  A rule maps a database  *)
(* to the locations it fires at.  The rules' own lists of names are at     *)
(* their defaults, and are constants where the default names no function   *)
(* of the model.                                                           *)
(***************************************************************************)
EXTENDS IsolationProofs, Catalog

CONSTANTS DiscriminatorColumns,  \* SEC021's identity columns
          VolatileFunctions,     \* PERF002's
          RequireFunctions,      \* the functions named like require_tenant
          JsonPaths,             \* calls that read a claim of auth.jwt() -> its keys
          PlaceholderNames       \* policy names with a word like "todo" in them

Public == "PUBLIC"
Anonymous == {"anon", Public}
\* current_setting is one function to the rules, whatever its arguments.
AuthCalls == AuthFunctions \cup {"setting_strict"}
RoleIdentities == {"current_user"}
WriteCommands == {"ALL", "INSERT", "UPDATE"}

PolicyIds(db) == UNION {{<<t, n>> : n \in DOMAIN db.tables[t].policies} : t \in DOMAIN db.tables}
PolicyAt(db, id) == db.tables[id[1]].policies[id[2]]
\* The policies for which Fires(table, policy).
PerPolicy(db, Fires(_, _)) ==
    {id \in PolicyIds(db) : Fires(db.tables[id[1]], PolicyAt(db, id))}
InClause(p, Test(_)) == Test(p.using) \/ Test(p.check)
Calls(p) == FindFuncCalls(p.using) \cup FindFuncCalls(p.check)
\* What is outside subqueries; (SELECT f()) is a subquery as well.
Plain(c) == {a \in AtomsOf(c) : a.op # "exists"}
Sides(a) == {<<a.l, a.r>>, <<a.r, a.l>>}
PlainColumns(c) == OwnColumns({Plain(c)})
CallsAuth(o) == o.is \in Functions /\ o.of \in AuthCalls
CallsIdentity(o) == o.is \in Functions /\ o.of \in AuthCalls \cup RoleIdentities
-------------------------------------------------------------------------------
(* Security.                                                               *)

\* A permissive policy applies to PUBLIC.
SEC003(db) == PerPolicy(db, LAMBDA t, p : p.permissive /\ Public \in p.roles)
\* `auth.uid() IS NULL` is an alternative: whoever has no identity passes.
InvertedAuth(c) == \E a \in DisjunctAtoms(c) :
                       a.op = "isnull" /\ CallsAuth(a.l) /\ ~IsNeverNull(a.l.of)
SEC004(db) == PerPolicy(db, LAMBDA t, p : InClause(p, InvertedAuth))
SEC004Severity(p) == IF Anonymous \cap p.roles # {} THEN "error" ELSE "warning"
\* No clause reads a column of the table.
SEC005(db) == PerPolicy(db, LAMBDA t, p :
    /\ t.columns # {} /\ (p.using # Absent \/ p.check # Absent)
    /\ (OwnColumns(p.using) \cup OwnColumns(p.check)) \cap t.columns = {})
\* A write without WITH CHECK, and USING does not stand in for it.
WriteIsOpen(p) == p.cmd = "INSERT" \/ p.using = Absent \/ IsLiteralTrue(p.using)
SEC006(db) == PerPolicy(db, LAMBDA t, p :
    p.cmd \in WriteCommands /\ p.check = Absent /\ WriteIsOpen(p))
SEC008(db) == PerPolicy(db, LAMBDA t, p : p.permissive /\ IsLiteralTrue(p.using))
SEC010(db) == PerPolicy(db, LAMBDA t, p : InClause(p, IsLiteralFalse))
SEC011(db) == PerPolicy(db, LAMBDA t, p :
    InClause(p, LAMBDA c : HasTrueDisjunct(c) /\ Cardinality(c) > 1))
\* The caller's database role is compared with a column.
ComparesRole(t, c) == \E a \in AtomsOf(c) : a.op \in {"=", "<>"} /\ \E s \in Sides(a) :
    /\ s[1].is = "call" /\ s[1].of \in RoleIdentities
    /\ s[2].is \in {"column", "wrap"} /\ s[2].of \in t.columns
SEC018(db) == PerPolicy(db, LAMBDA t, p : InClause(p, LAMBDA c : ComparesRole(t, c)))
\* current_setting with one argument: an error where the parameter is not set.
SEC019(db) == PerPolicy(db, LAMBDA t, p : "setting_strict" \in Calls(p))
SEC020(db) == PerPolicy(db, LAMBDA t, p :
    p.using # Absent /\ ~IsLiteralTrue(p.using) /\ IsLiteralTrue(p.check))
\* A column that names a tenant is compared with a literal.
SEC021(db) == PerPolicy(db, LAMBDA t, p : InClause(p, LAMBDA c :
    \E a \in AtomsOf(c) : a.op = "=" /\ \E s \in Sides(a) :
        s[1].is \in {"column", "inner"} /\ s[1].of \in DiscriminatorColumns
        /\ s[2].is = "literal"))
\* A role that bypasses row security needs no policy.
SEC023(db) == PerPolicy(db, LAMBDA t, p :
    p.roles \cap {r.name : r \in {x \in db.bypass : ~x.super}} # {})
\* The name of the parameter has no dot: an extension may own it.
SEC024(db) == PerPolicy(db, LAMBDA t, p : "setting_plain" \in Calls(p))
\* A subquery reads a table without row security.
SEC025(db) == {id \in PolicyIds(db) : LET p == PolicyAt(db, id) IN
    \E ref \in RangeVars(p.using) \cup RangeVars(p.check) :
        /\ ref \in DOMAIN db.tables \ {id[1]} /\ ref \notin DOMAIN db.views
        /\ ~db.tables[ref].rls}
\* The caller's identity is used as a pattern, or matched against one that is
\* not a literal: the caller chooses wildcards.
PatternOnAuth(c) == \E a \in AtomsOf(c) :
    a.op = "~~" /\ \/ CallsIdentity(a.l) /\ a.r.is # "literal"
                   \/ CallsIdentity(a.r)
SEC026(db) == PerPolicy(db, LAMBDA t, p : InClause(p, PatternOnAuth))
SEC028(db) == PerPolicy(db, LAMBDA t, p :
    /\ p.permissive /\ p.cmd \in WriteCommands /\ IsLiteralTrue(p.check)
    /\ p.using = Absent \/ IsLiteralTrue(p.using))
SEC031(db) == PerPolicy(db, LAMBDA t, p : ~p.permissive /\ IsLiteralTrue(p.using))
\* A claim the user may write, and not below one of the server's.
UserWritable(keys) == \E i \in DOMAIN keys :
    keys[i] = "user_metadata" /\ \A j \in 1..(i - 1) : keys[j] # "app_metadata"
SEC033(db) == PerPolicy(db, LAMBDA t, p :
    \E n \in Calls(p) \cap DOMAIN JsonPaths : UserWritable(JsonPaths[n]))
SEC034(db) == PerPolicy(db, LAMBDA t, p : "auth.email" \in Calls(p))
\* EXISTS (SELECT ... FROM auth.users) that does not mention the caller.
SEC036(db) == PerPolicy(db, LAMBDA t, p : InClause(p, LAMBDA c : \E a \in AtomsOf(c) :
    a.op = "exists" /\ a.l.of = "users" /\ ~CallsIdentity(a.r)))
\* auth.role() is compared with a role Supabase never puts there.
UnknownRole(c) == \E a \in AtomsOf(c) : \E s \in Sides(a) :
    /\ a.op = "=" \/ (a.op = "in" /\ s = <<a.l, a.r>>)
    /\ s[1] = Call("auth.role") /\ s[2].is = "literal"
    /\ s[2].of \notin {"anon", "authenticated", "service_role"}
SEC037(db) == PerPolicy(db, LAMBDA t, p : InClause(p, UnknownRole))
\* The prover finds that every session without an identity passes every row.
SEC038(db) == PerPolicy(db, LAMBDA t, p :
    /\ p.permissive /\ p.cmd \in {"ALL", "SELECT"} /\ p.using # Absent
    /\ AnonReadCounterexample(p.using))
SEC039(db) == PerPolicy(db, LAMBDA t, p :
    p.permissive /\ p.cmd \in WriteCommands \cup {"DELETE"} /\ "anon" \in p.roles)
\* The columns a clause scopes rows by: <identity column> = <caller>.
ScopingColumns(t, c, broad) ==
    {o.of : o \in {x \in OperandsOf({Plain(c)}) :
        /\ x.is = "column" /\ x.of \in t.columns \cap DiscriminatorColumns
        /\ \E a \in Plain(c) : a.op \in (IF broad THEN {"=", "in"} ELSE {"="})
                               /\ \E s \in Sides(a) : s[1] = x /\ CallsAuth(s[2])}}
\* USING scopes rows and WITH CHECK does not.
SEC040(db) == PerPolicy(db, LAMBDA t, p :
    /\ p.permissive /\ p.cmd = "ALL" /\ p.check # Absent
    /\ ~IsLiteralTrue(p.check) /\ ~IsLiteralFalse(p.check)
    /\ ScopingColumns(t, p.using, TRUE) # {} /\ ScopingColumns(t, p.check, TRUE) = {})
\* A policy calls an IMMUTABLE function whose body reads the session or a table.
Lying(f) == f.language = "sql" /\ (f.session \/ f.reads # {})
\* Its allowlist names functions.
SEC046(db, trusted) == PerPolicy(db, LAMBDA t, p :
    \E n \in (DOMAIN db.immutable \ trusted) \cap Calls(p) : Lying(db.immutable[n]))
\* A policy stays with the silent setting where others raise without a tenant.
Raising(p) == RequireFunctions \cap Calls(p) # {}
SEC055(db) ==
    IF \A id \in PolicyIds(db) : ~Raising(PolicyAt(db, id)) THEN {}
    ELSE PerPolicy(db, LAMBDA t, p :
             ~Raising(p) /\ {"setting", "setting_plain"} \cap Calls(p) # {})
-------------------------------------------------------------------------------
(* Hygiene and performance.                                                *)

HYG001(db) == PerPolicy(db, LAMBDA t, p :
    t.columns # {} /\ ~((PlainColumns(p.using) \cup PlainColumns(p.check)) \subseteq t.columns))
HYG002(db) == {id \in PolicyIds(db) : id[2] \in PlaceholderNames}
\* A policy equal to another of its table, but for the first of them by name.
\* Names: the policy names in their order.
HYG003(db, names) ==
    {id \in PolicyIds(db) : \E i, j \in DOMAIN names :
        /\ i < j /\ names[j] = id[2] /\ names[i] \in DOMAIN db.tables[id[1]].policies
        /\ PolicyAt(db, <<id[1], names[i]>>) = PolicyAt(db, id)}
\* No test exercised the policy.  coverage: {[role, command, table]} of `pgrls
\* coverage`, or {} when the run was given none.
IsPolicyCovered(id, p, coverage) == \E e \in coverage :
    /\ e.table = id[1] /\ p.cmd \in {e.command, "ALL"} /\ (e.role \in p.roles \/ Public \in p.roles)
HYG004(db, coverage) ==
    IF coverage = {} THEN {}
    ELSE {id \in PolicyIds(db) : ~IsPolicyCovered(id, PolicyAt(db, id), coverage)}
\* A call outside a subquery runs once per row.
PerRowCall(c) == \E o \in OperandsOf({Plain(c)}) : CallsAuth(o) /\ o.is # "select"
PERF001(db) == PerPolicy(db, LAMBDA t, p : InClause(p, PerRowCall))
PERF002(db) == PerPolicy(db, LAMBDA t, p : VolatileFunctions \cap Calls(p) # {})
HasLeadingIndex(t, c) == \E i \in t.indexes : i.columns # <<>> /\ Head(i.columns) = c
PERF003(db) == PerPolicy(db, LAMBDA t, p :
    t.rls /\ \E c \in PlainColumns(p.using) \cup PlainColumns(p.check) :
                 (t.columns # {} => c \in t.columns) /\ ~HasLeadingIndex(t, c))
Wrapped(c) == {o.of : o \in {x \in OperandsOf({Plain(c)}) : x.is = "wrap"}}
PERF004(db) == PerPolicy(db, LAMBDA t, p :
    t.rls /\ \E c \in Wrapped(p.using) \cup Wrapped(p.check) :
                 (t.columns # {} => c \in t.columns) /\ HasLeadingIndex(t, c))
===============================================================================
