-------------------------------- MODULE Lint --------------------------------
(***************************************************************************)
(* `pgrls lint` as a gate: migrations change a database, lint runs on it   *)
(* with a configuration and a baseline file that records accepted          *)
(* findings, `pgrls generate --apply` scaffolds row security.  The second  *)
(* part is what PostgreSQL lets the roles anyone may have read and insert. *)
(***************************************************************************)
EXTENDS Snapshots

CONSTANTS Rows,          \* table -> the rows of it
          Policies, Views, Fns, Grants, RoleSets,    \* what DDL may put there
          Starts,        \* [db, config, edits, steps]: where to start and with which
                         \* configuration (with the versions of snapshots that are
                         \* linted); bounds on DDL statements and on all steps
          Options,       \* of `pgrls generate`: [column, strict, supabase, restrictive]
          DdlTables      \* bound: the tables DDL changes, and allowlists name

Severities == {"error", "warning", "info"}
\* The command line's rules (only, exclude), the file's (disable, override:
\* severities by rule; allow: entries of allowlists; trusted roles and
\* functions), and the artifacts of `pgrls coverage` and `pgrls perf`.
IsConfig(c) ==
    /\ c \in [only : SUBSET STRING, disable : SUBSET STRING, exclude : SUBSET STRING,
              override : {c.override}, allow : {c.allow}, trusted : SUBSET Names,
              coverage : SUBSET [role : Names, table : Names,
                                 command : {"SELECT", "INSERT", "UPDATE", "DELETE"}],
              pressure : SUBSET Names, failOn : Severities, versions : SUBSET Versions]
    /\ IsNamed(c.override, LAMBDA s : s \in Severities)

ASSUME LintAssumption ==
    /\ \A s \in Starts : /\ s.edits \in Nat /\ s.steps \in Nat
                          /\ IsSchema(s.db) /\ IsConfig(s.config)
                          /\ DdlTables \subseteq DOMAIN s.db.tables
                          /\ DOMAIN s.db.tables \subseteq DOMAIN Rows
    /\ IsNamed(Policies, LAMBDA ps : \A p \in ps : IsPolicy(p))
    /\ IsNamed(Views, LAMBDA vs : \A v \in vs : IsView(v)) /\ IsNamed(Fns, IsSecdef)
    /\ DOMAIN Views \cap DOMAIN Rows = {}
    /\ {"isolation", "floor", "authenticated", "require_tenant", "auth.uid", "setting"} \subseteq Names
    /\ Grants \subseteq TableGrants /\ RoleSets \subseteq SUBSET Names
    /\ Options \subseteq [column : Names, strict : BOOLEAN, supabase : BOOLEAN, restrictive : BOOLEAN]
\* The names `generate` gives policies are no placeholders, and the functions its
\* predicates call are neither volatile nor claims of a JWT.
ASSUME GenerateAssumption ==
    /\ {"isolation", "floor"} \cap PlaceholderNames = {}
    /\ {"require_tenant", "auth.uid", "setting"} \cap (VolatileFunctions \cup DOMAIN JsonPaths) = {}

VARIABLES db, config,
          baseline,      \* the file: [file (it exists), keys]
          last,          \* the last step: "none" (DDL), lint's "pass" or "fail", or
                         \* "generated", with the tables and the option
          edits,         \* DDL statements left
          steps          \* steps left
vars == <<db, config, baseline, last, edits, steps>>
-------------------------------------------------------------------------------
(* Findings.                                                               *)

Errors == {"SEC001", "SEC002", "SEC003", "SEC006", "SEC032", "SEC033", "SEC036", "SEC038", "SEC039",
           "SEC042", "SEC046", "SEC052", "SEC053", "SEC054", "HYG001", "VIEW001"}
Notes == {"SEC007", "SEC019", "SEC021", "SEC022", "SEC024", "SEC027", "SEC030",
          "HYG003", "HYG004", "PERF005"}
\* SEC004 and SEC050 choose per finding.
SeverityOf(d, r, at) ==
    IF r = "SEC004" THEN SEC004Severity(PolicyAt(d, at))
    ELSE IF r \in Errors THEN "error"
    ELSE IF r \in Notes \/ (r = "SEC050" /\ Len(at) = 1) THEN "info"
    ELSE "warning"
IsAtOrAbove(s, floor) == s = "error" \/ s = floor \/ floor = "info"

\* --rule overrides `disable`; --exclude-rule comes after both.
Selected(c, rules) == (IF c.only # {} THEN c.only \cap rules ELSE rules \ c.disable) \ c.exclude
\* An entry of a rule's allowlist names the finding's location; SEC035's and
\* SEC047's name the table (SEC047's may also name a foreign key of any table).
\* SEC004 has none, SEC046's names functions.
Entry(r, at) == <<r, IF r \in {"SEC035", "SEC047"} THEN <<at[1]>> ELSE at>>
Allowed(c, r, at) == Entry(r, at) \in c.allow
RunRules(d, c) == UNION {
    UNION {{[rule |-> r, at |-> l,
             severity |-> IF r \in DOMAIN c.override THEN c.override[r] ELSE SeverityOf(d, r, l)] :
                l \in {x \in hits[r] : ~Allowed(c, r, x)}} : r \in Selected(c, DOMAIN hits)} :
    hits \in {Registry(d, c)}}
\* The identity of a finding in the baseline.
Key(f) == <<f.rule, f.at>>
\* Mutant: the identity is the rule.
RuleRecorded(f, keys) == \E k \in keys : k[1] = f.rule
Recorded(f, keys) == Key(f) \in keys
ShouldFail(found, c) == \E f \in found : IsAtOrAbove(f.severity, c.failOn)
-------------------------------------------------------------------------------
(* What a session may do.  Views and SECURITY DEFINER functions belong to  *)
(* a superuser.                                                            *)

\* The session of a request: the caller and the tenant its setting names.  A
\* function like require_tenant raises without one.
Session(role, uid, tenant) ==
    [f \in AuthFunctions \cup RequireFunctions |->
        CASE f = "auth.role" -> role [] f = "auth.uid" -> uid [] f = "setting" -> tenant
          [] f \in RequireFunctions -> IF tenant = Null THEN Raises ELSE tenant
          [] OTHER -> Null]
\* Requests without a JWT, with the anon key, and of a user who is in no tenant.
Sessions(role) == IF role = "anon" THEN {Session(Null, Null, Null), Session("anon", Null, Null)}
                  ELSE {Session(role, "stranger", Null)}
HasBypass(d, role) == \E b \in d.bypass : b.name = role
Applies(p, role, cmd) == p.cmd \in {"ALL", cmd} /\ {Public, role} \cap p.roles # {}
\* PostgreSQL's check of a new row, and its filter of an old one.
Gate(p, cmd) == IF cmd = "INSERT" /\ p.check # Absent THEN p.check ELSE p.using
MayTouch(d, t, role, cmd, s, r) ==
    LET table == d.tables[t]
        applied == {p \in PoliciesOf(table) : Applies(p, role, cmd)} IN
    \/ ~table.rls \/ HasBypass(d, role)
    \/ /\ \E p \in applied : p.permissive /\ Admits(Gate(p, cmd), s, r)
       /\ \A p \in applied : p.permissive \/ Gate(p, cmd) = Absent \/ Admits(Gate(p, cmd), s, r)
CanDo(t, role, cmd) == Granted(t.grants \cup t.colgrants, {role, Public}, {cmd})
\* The rows of t a session reads through a view.  A plain view reads as its
\* owner, a security_invoker view as its caller.
ThroughView(d, v, t, role, s) ==
    LET rows[w \in DOMAIN d.views] ==
            LET view == d.views[w]
                mine == view.invoker /\ ~view.mat
                below == {r \in Rows[t] : Admits(view.where, s, r)} IN
            IF ~mine THEN (IF t \in ViewTables(d, view) THEN below ELSE {})
            ELSE below \cap
                 ((UNION {rows[x] : x \in {y \in view.from \cap DOMAIN d.views :
                                               Granted(d.views[y].grants, {role, Public}, {"SELECT"})}})
                  \cup IF t \in view.from /\ CanDo(d.tables[t], role, "SELECT")
                       THEN {r \in Rows[t] : MayTouch(d, t, role, "SELECT", s, r)} ELSE {})
    IN IF Granted(d.views[v].grants, {role, Public}, {"SELECT"}) THEN rows[v] ELSE {}
Through(d, by, t, role, s) ==
    IF by \in {"SELECT", "INSERT"}
    THEN {r \in Rows[t] : CanDo(d.tables[t], role, by) /\ MayTouch(d, t, role, by, s, r)}
    ELSE IF by \in DOMAIN d.views THEN ThroughView(d, by, t, role, s)
    ELSE IF /\ t \in d.fns[by].reads /\ {role, Public} \cap d.fns[by].execute # {}
            /\ d.fns[by].bypass
         THEN Rows[t] ELSE {}
\* A door: some session of the role reads, or may insert, every row of a table.
Doors(d) ==
    {x \in [table : {t \in DOMAIN d.tables : Rows[t] # {}}, role : {"anon", "authenticated"},
            by : {"SELECT", "INSERT"} \cup DOMAIN d.views \cup DOMAIN d.fns] :
        \E s \in Sessions(x.role) : Through(d, x.by, x.table, x.role, s) = Rows[x.table]}
-------------------------------------------------------------------------------
(* The steps.                                                              *)

\* The tables a start has stay, and where there is no baseline file nothing is
\* recorded.
TypeOK == /\ IsSchema(db) /\ IsConfig(config) /\ edits \in Nat /\ steps \in Nat
          /\ DdlTables \subseteq DOMAIN db.tables /\ DOMAIN db.tables \subseteq DOMAIN Rows
          /\ baseline \in [file : BOOLEAN, keys : {baseline.keys}]
          /\ baseline.file \/ baseline.keys = {}
          /\ last.op \in {"none", "pass", "fail", "snapshot", "generated"}
          /\ last.op = "generated" => last.option \in Options /\ last.tables \subseteq DOMAIN db.tables
Idle == [op |-> "none", tables |-> {}]
Init == /\ \E s \in Starts : db = s.db /\ config = s.config /\ edits = s.edits /\ steps = s.steps
        /\ last = Idle
        /\ baseline = [file |-> FALSE, keys |-> {}]

Edited(d) == /\ edits > 0 /\ steps > 0 /\ d # db
             /\ db' = d /\ edits' = edits - 1 /\ steps' = steps - 1 /\ last' = Idle
             /\ UNCHANGED <<config, baseline>>
Put(f, k, v) == [x \in DOMAIN f \cup {k} |-> IF x = k THEN v ELSE f[x]]
Drop(f, k) == [x \in DOMAIN f \ {k} |-> f[x]]
SetRls(t, on) == Edited([db EXCEPT !.tables[t].rls = on])
SetForce(t, on) == Edited([db EXCEPT !.tables[t].force = on])
CreatePolicy(t, n, p) == n \notin DOMAIN db.tables[t].policies
                         /\ Edited([db EXCEPT !.tables[t].policies = Put(@, n, p)])
AlterPolicyRoles(t, n, rs) == Edited([db EXCEPT !.tables[t].policies[n].roles = rs])
DropPolicy(t, n) == Edited([db EXCEPT !.tables[t].policies = Drop(@, n)])
Grant(t, g) == Edited([db EXCEPT !.tables[t].grants = @ \cup {g}])
GrantColumn(t, g, c) == g.priv # "DELETE" /\ Edited([db EXCEPT !.tables[t].colgrants =
                            @ \cup {[role |-> g.role, priv |-> g.priv, column |-> c]}])
CreateView(n, v) == /\ n \notin v.from /\ v.from \subseteq DOMAIN db.tables \cup DOMAIN db.views
                    /\ \A w \in v.from \cap DOMAIN db.views : n \notin db.views[w].from
                    /\ Edited([db EXCEPT !.views = Put(@, n, v)])
CreateFunction(n, f) == Edited([db EXCEPT !.fns = Put(@, n, f)])

WriteBaseline(found) == [file |-> TRUE, keys |-> {Key(f) : f \in found}]
\* `pgrls lint --baseline FILE`: the first run writes the file and passes.
Ran == steps > 0 /\ steps' = steps - 1 /\ UNCHANGED edits
LintRun ==
    /\ Ran
    /\ \E found \in {RunRules(db, config)} :
           LET fresh == IF baseline.file THEN {f \in found : ~Recorded(f, baseline.keys)} ELSE {} IN
           /\ last' = [op |-> IF ShouldFail(fresh, config) THEN "fail" ELSE "pass", tables |-> {}]
           /\ baseline' = IF baseline.file THEN baseline
                          ELSE WriteBaseline(found)
    /\ UNCHANGED <<db, config>>
\* `pgrls lint --snapshot FILE`, of a snapshot of the database of some version.
LintSnapshot(v) ==
    /\ Ran
    /\ \E found \in {RunRules(FromSnapshot(db, v),
                            [config EXCEPT !.exclude = @ \cup InertRuleIds("snapshot", v)])} :
           last' = [op |-> "snapshot", tables |-> {}, version |-> v, clean |-> ~ShouldFail(found, config)]
    /\ UNCHANGED <<db, config, baseline>>
\* --update-baseline, after a run that fails: the file is replaced, and nothing
\* is gated.
UpdateBaseline ==
    /\ Ran /\ last.op = "fail"
    /\ baseline' = WriteBaseline(RunRules(db, config))
    /\ last' = Idle /\ UNCHANGED <<db, config>>
\* Or a finding is put on its rule's allowlist.
Allow(f) == /\ Ran /\ f.rule \notin {"SEC004", "SEC046"} /\ Head(f.at) \in DdlTables
            /\ config' = [config EXCEPT !.allow = @ \cup {Entry(f.rule, f.at)}]
            /\ last' = Idle /\ UNCHANGED <<db, baseline>>

\* plan_generation: the tables with the column and no policy, partitions aside.
Targets(d, o) == {t \in DOMAIN d.tables :
    /\ o.column \in d.tables[t].columns /\ d.tables[t].partitionOf = ""
    /\ d.tables[t].policies = <<>>}
SessionTerm(o) == IF o.strict THEN "require_tenant" ELSE IF o.supabase THEN "auth.uid" ELSE "setting"
SessionPredicate(o) == One(Eq(Col(o.column), Select(SessionTerm(o))))
Isolation(o, permissive) ==
    [cmd |-> "ALL", permissive |-> permissive, roles |-> {"authenticated"},
     using |-> SessionPredicate(o), check |-> SessionPredicate(o)]
\* Mutant: the owner of the table is not subject to its policies.
EnabledOnly(t, o) ==
    [t EXCEPT !.rls = TRUE, !.policies = [n \in {"isolation"} |-> Isolation(o, TRUE)]]
\* The index is named by a hash of its table and column: by its column, here.
StatementsForTable(t, o) ==
    [t EXCEPT !.rls = TRUE, !.force = TRUE,
              !.policies = [n \in {"isolation"} \cup (IF o.restrictive THEN {"floor"} ELSE {}) |->
                              Isolation(o, n = "isolation")],
              !.indexes = @ \cup {[name |-> o.column, columns |-> <<o.column>>,
                                unique |-> FALSE, primary |-> FALSE]}]
\* `pgrls generate --apply`, in one transaction.
Generate(o) ==
    /\ Ran /\ Targets(db, o) # {}
    /\ db' = [db EXCEPT !.tables = [t \in DOMAIN db.tables |->
                  IF t \in Targets(db, o) THEN StatementsForTable(db.tables[t], o) ELSE db.tables[t]]]
    /\ last' = [op |-> "generated", tables |-> Targets(db, o), option |-> o]
    /\ UNCHANGED <<config, baseline>>

Next == \/ \E t \in DdlTables :
            \/ \E on \in BOOLEAN : SetRls(t, on) \/ SetForce(t, on)
            \/ \E n \in DOMAIN Policies : \E p \in Policies[n] : CreatePolicy(t, n, p)
            \/ \E n \in DOMAIN db.tables[t].policies :
                  DropPolicy(t, n) \/ \E rs \in RoleSets : AlterPolicyRoles(t, n, rs)
            \/ \E g \in Grants : Grant(t, g) \/ \E c \in db.tables[t].columns : GrantColumn(t, g, c)
        \/ \E n \in DOMAIN Views : \E v \in Views[n] : CreateView(n, v)
        \/ \E n \in DOMAIN Fns : CreateFunction(n, Fns[n])
        \/ LintRun \/ UpdateBaseline
        \/ \E v \in config.versions : LintSnapshot(v)
        \/ last.op = "fail" /\ \E f \in RunRules(db, config) : Allow(f)
        \/ \E o \in Options : Generate(o)
Spec == Init /\ [][Next]_vars
-------------------------------------------------------------------------------
(* Properties.                                                             *)

ReadRules == {"SEC001", "SEC003", "SEC004", "SEC005", "SEC008", "SEC011", "SEC014", "SEC016",
              "SEC032", "SEC038", "SEC041", "SEC043", "SEC049", "SEC054", "VIEW001", "VIEW003"}
WriteRules == {"SEC001", "SEC003", "SEC004", "SEC005", "SEC006", "SEC011", "SEC016", "SEC020",
               "SEC028", "SEC032", "SEC039", "SEC040", "SEC041", "SEC043"}
\* A finding about a door: at its table, at the view or function or a view below
\* it, at the role, or at a policy that applies to it.
Behind(d, by) == {by} \cup IF by \in DOMAIN d.views THEN Below(d, d.views[by]) ELSE {}
Reports(d, f, x) ==
    /\ f.rule \in IF x.by = "INSERT" THEN WriteRules ELSE ReadRules
    /\ \/ f.at \in {<<n>> : n \in {x.table, x.role} \cup Behind(d, x.by)}
       \/ /\ Len(f.at) = 2 /\ f.at[1] = x.table /\ f.rule # "SEC013"
          /\ Applies(PolicyAt(d, f.at), x.role, IF x.by = "INSERT" THEN "INSERT" ELSE "SELECT")
\* What no rule looks for: an alternative that tests the caller only, beside one
\* that reads a column (`tenant_id = ... OR auth.role() = 'authenticated'`), and
\* rows that only several policies open together.
CallerAlternative(c) ==
    \E e, f \in c : /\ OwnColumns({e}) = {} /\ OwnColumns({f}) # {}
                    /\ e # {Yes} /\ ~InvertedAuth({e})
Blind(d, x) ==
    LET cmd == IF x.by = "INSERT" THEN "INSERT" ELSE "SELECT"
        openers == {p \in PoliciesOf(d.tables[x.table]) :
            /\ p.permissive /\ Applies(p, x.role, cmd)
            /\ \E s \in Sessions(x.role) : \A r \in Rows[x.table] : Admits(Gate(p, cmd), s, r)}
    IN /\ x.by \notin DOMAIN d.fns
       /\ \A v \in Behind(d, x.by) \cap DOMAIN d.views : d.views[v].invoker /\ ~d.views[v].mat
       /\ d.tables[x.table].rls /\ \A p \in openers : CallerAlternative(Gate(p, cmd))
\* What the allowlists keep silent is reported all the same.
Unlisted == [config EXCEPT !.allow = {}]
\* Whatever DDL did, lint reports every door, the blind shapes aside, at a
\* severity that fails a run.
DoorsReported == \E found \in {RunRules(db, Unlisted)} : \A x \in Doors(db) :
    Blind(db, x) \/ \E f \in found : Reports(db, f, x) /\ f.severity # "info"

\* A run that passes leaves no door open that nobody accepted: a finding about
\* it has its own entry in the baseline file or on its rule's allowlist.
NewDoorsFailTheGate == last.op = "pass" =>
    \E found \in {RunRules(db, Unlisted)} : \A x \in Doors(db) :
        \/ Blind(db, x)
        \/ \E f \in found : /\ Reports(db, f, x)
                            /\ Key(f) \in baseline.keys \/ Entry(f.rule, f.at) \in config.allow

\* A table that is read around row security, its own or its partition root's, is
\* the finding of one rule of the three that look there.
OneOwnerPerBypass == \A t \in {x \in DOMAIN db.tables : ~db.tables[x].rls} :
    LET owners == {i \in 1..3 : <<t>> \in <<SEC001(db), SEC032(db), SEC041(db)>>[i]} IN
    Cardinality(owners) <= 1 /\ (IsDirectlyReachable(db.tables[t]) => owners # {})

\* The rules whose findings are at functions, roles, schemas and foreign tables.
ElsewhereRules == {"SEC014", "SEC015", "SEC016", "SEC017", "SEC029", "SEC042", "SEC044", "SEC048", "SEC053"}
\* What generation does not look at: triggers, other identity columns and
\* indexes, NULLs, column grants, parents, roles that bypass row security,
\* functions said to be IMMUTABLE, storage buckets, policies of other tables that
\* raise, and the artifacts.
Standing(o) == {"SEC013", "SEC023", "SEC027", "SEC030", "SEC035", "SEC045", "SEC046", "SEC047",
                "SEC050", "HYG004", "PERF005"}
               \cup (IF o.restrictive THEN {} ELSE {"SEC007"})
               \cup (IF o.strict THEN {} ELSE {"SEC055"})
\* The tables `generate` scaffolds lint clean, but for what stood before, and a
\* request reads and inserts the rows of its own tenant only.
GeneratedLintsClean == last.op = "generated" =>
    LET o == last.option IN
    /\ \A f \in RunRules(db, Unlisted) :
           Head(f.at) \in last.tables => f.rule \in ElsewhereRules \cup Standing(o)
    /\ \A t \in last.tables, role \in {"anon", "authenticated"}, by \in {"SELECT", "INSERT"} :
           HasBypass(db, role) \/
           \A uid \in {Null, "A"}, tenant \in {Null, "A", "B"} :
               LET s == Session(role, uid, tenant) IN
               \A r \in Through(db, by, t, role, s) : r[o.column] = s[SessionTerm(o)]

\* Rules that read a field older snapshots lack and are not inert there: column
\* grants (version 15), the nullability of columns.
Unnoticed(rule, v) == \/ rule \in {"SEC041", "SEC045", "SEC049"} /\ v < TableSince.colgrants
                      \/ rule = "SEC030" /\ v < TableSince.details
\* What lint finds on a database it finds on a snapshot of it, but for the rules
\* it leaves out; a run that left none out and is clean is a clean database's.
NoSilentRule == last.op = "snapshot" =>
    LET v == last.version IN
    \A full \in {Registry(db, config)}, read \in {Registry(FromSnapshot(db, v), config)} :
        /\ \A rule \in DOMAIN full \ InertRuleIds("snapshot", v) :
               full[rule] \subseteq read[rule] \/ Unnoticed(rule, v)
        /\ last.clean /\ InertRuleIds("snapshot", v) = {} => ~ShouldFail(RunRules(db, config), config)
===============================================================================
